-------------------------- MODULE RuntimePool_proofs --------------------------
(***************************************************************************)
(* The safety of the runtime pool for any number of runs, runtime keys,    *)
(* sessions, entries and concurrent evictions, and of an ACP process, the  *)
(* runtime of Grok, Cursor and Copilot, for any agents, models, prompts    *)
(* and bounds.  Each is proved by itself, and then the ACP process as the  *)
(* part of Providers that it is.                                           *)
(***************************************************************************)
EXTENDS Providers, FiniteSetTheorems, FunctionTheorems, TLAPS

\* Using an entry or a session takes it out of what the evictions found idle.
LEMMA TouchKeepsType ==
  ASSUME eviction \in [Evictions -> EvictionStates], NEW es, NEW ss, Touch(es, ss)
  PROVE  eviction' \in [Evictions -> EvictionStates]
<1>1. ASSUME NEW v \in Evictions
      PROVE  [eviction[v] EXCEPT !.idle = @ \ es, !.unused = @ \ ss] \in EvictionStates
  <2>1. eviction[v] \in EvictionStates
    OBVIOUS
  <2>2. eviction[v].idle \ es \in SUBSET Entries
    BY <2>1 DEF EvictionStates
  <2>3. eviction[v].unused \ ss \in SUBSET (Entries \X Sessions)
    BY <2>1 DEF EvictionStates
  <2>. QED
    BY <2>1, <2>2, <2>3 DEF EvictionStates
<1>. QED
  BY <1>1 DEF Touch

\* A run only ever adds its own session to those its entry knows.
LEMMA AddingKeepsType ==
  ASSUME sessions \in [Entries -> SUBSET Sessions], NEW e, NEW r \in Runs
  PROVE  [sessions EXCEPT ![e] = @ \union {SessionOf[r]}] \in [Entries -> SUBSET Sessions]
<1>1. \A x \in Entries : sessions[x] \union {SessionOf[r]} \in SUBSET Sessions
  BY RunsAssumption
<1>. QED
  BY <1>1

LEMMA TypeIsInductive == TypeOK /\ [Next]_vars => TypeOK'
<1>. SUFFICES ASSUME TypeOK, [Next]_vars PROVE TypeOK'
  OBVIOUS
<1>. USE DEF TypeOK, table, closure, usage
<1>1. ASSUME NEW r \in Runs, Begin(r) PROVE TypeOK'
  BY <1>1 DEF Begin, Goes, RunPlaces
<1>2. ASSUME NEW r \in Runs, NEW e \in Entries, Reuse(r, e) PROVE TypeOK'
  BY <1>2 DEF Reuse, Enters, RunPlaces
<1>3. ASSUME NEW r \in Runs, NEW e \in Entries, Join(r, e) PROVE TypeOK'
  BY <1>3 DEF Join, RunPlaces
<1>4. ASSUME NEW r \in Runs, NEW e \in Entries, FindsDead(r, e) PROVE TypeOK'
  BY <1>4 DEF FindsDead, RemoveAndClose, Without, CloseEntries, CloseStages, Reasons, RunPlaces
<1>5. ASSUME NEW r \in Runs, NEW e \in Entries, Create(r, e) PROVE TypeOK'
  BY <1>5, RunsAssumption DEF Create, RunPlaces
<1>6. ASSUME NEW r \in Runs, PoolIsClosed(r) PROVE TypeOK'
  BY <1>6 DEF PoolIsClosed, Goes, RunPlaces
<1>7. ASSUME NEW e \in Entries, Created(e) \/ Dies(e) PROVE TypeOK'
  BY <1>7 DEF Created, Dies
<1>8. ASSUME NEW e \in Entries, CreationFails(e) PROVE TypeOK'
  BY <1>8 DEF CreationFails, Without
<1>9. ASSUME NEW r \in Runs, HasFailed(r) PROVE TypeOK'
  BY <1>9 DEF HasFailed, RunPlaces
<1>10. ASSUME NEW r \in Runs, HasRuntime(r) PROVE TypeOK'
  BY <1>10 DEF HasRuntime, Enters, EntryOf, RunPlaces
<1>11. ASSUME NEW r \in Runs, HasLostRuntime(r) PROVE TypeOK'
  BY <1>11 DEF HasLostRuntime, RemoveAndClose, Without, CloseEntries, CloseStages, Reasons,
               Goes, RunPlaces
<1>12. ASSUME NEW r \in Runs, CloseAwaited(r) PROVE TypeOK'
  BY <1>12 DEF CloseAwaited, RunPlaces
<1>13. ASSUME NEW r \in Runs, ReserveSession(r) PROVE TypeOK'
  <2>1. sessions' \in [Entries -> SUBSET Sessions]
    BY <1>13, AddingKeepsType DEF ReserveSession, Reserves
  <2>2. run' \in [Runs -> [at: RunPlaces, entry: Entries \union {None}]]
    BY <1>13 DEF ReserveSession, Goes, RunPlaces
  <2>3. eviction' \in [Evictions -> EvictionStates]
    BY <1>13, TouchKeepsType DEF ReserveSession, Reserves
  <2>. QED
    BY <1>13, <2>1, <2>2, <2>3 DEF ReserveSession, Reserves
<1>14. ASSUME NEW r \in Runs, ReserveFails(r) PROVE TypeOK'
  BY <1>14, TouchKeepsType DEF ReserveFails, Leaves, RunPlaces
<1>15. ASSUME NEW r \in Runs, ReportFails(r) PROVE TypeOK'
  BY <1>15 DEF ReportFails, Goes, RunPlaces
<1>16. ASSUME NEW r \in Runs, Succeeds(r) PROVE TypeOK'
  <2>1. sessions' \in [Entries -> SUBSET Sessions]
    BY <1>16, AddingKeepsType DEF Succeeds
  <2>2. run' \in [Runs -> [at: RunPlaces, entry: Entries \union {None}]]
    BY <1>16 DEF Succeeds, Leaves, RunPlaces
  <2>3. eviction' \in [Evictions -> EvictionStates]
    BY <1>16, TouchKeepsType DEF Succeeds, Leaves
  <2>. QED
    BY <1>16, <2>1, <2>2, <2>3 DEF Succeeds, Leaves
<1>17. ASSUME NEW r \in Runs, Fails(r) PROVE TypeOK'
  BY <1>17, TouchKeepsType DEF Fails, Leaves, RunPlaces
<1>18. ASSUME NEW r \in Runs, Crashes(r) PROVE TypeOK'
  BY <1>18 DEF Crashes, RemoveAndClose, Without, CloseEntries, CloseStages, Reasons,
               Goes, RunPlaces
<1>19. ASSUME NEW r \in Runs, CleanedUp(r) PROVE TypeOK'
  BY <1>19, TouchKeepsType DEF CleanedUp, Leaves, RunPlaces
<1>20. ASSUME NEW e \in Entries, CloserStep(e) PROVE TypeOK'
  BY <1>20 DEF CloserStep, NothingToClose, CloserHasRuntime, CloserReleased, CloserAt, CloseStages
<1>21. ASSUME NEW e \in Entries, RuntimeClosed(e) PROVE TypeOK'
  BY <1>21 DEF RuntimeClosed, CloserAt, CloseStages
<1>22. ASSUME NEW e \in Entries, NEW s \in Sessions, ReleaseEnds(e, s) PROVE TypeOK'
  <2>1. eviction' \in [Evictions -> EvictionStates]
    <3>1. ASSUME NEW v \in Evictions PROVE [eviction[v] EXCEPT !.awaits = @ \ {<<e, s>>}] \in EvictionStates
      <4>1. eviction[v] \in EvictionStates
        OBVIOUS
      <4>. QED
        BY <4>1 DEF EvictionStates
    <3>. QED
      BY <1>22, <3>1 DEF ReleaseEnds
  <2>. QED
    BY <1>22, <2>1 DEF ReleaseEnds
<1>23. ASSUME NEW v \in Evictions, EvictIdle(v) PROVE TypeOK'
  <2>1. PICK idle \in SUBSET InTable, unused \in SUBSET (InTable \X Sessions) :
           eviction' = [eviction EXCEPT ![v] =
                          [at |-> "next", entry |-> None, todo |-> InTable, closes |-> {},
                           idle |-> idle, unused |-> unused, awaits |-> {}]]
    BY <1>23 DEF EvictIdle
  <2>2. unused \in SUBSET (Entries \X Sessions)
    BY DEF InTable
  <2>3. [at |-> "next", entry |-> None, todo |-> InTable, closes |-> {},
         idle |-> idle, unused |-> unused, awaits |-> {}] \in EvictionStates
    BY <2>2 DEF EvictionStates, InTable
  <2>. QED
    BY <1>23, <2>1, <2>3 DEF EvictIdle
<1>24. ASSUME NEW v \in Evictions, NEW e \in Entries, ReleaseIdleSessions(v, e) PROVE TypeOK'
  <2>. DEFINE next == [eviction[v] EXCEPT !.at = "release", !.entry = e, !.todo = @ \ {e},
                                          !.awaits = {e} \X IdleSessions(v, e)]
  <2>1. IdleSessions(v, e) \subseteq Sessions
    BY DEF IdleSessions
  <2>2. next \in EvictionStates
    <3>1. eviction[v] \in EvictionStates
      OBVIOUS
    <3>2. {e} \X IdleSessions(v, e) \in SUBSET (Entries \X Sessions)
      BY <2>1
    <3>. QED
      BY <3>1, <3>2 DEF EvictionStates
  <2>3. eviction' = [eviction EXCEPT ![v] = next]
    BY <1>24 DEF ReleaseIdleSessions
  <2>4. eviction' \in [Evictions -> EvictionStates]
    BY <2>2, <2>3
  <2>. HIDE DEF next
  <2>. QED
    BY <1>24, <2>1, <2>4 DEF ReleaseIdleSessions
<1>25. ASSUME NEW v \in Evictions, EvictOrKeep(v) PROVE TypeOK'
  <2>1. eviction' \in [Evictions -> EvictionStates]
    <3>1. eviction[v] \in EvictionStates
      OBVIOUS
    <3>2. StillIdle(v, eviction[v].entry) => eviction[v].entry \in Entries
      BY <3>1 DEF StillIdle, EvictionStates
    <3>3. CASE StillIdle(v, eviction[v].entry)
      <4>1. [eviction[v] EXCEPT !.at = "next", !.closes = @ \union {eviction[v].entry}]
               \in EvictionStates
        BY <3>1, <3>2, <3>3 DEF EvictionStates
      <4>. QED
        BY <1>25, <3>3, <4>1 DEF EvictOrKeep
    <3>4. CASE ~StillIdle(v, eviction[v].entry)
      <4>1. [eviction[v] EXCEPT !.at = "next"] \in EvictionStates
        BY <3>1 DEF EvictionStates
      <4>. QED
        BY <1>25, <3>4, <4>1 DEF EvictOrKeep
    <3>. QED
      BY <3>3, <3>4
  <2>2. entries' \in [Keys -> Entries \union {None}]
    BY <1>25 DEF EvictOrKeep, CloseIdle, Without
  <2>. QED
    BY <1>25, <2>1, <2>2 DEF EvictOrKeep, CloseIdle, CloseStages, Reasons
<1>26. ASSUME NEW v \in Evictions, Evicted(v) \/ EvictionEnds(v) PROVE TypeOK'
  <2>1. Off \in EvictionStates
    BY DEF Off, EvictionStates
  <2>2. [eviction[v] EXCEPT !.at = "wait"] \in EvictionStates
    <3>1. eviction[v] \in EvictionStates
      OBVIOUS
    <3>. QED
      BY <3>1 DEF EvictionStates
  <2>. QED
    BY <1>26, <2>1, <2>2 DEF Evicted, EvictionEnds
<1>27. CASE Close
  BY <1>27 DEF Close, CloseEntries, CloseStages, Reasons
<1>28. CASE Closed
  BY <1>28 DEF Closed
<1>29. CASE UNCHANGED vars
  BY <1>29 DEF vars
<1>. QED
  BY <1>1, <1>2, <1>3, <1>4, <1>5, <1>6, <1>7, <1>8, <1>9, <1>10, <1>11, <1>12, <1>13,
     <1>14, <1>15, <1>16, <1>17, <1>18, <1>19, <1>20, <1>21, <1>22, <1>23, <1>24, <1>25,
     <1>26, <1>27, <1>28, <1>29
     DEF Next, AcquireStep, RunStep, ProviderStep, EvictionStep

\* The tables of the pool, and what it knows of each entry, have the shape the code expects.
THEOREM TypeCorrect == Spec => []TypeOK
<1>1. Init => TypeOK
  BY DEF Init, TypeOK, EvictionStates, Off, RunPlaces, CloseStages, Reasons
<1>. QED
  BY <1>1, TypeIsInductive, PTL DEF Spec

(***************************************************************************)
(* The table: what is open is in it, and what it names is open.            *)
(***************************************************************************)

\* A runtime that lives, or is about to, is open only while the pool is.
LEMMA OpenPoolIsOpen ==
  ASSUME TypeOK, TableInv, NEW e \in Entries, IsOpen(e),
         runtime[e] \in {"creating", "alive", "dead"}
  PROVE  pool = "open" /\ key[e] \in Keys /\ entries[key[e]] = e
<1>1. key[e] \in Keys
  BY DEF TypeOK, TableInv, FreshIsUnused
<1>2. entries[key[e]] = e
  BY DEF TableInv, OpenIsInTable
<1>. QED
  BY <1>1, <1>2, NoneAssumption DEF TableInv, TableIsCleared

\* An entry that a run discards is closed for good, whatever took its place.
LEMMA DiscardKeepsTable ==
  ASSUME TypeOK, TableInv, NEW e \in Entries, RemoveAndClose(e, "gone"),
         key[e] # None, IsOpen(e) => runtime[e] \in {"dead", "closed"},
         UNCHANGED <<pool, key, runtime>>
  PROVE  TableInv'
<1>. USE DEF TypeOK, TableInv, RemoveAndClose, CloseEntries, Without, IsOpen
<1>1. TableIsKeyed'
  BY NoneAssumption DEF TableIsKeyed
<1>2. TableIsCleared'
  BY DEF TableIsCleared
<1>3. FreshIsUnused'
  BY DEF FreshIsUnused
<1>4. ClosureHasReason'
  BY DEF ClosureHasReason
<1>5. ClosedIsNotAlive'
  BY DEF ClosedIsNotAlive
<1>6. NothingComesAlive'
  BY DEF NothingComesAlive
<1>7. OpenIsInTable'
  <2>1. SUFFICES ASSUME NEW x \in Entries, runtime'[x] \in {"creating", "alive", "dead"},
                        closing'[x] = "no"
                 PROVE  entries'[key'[x]] = x
    BY DEF OpenIsInTable
  <2>2. x # e /\ IsOpen(x)
    BY <2>1
  <2>. QED
    BY <2>1, <2>2, OpenPoolIsOpen
<1>. QED
  BY <1>1, <1>2, <1>3, <1>4, <1>5, <1>6, <1>7

LEMMA TableIsInductive == TypeOK /\ PoolInv /\ [Next]_vars => TableInv'
<1>. SUFFICES ASSUME TypeOK, PoolInv, [Next]_vars PROVE TableInv'
  OBVIOUS
<1>0. TableInv /\ RunInv
  BY DEF PoolInv
<1>1. ASSUME UNCHANGED <<pool, table, runtime, closure>> PROVE TableInv'
  BY <1>0, <1>1 DEF table, closure, TableInv, TableIsKeyed, TableIsCleared, FreshIsUnused,
                    ClosureHasReason, ClosedIsNotAlive, NothingComesAlive, OpenIsInTable, IsOpen
<1>2. ASSUME NEW r \in Runs, NEW e \in Entries, FindsDead(r, e) PROVE TableInv'
  BY <1>0, <1>2, RunsAssumption, DiscardKeepsTable
     DEF FindsDead, TypeOK, TableInv, FreshIsUnused
<1>3. ASSUME NEW r \in Runs, NEW e \in Entries, Create(r, e) PROVE TableInv'
  <2>. USE <1>0, <1>3, RunsAssumption, NoneAssumption DEF Create, closure, IsOpen, TypeOK, TableInv
  <2>1. runtime[e] = "none" /\ closing[e] = "no" /\ reason[e] = "none"
    BY DEF FreshIsUnused, ClosureHasReason
  <2>2. KeyOf[r] \in Keys /\ pool' = "open"
    OBVIOUS
  <2>3. TableIsKeyed'
    BY <2>1, <2>2 DEF TableIsKeyed
  <2>4. FreshIsUnused'
    BY <2>1, <2>2 DEF FreshIsUnused
  <2>5. ClosureHasReason'
    BY DEF ClosureHasReason
  <2>6. ClosedIsNotAlive'
    BY <2>1 DEF ClosedIsNotAlive
  <2>7. OpenIsInTable'
    BY <2>1, <2>2 DEF OpenIsInTable, FreshIsUnused
  <2>. QED
    BY <2>2, <2>3, <2>4, <2>5, <2>6, <2>7 DEF TableIsCleared, NothingComesAlive
<1>4. ASSUME NEW e \in Entries, Created(e) \/ Dies(e) PROVE TableInv'
  BY <1>0, <1>4
     DEF Created, Dies, table, closure, IsOpen, TypeOK, TableInv, TableIsKeyed, TableIsCleared,
         FreshIsUnused, ClosureHasReason, ClosedIsNotAlive, NothingComesAlive, OpenIsInTable
<1>5. ASSUME NEW e \in Entries, CreationFails(e) PROVE TableInv'
  BY <1>0, <1>5, NoneAssumption
     DEF CreationFails, Without, closure, IsOpen, TypeOK, TableInv, TableIsKeyed, TableIsCleared,
         FreshIsUnused, ClosureHasReason, ClosedIsNotAlive, NothingComesAlive, OpenIsInTable
<1>6. ASSUME NEW r \in Runs, HasLostRuntime(r) PROVE TableInv'
  <2>1. EntryOf(r) \in Entries
    BY <1>0, <1>6 DEF HasLostRuntime, EntryOf, RunInv, RunsHaveEntries, HoldsEntry, OnEntry
  <2>2. IsOpen(EntryOf(r)) => runtime[EntryOf(r)] \in {"dead", "closed"}
    BY <1>0, <1>6, <2>1, OpenPoolIsOpen DEF HasLostRuntime, StillInPlace
  <2>3. key[EntryOf(r)] # None
    BY <1>0, <1>6, <2>1 DEF HasLostRuntime, TableInv, FreshIsUnused
  <2>. QED
    BY <1>0, <1>6, <2>1, <2>2, <2>3, DiscardKeepsTable DEF HasLostRuntime
<1>7. ASSUME NEW r \in Runs, Crashes(r) PROVE TableInv'
  <2>1. EntryOf(r) \in Entries
    BY <1>0, <1>7 DEF Crashes, EntryOf, RunInv, RunsHaveEntries, HoldsEntry, OnEntry
  <2>2. key[EntryOf(r)] # None
    BY <1>0, <1>7, <2>1 DEF Crashes, TableInv, FreshIsUnused
  <2>. QED
    BY <1>0, <1>7, <2>1, <2>2, DiscardKeepsTable DEF Crashes
<1>8. ASSUME NEW e \in Entries, CloserStep(e) \/ RuntimeClosed(e) PROVE TableInv'
  <2>1. UNCHANGED <<pool, table, reason>> /\ ~IsOpen(e) /\ closing'[e] # "no"
        /\ \A x \in Entries \ {e} : runtime'[x] = runtime[x] /\ closing'[x] = closing[x]
    BY <1>8 DEF CloserStep, NothingToClose, CloserHasRuntime, CloserReleased, RuntimeClosed,
                CloserAt, IsOpen, table, TypeOK
  <2>2. \/ runtime'[e] = runtime[e] /\ closing'[e] = "awaitReleases"
        \/ runtime'[e] = "failed" /\ runtime[e] = "failed"
        \/ runtime'[e] = "dead" /\ closing'[e] = "closing"
        \/ runtime'[e] = "closed"
    BY <1>8 DEF CloserStep, NothingToClose, CloserHasRuntime, CloserReleased, RuntimeClosed,
                CloserAt, TypeOK
  <2>. QED
    BY <1>0, <2>1, <2>2 DEF table, IsOpen, TypeOK, TableInv, TableIsKeyed, TableIsCleared,
         FreshIsUnused, ClosureHasReason, ClosedIsNotAlive, NothingComesAlive, OpenIsInTable
<1>9. ASSUME NEW v \in Evictions, EvictOrKeep(v) PROVE TableInv'
  <2>. DEFINE e == eviction[v].entry
  <2>1. CASE ~StillIdle(v, e)
    BY <1>1, <1>9, <2>1 DEF EvictOrKeep, table, closure
  <2>2. CASE StillIdle(v, e)
    <3>1. e \in Entries /\ key[e] # None
      BY <2>2 DEF StillIdle, TypeOK, EvictionStates, PoolInv, ReleaseInv, IdleIsMade
    <3>2. CASE IsOpen(e)
      BY <1>0, <1>9, <2>2, <3>1, <3>2, NoneAssumption
         DEF EvictOrKeep, CloseIdle, Without, IsOpen, TypeOK, TableInv, TableIsKeyed,
             TableIsCleared, FreshIsUnused, ClosureHasReason, ClosedIsNotAlive,
             NothingComesAlive, OpenIsInTable
    <3>3. CASE ~IsOpen(e)
      <4>1. entries' = entries
        BY <1>0, <1>9, <2>2, <3>1, <3>3
           DEF EvictOrKeep, CloseIdle, Without, TypeOK, TableInv, TableIsKeyed
      <4>. QED
        BY <1>1, <1>9, <2>2, <3>3, <4>1 DEF EvictOrKeep, CloseIdle, table, closure
    <3>. QED
      BY <3>2, <3>3
  <2>. QED
    BY <2>1, <2>2
<1>10. CASE Close
  BY <1>0, <1>10, NoneAssumption
     DEF Close, CloseEntries, InTable, IsOpen, TypeOK, TableInv, TableIsKeyed, TableIsCleared,
         FreshIsUnused, ClosureHasReason, ClosedIsNotAlive, NothingComesAlive, OpenIsInTable
<1>11. CASE Closed
  <2>1. ASSUME NEW e \in Entries PROVE runtime[e] \notin {"creating", "alive"}
    <3>1. CASE reason[e] = "none"
      BY <1>0, <1>11, <3>1, OpenPoolIsOpen DEF Closed, TableInv, ClosureHasReason
    <3>2. CASE reason[e] = "shutdown"
      BY <1>0, <1>11, <3>2 DEF Closed, TableInv, ClosedIsNotAlive
    <3>3. CASE reason[e] \in {"idle", "gone"}
      BY <1>0, <3>3 DEF TableInv, ClosedIsNotAlive
    <3>. QED
      BY <3>1, <3>2, <3>3 DEF TypeOK, Reasons
  <2>. QED
    BY <1>0, <1>11, <2>1
       DEF Closed, table, closure, IsOpen, TableInv, TableIsKeyed, TableIsCleared, FreshIsUnused,
           ClosureHasReason, ClosedIsNotAlive, NothingComesAlive, OpenIsInTable
<1>12. ASSUME NEW r \in Runs,
              \/ Begin(r) \/ PoolIsClosed(r) \/ HasFailed(r) \/ HasRuntime(r) \/ CloseAwaited(r)
              \/ \E e \in Entries : Reuse(r, e) \/ Join(r, e)
              \/ ReserveFails(r) \/ CleanedUp(r) \/ ProviderStep(r)
       PROVE  UNCHANGED <<pool, table, runtime, closure>>
  BY <1>12 DEF Begin, PoolIsClosed, HasFailed, HasRuntime, CloseAwaited, Reuse, Join, ReserveFails,
               CleanedUp, ProviderStep, ReserveSession, ReportFails, Succeeds, Fails
<1>13. ASSUME NEW v \in Evictions,
              \/ EvictIdle(v) \/ Evicted(v) \/ EvictionEnds(v)
              \/ \E e \in Entries : ReleaseIdleSessions(v, e)
       PROVE  UNCHANGED <<pool, table, runtime, closure>>
  BY <1>13 DEF EvictIdle, Evicted, EvictionEnds, ReleaseIdleSessions
<1>14. ASSUME NEW e \in Entries, NEW s \in Sessions, ReleaseEnds(e, s)
       PROVE  UNCHANGED <<pool, table, runtime, closure>>
  BY <1>14 DEF ReleaseEnds
<1>15. CASE UNCHANGED vars
  BY <1>1, <1>15 DEF vars
<1>. QED
  BY <1>1, <1>2, <1>3, <1>4, <1>5, <1>6, <1>7, <1>8, <1>9, <1>10, <1>11, <1>12, <1>13, <1>14, <1>15
     DEF Next, AcquireStep, RunStep, ProviderStep, EvictionStep

(***************************************************************************)
(* The runs: each is counted on the entry it is on, and no entry is        *)
(* evicted under one.                                                      *)
(***************************************************************************)

\* An entry that a run may join is open, so that no eviction has decided against it.
LEMMA JoinedIsOpen ==
  ASSUME TypeOK, TableInv, NEW k \in Keys, NEW e \in Entries, entries[k] = e
  PROVE  IsOpen(e) /\ reason[e] = "none"
BY DEF TableInv, TableIsKeyed, ClosureHasReason

LEMMA EntersKeepsRuns ==
  ASSUME TypeOK, RunInv, NEW r \in Runs, NEW e \in Entries, Enters(r, e),
         run[r].at \in {"acquire", "create", "join"}, runtime[e] = "alive", reason[e] = "none",
         UNCHANGED <<runtime, reason, reserved>>
  PROVE  RunInv'
<1>. USE DEF TypeOK, RunInv, Enters
<1>1. RunsHaveEntries'
  BY DEF RunsHaveEntries, HoldsEntry, OnEntry
<1>2. RunsAreCounted'
  BY DEF RunsAreCounted, OnEntry
<1>3. EvictionSparesRuns'
  BY DEF EvictionSparesRuns
<1>. QED
  BY <1>1, <1>2, <1>3

LEMMA LeavesKeepsRuns ==
  ASSUME TypeOK, RunInv, NEW r \in Runs, NEW how \in {"done", "failed"}, Leaves(r, how),
         UNCHANGED <<runtime, reason>>
  PROVE  RunInv'
<1>. USE DEF TypeOK, RunInv, Leaves, EntryOf
<1>1. RunsHaveEntries'
  BY DEF RunsHaveEntries, HoldsEntry, OnEntry
<1>2. \A e \in Entries : activeRuns'[e] \subseteq activeRuns[e] /\ r \notin activeRuns'[e]
  BY DEF RunsAreCounted
<1>3. RunsAreCounted'
  BY <1>2 DEF RunsAreCounted, OnEntry
<1>4. EvictionSparesRuns'
  BY <1>2 DEF EvictionSparesRuns
<1>. QED
  BY <1>1, <1>3, <1>4

\* A run that discards its entry, or waits for that, stays where it was counted.
LEMMA MovingKeepsRuns ==
  ASSUME TypeOK, RunInv, NEW r \in Runs, NEW where, Goes(r, where),
         run[r].at \in HoldsEntry, run[r].at \in OnEntry <=> where \in OnEntry,
         UNCHANGED <<activeRuns, reserved, runtime>>,
         \A e \in Entries : reason'[e] = "idle" => reason[e] = "idle"
  PROVE  RunInv'
BY DEF TypeOK, RunInv, Goes, RunsHaveEntries, RunsAreCounted, EvictionSparesRuns, HoldsEntry, OnEntry

\* A run that is on no entry can be anywhere it holds none, or begins to wait for one.
LEMMA WaitingKeepsRuns ==
  ASSUME TypeOK, RunInv, NEW r \in Runs, NEW where, NEW e,
         run' = [run EXCEPT ![r] = [at |-> where, entry |-> e]],
         run[r].at \notin OnEntry, where \notin OnEntry, where \in HoldsEntry => e \in Entries,
         UNCHANGED <<activeRuns, reserved, runtime>>,
         \A x \in Entries : reason'[x] = "idle" => reason[x] = "idle"
  PROVE  RunInv'
<1>. USE DEF TypeOK, RunInv
<1>1. RunsHaveEntries'
  BY DEF RunsHaveEntries
<1>2. r \notin reserved /\ \A x \in Entries : r \notin activeRuns[x]
  BY DEF RunsAreCounted
<1>3. RunsAreCounted'
  BY <1>2 DEF RunsAreCounted
<1>4. EvictionSparesRuns'
  BY DEF EvictionSparesRuns
<1>. QED
  BY <1>1, <1>3, <1>4

LEMMA RunsAreInductive == TypeOK /\ PoolInv /\ [Next]_vars => RunInv'
<1>. SUFFICES ASSUME TypeOK, PoolInv, [Next]_vars PROVE RunInv'
  OBVIOUS
<1>0. TableInv /\ RunInv
  BY DEF PoolInv
<1>1. ASSUME UNCHANGED <<run, activeRuns, reserved, runtime, reason>> PROVE RunInv'
  BY <1>0, <1>1 DEF RunInv, RunsHaveEntries, RunsAreCounted, EvictionSparesRuns
<1>2. ASSUME NEW r \in Runs, Begin(r) \/ PoolIsClosed(r) PROVE RunInv'
  <2>1. UNCHANGED <<activeRuns, reserved, runtime, reason>> /\ run[r].at \notin OnEntry
    BY <1>2 DEF Begin, PoolIsClosed, usage, closure, OnEntry
  <2>2. PICK where \in {"acquire", "failed"} : run' = [run EXCEPT ![r].at = where]
    BY <1>2 DEF Begin, PoolIsClosed, Goes
  <2>3. /\ run'[r].at = where
        /\ \A q \in Runs : q # r => run'[q] = run[q]
    BY <2>2 DEF TypeOK
  <2>. QED
    BY <1>0, <2>1, <2>2, <2>3
       DEF RunInv, RunsHaveEntries, RunsAreCounted, EvictionSparesRuns, HoldsEntry, OnEntry, TypeOK
<1>3. ASSUME NEW r \in Runs, NEW e \in Entries, Join(r, e) PROVE RunInv'
  <2>1. run' = [run EXCEPT ![r] = [at |-> "join", entry |-> e]]
    BY <1>3 DEF Join
  <2>2. run[r].at \notin OnEntry /\ "join" \notin OnEntry
    BY <1>3 DEF Join, OnEntry
  <2>3. UNCHANGED <<activeRuns, reserved, runtime, reason>>
    BY <1>3 DEF Join, usage, closure
  <2>. QED
    BY <1>0, <2>1, <2>2, <2>3, WaitingKeepsRuns
<1>4. ASSUME NEW r \in Runs, NEW e \in Entries, FindsDead(r, e) PROVE RunInv'
  <2>1. \A x \in Entries : reason'[x] = "idle" => reason[x] = "idle"
    BY <1>4 DEF FindsDead, RemoveAndClose, CloseEntries
  <2>2. run' = [run EXCEPT ![r] = [at |-> "retry", entry |-> e]]
    BY <1>4 DEF FindsDead
  <2>3. run[r].at \notin OnEntry /\ "retry" \notin OnEntry
    BY <1>4 DEF FindsDead, OnEntry
  <2>4. UNCHANGED <<activeRuns, reserved, runtime>>
    BY <1>4 DEF FindsDead, usage
  <2>. QED
    BY <1>0, <2>1, <2>2, <2>3, <2>4, WaitingKeepsRuns
<1>5. ASSUME NEW r \in Runs, HasFailed(r) \/ CloseAwaited(r) PROVE RunInv'
  <2>1. PICK where \in {"acquire", "failed"} : run' = [run EXCEPT ![r] = [at |-> where, entry |-> None]]
    BY <1>5 DEF HasFailed, CloseAwaited
  <2>2. run[r].at \in {"create", "join", "retry", "giveUp"}
    BY <1>5 DEF HasFailed, CloseAwaited
  <2>. QED
    BY <1>0, <1>5, <2>1, <2>2, WaitingKeepsRuns
       DEF HasFailed, CloseAwaited, usage, closure, OnEntry, HoldsEntry
<1>6. ASSUME NEW r \in Runs, NEW e \in Entries, Reuse(r, e) PROVE RunInv'
  BY <1>0, <1>6, EntersKeepsRuns, JoinedIsOpen, RunsAssumption DEF Reuse, closure
<1>7. ASSUME NEW r \in Runs, HasRuntime(r) PROVE RunInv'
  <2>1. EntryOf(r) \in Entries
    BY <1>0, <1>7 DEF HasRuntime, EntryOf, RunInv, RunsHaveEntries, HoldsEntry
  <2>2. reason[EntryOf(r)] = "none"
    BY <1>0, <1>7, <2>1 DEF HasRuntime, StillInPlace, TableInv, ClosureHasReason
  <2>. QED
    BY <1>0, <1>7, <2>1, <2>2, EntersKeepsRuns DEF HasRuntime, closure
<1>8. ASSUME NEW r \in Runs, HasLostRuntime(r) PROVE RunInv'
  BY <1>0, <1>8, MovingKeepsRuns
     DEF HasLostRuntime, RemoveAndClose, CloseEntries, usage, OnEntry, HoldsEntry
<1>9. ASSUME NEW r \in Runs, Crashes(r) PROVE RunInv'
  BY <1>0, <1>9, MovingKeepsRuns
     DEF Crashes, RemoveAndClose, CloseEntries, usage, OnEntry, HoldsEntry
<1>10. ASSUME NEW r \in Runs, ReportFails(r) PROVE RunInv'
  BY <1>0, <1>10, MovingKeepsRuns DEF ReportFails, usage, closure, OnEntry, HoldsEntry
<1>11. ASSUME NEW r \in Runs, ReserveSession(r) PROVE RunInv'
  BY <1>0, <1>11
     DEF ReserveSession, Reserves, Goes, closure, TypeOK, RunInv, RunsHaveEntries, RunsAreCounted,
         EvictionSparesRuns, HoldsEntry, OnEntry
<1>12. ASSUME NEW r \in Runs, ReserveFails(r) \/ Succeeds(r) \/ Fails(r) \/ CleanedUp(r)
       PROVE  RunInv'
  BY <1>0, <1>12, LeavesKeepsRuns DEF ReserveFails, Succeeds, Fails, CleanedUp, closure
<1>13. ASSUME NEW r \in Runs, NEW e \in Entries, Create(r, e) PROVE RunInv'
  <2>1. activeRuns[e] = {}
    BY <1>0, <1>13 DEF Create, TableInv, FreshIsUnused, RunInv, RunsAreCounted
  <2>. QED
    BY <1>0, <1>13, <2>1
       DEF Create, usage, closure, TypeOK, RunInv, RunsHaveEntries, RunsAreCounted,
           EvictionSparesRuns, HoldsEntry, OnEntry
<1>14. ASSUME NEW e \in Entries, Created(e) \/ CreationFails(e) \/ Dies(e) PROVE RunInv'
  BY <1>0, <1>14
     DEF Created, CreationFails, Dies, usage, closure, TypeOK, RunInv, RunsHaveEntries,
         RunsAreCounted, EvictionSparesRuns
<1>15. ASSUME NEW e \in Entries, CloserStep(e) \/ RuntimeClosed(e) PROVE RunInv'
  <2>1. UNCHANGED <<run, activeRuns, reserved, reason>>
    BY <1>15 DEF CloserStep, NothingToClose, CloserHasRuntime, CloserReleased, RuntimeClosed, usage
  <2>2. \A x \in Entries : runtime'[x] \in {runtime[x], "dead", "closed"}
    BY <1>15 DEF CloserStep, NothingToClose, CloserHasRuntime, CloserReleased, RuntimeClosed, TypeOK
  <2>. QED
    BY <1>0, <2>1, <2>2 DEF RunInv, RunsHaveEntries, RunsAreCounted, EvictionSparesRuns
<1>16. ASSUME NEW v \in Evictions, EvictOrKeep(v) PROVE RunInv'
  <2>. DEFINE e == eviction[v].entry
  <2>1. CASE ~StillIdle(v, e)
    BY <1>1, <1>16, <2>1 DEF EvictOrKeep, closure
  <2>2. CASE StillIdle(v, e)
    BY <1>0, <1>16, <2>2
       DEF EvictOrKeep, CloseIdle, StillIdle, closure, TypeOK, RunInv, RunsHaveEntries,
           RunsAreCounted, EvictionSparesRuns
  <2>. QED
    BY <2>1, <2>2
<1>17. CASE Close
  BY <1>0, <1>17
     DEF Close, CloseEntries, usage, RunInv, RunsHaveEntries, RunsAreCounted, EvictionSparesRuns
<1>18. ASSUME NEW e \in Entries, NEW s \in Sessions, ReleaseEnds(e, s) PROVE RunInv'
  BY <1>1, <1>18 DEF ReleaseEnds, closure
<1>19. ASSUME NEW v \in Evictions,
              \/ EvictIdle(v) \/ Evicted(v) \/ EvictionEnds(v)
              \/ \E e \in Entries : ReleaseIdleSessions(v, e)
       PROVE  RunInv'
  BY <1>1, <1>19 DEF EvictIdle, Evicted, EvictionEnds, ReleaseIdleSessions, usage, closure
<1>20. CASE Closed \/ UNCHANGED vars
  BY <1>1, <1>20 DEF Closed, vars, usage, closure
<1>. QED
  BY <1>2, <1>3, <1>4, <1>5, <1>6, <1>7, <1>8, <1>9, <1>10, <1>11, <1>12, <1>13, <1>14, <1>15,
     <1>16, <1>17, <1>18, <1>19, <1>20
     DEF Next, AcquireStep, RunStep, ProviderStep, EvictionStep

(***************************************************************************)
(* The releases: none under a turn, and none under a close.                *)
(***************************************************************************)

\* What an eviction still holds for idle was not used since: use takes it out.
LEMMA TouchForgets ==
  ASSUME TypeOK, NEW es, NEW ss, Touch(es, ss), NEW v \in Evictions
  PROVE  /\ eviction'[v].idle = eviction[v].idle \ es
         /\ eviction'[v].awaits = eviction[v].awaits /\ eviction'[v].at = eviction[v].at
         /\ eviction'[v].entry = eviction[v].entry /\ eviction'[v].todo = eviction[v].todo
         /\ eviction'[v].closes = eviction[v].closes
BY DEF TypeOK, EvictionStates, Touch

\* Where the evictions stand, what they wait for and what they found idle matter only here.
LEMMA EvictionsKeep ==
  ASSUME ReleaseInv,
         \A v \in Evictions : /\ eviction'[v].idle \subseteq eviction[v].idle
                              /\ eviction'[v].awaits = eviction[v].awaits
                              /\ eviction'[v].at = eviction[v].at
                              /\ eviction'[v].entry = eviction[v].entry
                              /\ eviction'[v].todo = eviction[v].todo
                              /\ eviction'[v].closes = eviction[v].closes,
         \A e \in Entries : key[e] # None => key'[e] # None,
         \A e \in Entries : reason'[e] # "gone" => reason[e] # "gone" /\ releasing'[e] \subseteq releasing[e]
  PROVE  EvictionsWaitAtOne' /\ IdleIsMade' /\ ReleasesAreAwaited'
<1>. USE DEF ReleaseInv
<1>1. EvictionsWaitAtOne'
  BY DEF EvictionsWaitAtOne
<1>2. IdleIsMade'
  BY DEF IdleIsMade
<1>3. ReleasesAreAwaited'
  BY DEF ReleasesAreAwaited
<1>. QED
  BY <1>1, <1>2, <1>3

\* A run that leaves takes nothing from the others on its entry.
LEMMA LeavesKeepsReleases ==
  ASSUME TypeOK, ReleaseInv, NEW r \in Runs, NEW how, Leaves(r, how),
         UNCHANGED <<key, runtime, closing, reason, releasing>>
  PROVE  ReleaseInv'
<1>. USE DEF TypeOK, ReleaseInv
<1>1. \A e \in Entries : activeRuns'[e] \subseteq activeRuns[e]
  BY DEF Leaves
<1>2. reserved' \subseteq reserved
  BY DEF Leaves
<1>3. EvictionsWaitAtOne' /\ IdleIsMade' /\ ReleasesAreAwaited'
  <2>1. \A v \in Evictions : /\ eviction'[v].idle \subseteq eviction[v].idle
                             /\ eviction'[v].awaits = eviction[v].awaits
                             /\ eviction'[v].at = eviction[v].at
                             /\ eviction'[v].entry = eviction[v].entry
                             /\ eviction'[v].todo = eviction[v].todo
                             /\ eviction'[v].closes = eviction[v].closes
    BY TouchForgets DEF Leaves
  <2>. QED
    BY <2>1, EvictionsKeep
<1>4. ReleaseSparesTurns'
  BY <1>1, <1>2 DEF ReleaseSparesTurns, Users
<1>5. ClosingIsReleased'
  BY DEF ClosingIsReleased
<1>. QED
  BY <1>3, <1>4, <1>5

LEMMA ReleasesAreInductive == TypeOK /\ PoolInv /\ [Next]_vars => ReleaseInv'
<1>. SUFFICES ASSUME TypeOK, PoolInv, [Next]_vars PROVE ReleaseInv'
  OBVIOUS
<1>0. TableInv /\ RunInv /\ ReleaseInv
  BY DEF PoolInv
<1>1. ASSUME UNCHANGED <<key, runtime, closing, reason, activeRuns, releasing, reserved, eviction>>
      PROVE  ReleaseInv'
  BY <1>0, <1>1
     DEF ReleaseInv, EvictionsWaitAtOne, IdleIsMade, ReleaseSparesTurns, ReleasesAreAwaited,
         ClosingIsReleased, Users
\* Discarding or shutting down an entry only moves it to the first stage of its close.
<1>2. ASSUME NEW es \in SUBSET Entries, NEW why, CloseEntries(es, why),
             UNCHANGED <<key, runtime, usage, eviction>>
      PROVE  ReleaseInv'
  <2>1. \A e \in Entries : /\ reason'[e] # "gone" => reason[e] # "gone"
                           /\ closing'[e] = "closing" => closing[e] = "closing" /\ reason'[e] = reason[e]
    BY <1>0, <1>2 DEF CloseEntries, IsOpen, TableInv, ClosureHasReason
  <2>2. EvictionsWaitAtOne' /\ IdleIsMade' /\ ReleasesAreAwaited'
    BY <1>0, <1>2, <2>1, EvictionsKeep DEF usage
  <2>3. ReleaseSparesTurns' /\ ClosingIsReleased'
    BY <1>0, <1>2, <2>1 DEF usage, ReleaseInv, ReleaseSparesTurns, ClosingIsReleased, Users
  <2>. QED
    BY <2>2, <2>3 DEF ReleaseInv
<1>3. ASSUME NEW r \in Runs, NEW e \in Entries, Enters(r, e),
             r \notin reserved,
             UNCHANGED <<key, runtime, closing, reason, sessions, releasing, reserved, eviction>>
      PROVE  ReleaseInv'
  BY <1>0, <1>3
     DEF Enters, TypeOK, ReleaseInv, EvictionsWaitAtOne, IdleIsMade, ReleaseSparesTurns,
         ReleasesAreAwaited, ClosingIsReleased, Users
<1>4. ASSUME NEW r \in Runs, NEW e \in Entries, Reuse(r, e) PROVE ReleaseInv'
  BY <1>0, <1>3, <1>4 DEF Reuse, table, closure, RunInv, RunsAreCounted, OnEntry
<1>5. ASSUME NEW r \in Runs, HasRuntime(r) PROVE ReleaseInv'
  <2>1. EntryOf(r) \in Entries
    BY <1>0, <1>5 DEF HasRuntime, EntryOf, RunInv, RunsHaveEntries, HoldsEntry
  <2>. QED
    BY <1>0, <1>3, <1>5, <2>1 DEF HasRuntime, table, closure, RunInv, RunsAreCounted, OnEntry
<1>6. ASSUME NEW r \in Runs, NEW e \in Entries, FindsDead(r, e) PROVE ReleaseInv'
  BY <1>2, <1>6 DEF FindsDead, RemoveAndClose
<1>7. ASSUME NEW r \in Runs, HasLostRuntime(r) \/ Crashes(r) PROVE ReleaseInv'
  <2>1. EntryOf(r) \in Entries
    BY <1>0, <1>7 DEF HasLostRuntime, Crashes, EntryOf, RunInv, RunsHaveEntries, HoldsEntry, OnEntry
  <2>. QED
    BY <1>2, <1>7, <2>1 DEF HasLostRuntime, Crashes, RemoveAndClose
<1>8. CASE Close
  BY <1>2, <1>8 DEF Close, InTable
<1>9. ASSUME NEW r \in Runs, NEW e \in Entries, Create(r, e) PROVE ReleaseInv'
  <2>1. /\ UNCHANGED <<closing, reason, activeRuns, releasing, reserved, eviction>>
        /\ \A x \in Entries : /\ runtime'[x] = "alive" => runtime[x] = "alive"
                              /\ key[x] # None => key'[x] # None
    BY <1>9, NoneAssumption, RunsAssumption DEF Create, usage, closure, TypeOK
  <2>2. EvictionsWaitAtOne' /\ IdleIsMade' /\ ReleasesAreAwaited'
    BY <1>0, <2>1, EvictionsKeep
  <2>. QED
    BY <1>0, <2>1, <2>2 DEF ReleaseInv, ReleaseSparesTurns, ClosingIsReleased, Users
<1>10. ASSUME NEW e \in Entries, Created(e) PROVE ReleaseInv'
  <2>1. activeRuns[e] = {}
    BY <1>0, <1>10 DEF Created, RunInv, RunsAreCounted
  <2>2. UNCHANGED <<key, closing, reason, activeRuns, releasing, reserved, eviction>>
        /\ \A x \in Entries \ {e} : runtime'[x] = runtime[x]
    BY <1>10 DEF Created, table, usage, closure, TypeOK
  <2>3. EvictionsWaitAtOne' /\ IdleIsMade' /\ ReleasesAreAwaited'
    BY <1>0, <2>2, EvictionsKeep
  <2>. QED
    BY <1>0, <2>1, <2>2, <2>3 DEF ReleaseInv, ReleaseSparesTurns, ClosingIsReleased, Users
<1>11. ASSUME NEW e \in Entries, CreationFails(e) \/ Dies(e) PROVE ReleaseInv'
  <2>1. /\ UNCHANGED <<key, closing, reason, activeRuns, releasing, reserved, eviction>>
        /\ \A x \in Entries : runtime'[x] = "alive" => runtime[x] = "alive"
    BY <1>11 DEF CreationFails, Dies, table, usage, closure, TypeOK
  <2>2. EvictionsWaitAtOne' /\ IdleIsMade' /\ ReleasesAreAwaited'
    BY <1>0, <2>1, EvictionsKeep
  <2>. QED
    BY <1>0, <2>1, <2>2 DEF ReleaseInv, ReleaseSparesTurns, ClosingIsReleased, Users
<1>12. ASSUME NEW r \in Runs, ReserveSession(r) PROVE ReleaseInv'
  <2>. DEFINE e == EntryOf(r)
  <2>. USE <1>0, <1>12 DEF ReserveSession, Reserves, Goes, table, closure
  <2>1. SessionOf[r] \notin releasing[e]
    BY DEF MayReserve
  <2>2. ReleaseSparesTurns'
    BY <2>1 DEF ReleaseInv, ReleaseSparesTurns, Users, RunInv, RunsAreCounted, EntryOf
  <2>3. \A v \in Evictions : /\ eviction'[v].idle \subseteq eviction[v].idle
                             /\ eviction'[v].awaits = eviction[v].awaits
                             /\ eviction'[v].at = eviction[v].at
                             /\ eviction'[v].entry = eviction[v].entry
                             /\ eviction'[v].todo = eviction[v].todo
                             /\ eviction'[v].closes = eviction[v].closes
    BY TouchForgets
  <2>4. EvictionsWaitAtOne' /\ IdleIsMade' /\ ReleasesAreAwaited'
    BY <2>3, EvictionsKeep
  <2>5. ClosingIsReleased'
    BY DEF ReleaseInv, ClosingIsReleased
  <2>. QED
    BY <2>2, <2>4, <2>5 DEF ReleaseInv
<1>13. ASSUME NEW r \in Runs, ReserveFails(r) \/ Succeeds(r) \/ Fails(r) \/ CleanedUp(r)
       PROVE  ReleaseInv'
  BY <1>0, <1>13, LeavesKeepsReleases
     DEF ReserveFails, Succeeds, Fails, CleanedUp, table, closure
<1>14. ASSUME NEW e \in Entries, NothingToClose(e) \/ CloserReleased(e) \/ RuntimeClosed(e)
       PROVE  ReleaseInv'
  <2>1. UNCHANGED <<key, reason, activeRuns, releasing, reserved, eviction>>
    BY <1>14 DEF NothingToClose, CloserReleased, RuntimeClosed, CloserAt, table, usage
  <2>2. \A x \in Entries : x # e => closing'[x] = closing[x] /\ runtime'[x] = runtime[x]
    BY <1>14 DEF NothingToClose, CloserReleased, RuntimeClosed, CloserAt, usage, TypeOK
  <2>3. /\ closing'[e] = "closing" => releasing[e] = {}
        /\ runtime'[e] = "alive" => runtime[e] = "alive"
    BY <1>14 DEF NothingToClose, CloserReleased, RuntimeClosed, CloserAt, Released, TypeOK
  <2>4. EvictionsWaitAtOne' /\ IdleIsMade' /\ ReleasesAreAwaited'
    BY <1>0, <2>1, EvictionsKeep
  <2>. QED
    BY <1>0, <2>1, <2>2, <2>3, <2>4 DEF ReleaseInv, ReleaseSparesTurns, ClosingIsReleased, Users
<1>15. ASSUME NEW e \in Entries, CloserHasRuntime(e) PROVE ReleaseInv'
  <2>1. closing' = [closing EXCEPT ![e] = "awaitReleases"]
        /\ UNCHANGED <<key, runtime, reason, activeRuns, reserved, eviction>>
    BY <1>15 DEF CloserHasRuntime, CloserAt, table
  <2>2. \A x \in Entries : /\ x # e \/ runtime[e] = "alive" => releasing'[x] = releasing[x]
                           /\ reason[x] # "gone" => releasing'[x] = releasing[x]
    BY <1>0, <1>15 DEF CloserHasRuntime, TypeOK, TableInv, ClosedIsNotAlive
  <2>3. EvictionsWaitAtOne' /\ IdleIsMade' /\ ReleasesAreAwaited'
    BY <1>0, <2>1, <2>2, EvictionsKeep
  <2>. QED
    BY <1>0, <2>1, <2>2, <2>3
       DEF TypeOK, ReleaseInv, ReleaseSparesTurns, ClosingIsReleased, Users
<1>16. ASSUME NEW e \in Entries, NEW s \in Sessions, ReleaseEnds(e, s) PROVE ReleaseInv'
  <2>1. /\ \A x \in Entries : releasing'[x] \subseteq releasing[x]
        /\ s \notin releasing'[e]
        /\ UNCHANGED <<key, runtime, closing, reason, activeRuns, reserved>>
    BY <1>16 DEF ReleaseEnds, table, closure, TypeOK
  <2>2. \A v \in Evictions : /\ eviction'[v].idle = eviction[v].idle
                             /\ eviction'[v].awaits = eviction[v].awaits \ {<<e, s>>}
                             /\ eviction'[v].at = eviction[v].at
                             /\ eviction'[v].entry = eviction[v].entry
                             /\ eviction'[v].todo = eviction[v].todo
                             /\ eviction'[v].closes = eviction[v].closes
    BY <1>16 DEF ReleaseEnds, TypeOK, EvictionStates
  <2>3. EvictionsWaitAtOne' /\ IdleIsMade'
    BY <1>0, <2>1, <2>2 DEF ReleaseInv, EvictionsWaitAtOne, IdleIsMade
  <2>4. ReleasesAreAwaited'
    BY <1>0, <2>1, <2>2 DEF ReleaseInv, ReleasesAreAwaited
  <2>. QED
    BY <1>0, <2>1, <2>3, <2>4 DEF ReleaseInv, ReleaseSparesTurns, ClosingIsReleased, Users
<1>17. ASSUME NEW v \in Evictions, EvictIdle(v) PROVE ReleaseInv'
  <2>1. PICK idle \in SUBSET {e \in InTable : activeRuns[e] = {}},
             unused \in SUBSET (InTable \X Sessions) :
           eviction' = [eviction EXCEPT ![v] =
                  [at |-> "next", entry |-> None, todo |-> InTable, closes |-> {},
                   idle |-> idle, unused |-> unused, awaits |-> {}]]
    BY <1>17 DEF EvictIdle
  <2>2. \A e \in idle : key[e] # None
    BY <1>0, NoneAssumption DEF InTable, TableInv, TableIsKeyed
  <2>3. IdleIsMade'
    BY <1>0, <1>17, <2>1, <2>2 DEF EvictIdle, table, TypeOK, ReleaseInv, IdleIsMade
  <2>4. EvictionsWaitAtOne'
    BY <1>0, <2>1 DEF TypeOK, ReleaseInv, EvictionsWaitAtOne
  <2>5. eviction[v].awaits = {}
    BY <1>0, <1>17 DEF EvictIdle, TypeOK, EvictionStates, ReleaseInv, EvictionsWaitAtOne
  <2>6. ReleasesAreAwaited'
    BY <1>0, <1>17, <2>1, <2>5 DEF EvictIdle, closure, usage, TypeOK, ReleaseInv, ReleasesAreAwaited
  <2>. QED
    BY <1>0, <1>17, <2>3, <2>4, <2>6
       DEF EvictIdle, closure, usage, ReleaseInv, ReleaseSparesTurns, ClosingIsReleased, Users
<1>18. ASSUME NEW v \in Evictions, NEW e \in Entries, ReleaseIdleSessions(v, e) PROVE ReleaseInv'
  <2>1. IsOpen(e)
    BY <1>0, <1>18 DEF ReleaseIdleSessions, InTable, TableInv, TableIsKeyed
  <2>2. /\ \A w \in Evictions \ {v} : eviction'[w] = eviction[w]
        /\ eviction'[v].at = "release" /\ eviction'[v].entry = e
        /\ eviction'[v].todo = eviction[v].todo \ {e}
        /\ eviction'[v].awaits = {e} \X IdleSessions(v, e)
        /\ eviction'[v].idle = eviction[v].idle /\ eviction'[v].closes = eviction[v].closes
    BY <1>18 DEF ReleaseIdleSessions, TypeOK, EvictionStates
  <2>3. eviction[v].at = "next" /\ e \in eviction[v].todo
        /\ UNCHANGED <<key, runtime, closing, reason, activeRuns, reserved>>
    BY <1>18 DEF ReleaseIdleSessions, table, closure
  <2>4. eviction[v].awaits = {}
    BY <1>0, <2>3 DEF TypeOK, EvictionStates, ReleaseInv, EvictionsWaitAtOne
  <2>5. EvictionsWaitAtOne'
    BY <1>0, <2>2, <2>3 DEF ReleaseInv, EvictionsWaitAtOne
  <2>6. IdleIsMade'
    BY <1>0, <2>2, <2>3 DEF ReleaseInv, IdleIsMade
  <2>7. releasing' = [releasing EXCEPT ![e] = @ \union IdleSessions(v, e)]
    BY <1>18 DEF ReleaseIdleSessions
  <2>8. ReleasesAreAwaited'
    BY <1>0, <2>2, <2>3, <2>4, <2>7 DEF TypeOK, ReleaseInv, ReleasesAreAwaited
  <2>9. ReleaseSparesTurns'
    BY <1>0, <2>3, <2>7 DEF IdleSessions, TypeOK, ReleaseInv, ReleaseSparesTurns, Users
  <2>10. ClosingIsReleased'
    BY <1>0, <2>1, <2>3, <2>7 DEF IsOpen, TypeOK, ReleaseInv, ClosingIsReleased
  <2>. QED
    BY <2>5, <2>6, <2>8, <2>9, <2>10 DEF ReleaseInv
<1>19. ASSUME NEW v \in Evictions, EvictOrKeep(v) PROVE ReleaseInv'
  <2>. DEFINE e == eviction[v].entry
  <2>1. /\ \A w \in Evictions \ {v} : eviction'[w] = eviction[w]
        /\ eviction'[v].at = "next" /\ eviction'[v].closes \subseteq eviction[v].closes \union {e}
        /\ eviction'[v].todo = eviction[v].todo /\ eviction'[v].idle = eviction[v].idle
        /\ eviction'[v].awaits = {} /\ eviction[v].awaits = {} /\ eviction[v].at = "release"
    <3>1. eviction[v] \in EvictionStates
      BY DEF TypeOK
    <3>2. CASE StillIdle(v, e)
      <4>1. eviction' = [eviction EXCEPT ![v] = [eviction[v] EXCEPT !.at = "next", !.closes = @ \union {e}]]
        BY <1>19, <3>2 DEF EvictOrKeep
      <4>. QED
        BY <1>19, <3>1, <4>1 DEF EvictOrKeep, TypeOK, EvictionStates
    <3>3. CASE ~StillIdle(v, e)
      <4>1. eviction' = [eviction EXCEPT ![v] = [eviction[v] EXCEPT !.at = "next"]]
        BY <1>19, <3>3 DEF EvictOrKeep
      <4>. QED
        BY <1>19, <3>1, <4>1 DEF EvictOrKeep, TypeOK, EvictionStates
    <3>. QED
      BY <3>2, <3>3
  <2>2. UNCHANGED <<key, activeRuns, releasing, reserved>>
        /\ \A x \in Entries : /\ runtime'[x] = "alive" => runtime[x] = "alive"
                              /\ \/ closing'[x] = closing[x] /\ reason'[x] = reason[x]
                                 \/ closing'[x] = "closing" /\ reason[x] = "none" /\ reason'[x] = "idle"
    BY <1>0, <1>19 DEF EvictOrKeep, CloseIdle, closure, IsOpen, TypeOK, TableInv, ClosureHasReason
  <2>3. EvictionsWaitAtOne'
    BY <1>0, <2>1 DEF ReleaseInv, EvictionsWaitAtOne
  <2>4. IdleIsMade'
    BY <1>0, <2>1, <2>2 DEF ReleaseInv, IdleIsMade
  <2>5. ReleasesAreAwaited'
    BY <1>0, <2>1, <2>2 DEF ReleaseInv, ReleasesAreAwaited
  <2>6. ReleaseSparesTurns' /\ ClosingIsReleased'
    BY <1>0, <2>2 DEF ReleaseInv, ReleaseSparesTurns, ClosingIsReleased, Users
  <2>. QED
    BY <2>3, <2>4, <2>5, <2>6 DEF ReleaseInv
<1>20. ASSUME NEW v \in Evictions, Evicted(v) \/ EvictionEnds(v) PROVE ReleaseInv'
  <2>1. /\ \A w \in Evictions \ {v} : eviction'[w] = eviction[w]
        /\ eviction'[v].at \in {"wait", "off"} /\ eviction[v].at \in {"next", "wait"}
        /\ eviction'[v].awaits \subseteq eviction[v].awaits
        /\ eviction'[v].idle \subseteq eviction[v].idle
        /\ eviction'[v].closes \subseteq eviction[v].closes
        /\ eviction'[v].todo \subseteq eviction[v].todo
    BY <1>20, SMTT(30) DEF Evicted, EvictionEnds, Off, TypeOK, EvictionStates
  <2>2. eviction[v].awaits = {}
    BY <1>0, <2>1 DEF TypeOK, EvictionStates, ReleaseInv, EvictionsWaitAtOne
  <2>3. UNCHANGED <<key, runtime, closing, reason, activeRuns, releasing, reserved>>
    BY <1>20 DEF Evicted, EvictionEnds, table, closure, usage
  <2>4. EvictionsWaitAtOne'
    BY <1>0, <2>1, <2>2 DEF ReleaseInv, EvictionsWaitAtOne
  <2>5. IdleIsMade' /\ ReleasesAreAwaited'
    BY <1>0, <2>1, <2>2, <2>3 DEF ReleaseInv, IdleIsMade, ReleasesAreAwaited
  <2>. QED
    BY <1>0, <2>3, <2>4, <2>5 DEF ReleaseInv, ReleaseSparesTurns, ClosingIsReleased, Users
<1>21. ASSUME NEW r \in Runs,
              \/ Begin(r) \/ PoolIsClosed(r) \/ HasFailed(r) \/ CloseAwaited(r) \/ ReportFails(r)
              \/ \E e \in Entries : Join(r, e)
       PROVE  ReleaseInv'
  BY <1>1, <1>21
     DEF Begin, PoolIsClosed, HasFailed, CloseAwaited, ReportFails, Join, table, closure, usage
<1>22. CASE Closed \/ UNCHANGED vars
  BY <1>1, <1>22 DEF Closed, vars, table, closure, usage
<1>. QED
  BY <1>4, <1>5, <1>6, <1>7, <1>8, <1>9, <1>10, <1>11, <1>12, <1>13, <1>14, <1>15,
     <1>16, <1>17, <1>18, <1>19, <1>20, <1>21, <1>22
     DEF Next, AcquireStep, RunStep, ProviderStep, CloserStep, EvictionStep

\* The inductive invariant: the table, the runs and the releases each need the other two.
LEMMA PoolIsSound == Spec => []PoolInv
<1>1. Init => PoolInv
  BY NoneAssumption
     DEF Init, Off, IsOpen, PoolInv, TableInv, TableIsKeyed, TableIsCleared, FreshIsUnused,
         ClosureHasReason, ClosedIsNotAlive, NothingComesAlive, OpenIsInTable, RunInv,
         RunsHaveEntries, RunsAreCounted, EvictionSparesRuns, HoldsEntry, OnEntry, ReleaseInv,
         EvictionsWaitAtOne, IdleIsMade, ReleaseSparesTurns, ReleasesAreAwaited, ClosingIsReleased
<1>2. TypeOK /\ PoolInv /\ [Next]_vars => PoolInv'
  BY TableIsInductive, RunsAreInductive, ReleasesAreInductive DEF PoolInv
<1>. QED
  BY <1>1, <1>2, TypeCorrect, PTL DEF Spec

\* The pool takes nothing from a run that uses it: a key never has two open runtimes, no entry is
\* evicted from under a run, and no session is released under a turn on a runtime that lives.
THEOREM RunsAreSpared == Spec => []PoolSparesRuns
<1>1. PoolInv => PoolSparesRuns
  BY DEF PoolInv, TableInv, RunInv, ReleaseInv, PoolSparesRuns
<1>. QED
  BY <1>1, PoolIsSound, PTL

\* No runtime is closed while a session of it is being released, but for one that an eviction
\* closes and another, which waits for it, has begun to release; and when close() of the pool
\* resolves nothing it ever made is alive, whatever was being created or evicted when it began.
THEOREM ClosingIsOrderly == Spec => []CloseIsOrderly
<1>1. TypeOK /\ PoolInv => CloseAwaitsReleases
  <2>. SUFFICES ASSUME TypeOK, PoolInv, NEW e \in Entries, closing[e] = "closing",
                       NEW s \in releasing[e]
                PROVE  /\ reason[e] = "idle"
                       /\ \E v \in Evictions : <<e, s>> \in eviction[v].awaits /\ e \notin eviction[v].closes
    BY DEF CloseAwaitsReleases
  <2>. USE DEF PoolInv, ReleaseInv
  <2>1. reason[e] = "idle"
    BY DEF ClosingIsReleased
  <2>2. PICK v \in Evictions : <<e, s>> \in eviction[v].awaits
    BY <2>1 DEF ReleasesAreAwaited
  <2>3. s \in Sessions
    BY DEF TypeOK
  <2>. QED
    BY <2>1, <2>2, <2>3 DEF EvictionsWaitAtOne
<1>2. PoolInv => ClosedPoolIsEmpty
  BY DEF PoolInv, TableInv, NothingComesAlive, ClosedPoolIsEmpty
<1>. QED
  BY <1>1, <1>2, PoolIsSound, TypeCorrect, PTL DEF CloseIsOrderly

-------------------------------------------------------------------------------
(***************************************************************************)
(* An ACP process.  What a turn answers is counted: what the process wrote *)
(* of a prompt is in the queue of its session or still on the wire, and    *)
(* the end of the prompt is behind it.                                     *)
(***************************************************************************)

\* What a sequence is after one more element.
LEMMA AppendedIsLast ==
  ASSUME NEW S, NEW s \in Seq(S), NEW e \in S
  PROVE  /\ Append(s, e) \in Seq(S)
         /\ Len(s) + 1 \notin DOMAIN s
         /\ DOMAIN Append(s, e) = (DOMAIN s) \union {Len(s) + 1}
         /\ \A n \in DOMAIN s : Append(s, e)[n] = s[n]
         /\ Append(s, e)[Len(s) + 1] = e
OBVIOUS

\* A sequence one of whose elements is replaced.
LEMMA ReplacedKeepsType ==
  ASSUME NEW S, NEW s \in Seq(S), NEW i \in DOMAIN s, NEW e \in S
  PROVE  [s EXCEPT ![i] = e] \in Seq(S) /\ DOMAIN [s EXCEPT ![i] = e] = DOMAIN s
OBVIOUS

\* A queue has room, there is a model, and the absent value is neither a model nor a session;
\* Grok reports the end of a prompt in the three ways the code reads.
Drivable ==
  /\ MaxQueue \in Nat \ {0} /\ Models # {} /\ None \notin Models /\ None \notin Nat
  /\ \A e \in Endings : e \in Seq({"response", "named", "bare"})

LEMMA AcpCountingIsTheSame == \A S : Acp!Cardinality(S) = Cardinality(S)
BY DEF Acp!Cardinality, Cardinality

\* What of a queue or of the wire is of a prompt is finite.
LEMMA PartsAreFinite ==
  ASSUME NEW S, NEW q \in Seq(S), NEW p
  PROVE  IsFiniteSet(Acp!InQueue(q, p)) /\ IsFiniteSet(Acp!OnWire(q, p))
<1>1. IsFiniteSet(DOMAIN q)
  <2>1. DOMAIN q = 1 .. Len(q) /\ Len(q) \in Nat
    OBVIOUS
  <2>. QED
    BY <2>1, FS_Interval
<1>2. Acp!InQueue(q, p) \in SUBSET (DOMAIN q) /\ Acp!OnWire(q, p) \in SUBSET (DOMAIN q)
  BY DEF Acp!InQueue, Acp!OnWire
<1>. QED
  BY <1>1, <1>2, FS_Subset

\* One more item in a queue.
LEMMA QueuedCounts ==
  ASSUME NEW q \in Seq(Acp!Items), NEW i \in Acp!Items, NEW p
  PROVE  Cardinality(Acp!InQueue(Append(q, i), p))
            = Cardinality(Acp!InQueue(q, p)) + (IF i.of = p THEN 1 ELSE 0)
<1>1. /\ Len(q) + 1 \notin DOMAIN q /\ DOMAIN Append(q, i) = (DOMAIN q) \union {Len(q) + 1}
      /\ \A n \in DOMAIN q : Append(q, i)[n] = q[n]
      /\ Append(q, i)[Len(q) + 1] = i
  BY AppendedIsLast
<1>2. IsFiniteSet(Acp!InQueue(q, p)) /\ Cardinality(Acp!InQueue(q, p)) \in Nat
  BY PartsAreFinite, FS_CardinalityType
<1>3. CASE i.of = p
  <2>1. Acp!InQueue(Append(q, i), p) = Acp!InQueue(q, p) \union {Len(q) + 1} /\ Len(q) + 1 \notin Acp!InQueue(q, p)
    BY <1>1, <1>3 DEF Acp!InQueue
  <2>. QED
    BY <1>2, <1>3, <2>1, FS_AddElement
<1>4. CASE i.of # p
  <2>1. Acp!InQueue(Append(q, i), p) = Acp!InQueue(q, p)
    BY <1>1, <1>4 DEF Acp!InQueue
  <2>. QED
    BY <1>2, <1>4, <2>1
<1>. QED
  BY <1>3, <1>4

IsText(m, p) == m.kind = "text" /\ m.of = p

\* One more message on the wire.
LEMMA WrittenCounts ==
  ASSUME NEW w \in Seq(Acp!Messages), NEW m \in Acp!Messages, NEW p
  PROVE  Cardinality(Acp!OnWire(Append(w, m), p))
            = Cardinality(Acp!OnWire(w, p)) + (IF IsText(m, p) THEN 1 ELSE 0)
<1>1. /\ Len(w) + 1 \notin DOMAIN w /\ DOMAIN Append(w, m) = (DOMAIN w) \union {Len(w) + 1}
      /\ \A n \in DOMAIN w : Append(w, m)[n] = w[n]
      /\ Append(w, m)[Len(w) + 1] = m
  BY AppendedIsLast
<1>2. IsFiniteSet(Acp!OnWire(w, p)) /\ Cardinality(Acp!OnWire(w, p)) \in Nat
  BY PartsAreFinite, FS_CardinalityType
<1>3. CASE IsText(m, p)
  <2>1. Acp!OnWire(Append(w, m), p) = Acp!OnWire(w, p) \union {Len(w) + 1} /\ Len(w) + 1 \notin Acp!OnWire(w, p)
    BY <1>1, <1>3 DEF Acp!OnWire, IsText
  <2>. QED
    BY <1>2, <1>3, <2>1, FS_AddElement
<1>4. CASE ~ IsText(m, p)
  <2>1. Acp!OnWire(Append(w, m), p) = Acp!OnWire(w, p)
    BY <1>1, <1>4 DEF Acp!OnWire, IsText
  <2>. QED
    BY <1>2, <1>4, <2>1
<1>. QED
  BY <1>3, <1>4

\* The first message is read.
LEMMA ReadCounts ==
  ASSUME NEW w \in Seq(Acp!Messages), w # <<>>, NEW p
  PROVE  Cardinality(Acp!OnWire(w, p))
            = Cardinality(Acp!OnWire(Tail(w), p)) + (IF IsText(Head(w), p) THEN 1 ELSE 0)
<1>. DEFINE Rest == Acp!OnWire(w, p) \ {1}
            f == [i \in Acp!OnWire(Tail(w), p) |-> i + 1]
<1>1. /\ Tail(w) \in Seq(Acp!Messages) /\ 1 \in DOMAIN w /\ w[1] = Head(w)
      /\ \A i \in DOMAIN Tail(w) : i \in Nat \ {0} /\ i + 1 \in DOMAIN w /\ Tail(w)[i] = w[i + 1]
      /\ \A i \in DOMAIN w \ {1} : i \in Nat /\ i - 1 \in DOMAIN Tail(w)
  OBVIOUS
<1>2. /\ IsFiniteSet(Acp!OnWire(Tail(w), p)) /\ IsFiniteSet(Acp!OnWire(w, p))
      /\ Cardinality(Acp!OnWire(Tail(w), p)) \in Nat /\ Cardinality(Acp!OnWire(w, p)) \in Nat
  BY <1>1, PartsAreFinite, FS_CardinalityType
<1>3. ExistsBijection(Acp!OnWire(Tail(w), p), Rest)
  <2>1. f \in [Acp!OnWire(Tail(w), p) -> Rest]
    BY <1>1 DEF Acp!OnWire
  <2>2. \A i, j \in Acp!OnWire(Tail(w), p) : f[i] = f[j] => i = j
    BY <1>1 DEF Acp!OnWire
  <2>3. \A j \in Rest : \E i \in Acp!OnWire(Tail(w), p) : f[i] = j
    <3>. TAKE j \in Rest
    <3>1. j - 1 \in Acp!OnWire(Tail(w), p) /\ (j - 1) + 1 = j
      BY <1>1 DEF Acp!OnWire
    <3>. QED
      BY <3>1
  <2>. HIDE DEF f, Rest
  <2>4. f \in Bijection(Acp!OnWire(Tail(w), p), Rest)
    BY <2>1, <2>2, <2>3, Fun_IsBij
  <2>. QED
    BY <2>4 DEF ExistsBijection
<1>4. Cardinality(Rest) = Cardinality(Acp!OnWire(Tail(w), p))
  BY <1>2, <1>3, FS_Bijection
<1>5. 1 \in Acp!OnWire(w, p) <=> IsText(Head(w), p)
  BY <1>1 DEF Acp!OnWire, IsText
<1>6. Cardinality(Rest) = IF 1 \in Acp!OnWire(w, p) THEN Cardinality(Acp!OnWire(w, p)) - 1 ELSE Cardinality(Acp!OnWire(w, p))
  BY <1>2, FS_RemoveElement
<1>. QED
  BY <1>2, <1>4, <1>5, <1>6

\* Ends of prompts are no text.
LEMMA EndsAreNoText ==
  ASSUME NEW w \in Seq(Acp!Messages), NEW e \in Seq(Acp!Messages), \A i \in DOMAIN e : e[i].kind # "text", NEW p
  PROVE  Acp!OnWire(w \o e, p) = Acp!OnWire(w, p)
<1>1. /\ \A i \in DOMAIN w : i \in DOMAIN (w \o e) /\ (w \o e)[i] = w[i]
      /\ \A i \in DOMAIN (w \o e) : i \notin DOMAIN w => i - Len(w) \in DOMAIN e /\ (w \o e)[i] = e[i - Len(w)]
  OBVIOUS
<1>. QED
  BY <1>1 DEF Acp!OnWire

LEMMA AcpTurnIsTyped ==
  ASSUME Acp!TypeOK, NEW a \in AcpAgents
  PROVE  /\ turn[a] \in Acp!Turns
         /\ turn[a].step \in {"none", "open", "configure", "sent", "settled"}
         /\ turn[a].step \in {"open", "configure"} => turn[a] \in Acp!OpenTurns
         /\ turn[a].step = "sent" => turn[a] \in Acp!SentTurns
         /\ turn[a].step = "settled" => turn[a] \in Acp!SettledTurns
         /\ turn[a].step = "none" => turn[a] = Acp!Idle
         /\ Acp!Prompted(a) => turn[a].session \in Nat /\ turn[a].prompt \in Nat
<1>1. turn[a] \in Acp!Turns
  BY DEF Acp!TypeOK
<1>2. CASE turn[a] = Acp!Idle
  BY <1>1, <1>2 DEF Acp!Idle, Acp!Prompted
<1>3. CASE turn[a] \in Acp!OpenTurns
  BY <1>1, <1>3 DEF Acp!OpenTurns, Acp!Prompted
<1>4. CASE turn[a] \in Acp!SentTurns
  BY <1>1, <1>4 DEF Acp!SentTurns, Acp!Prompted
<1>5. CASE turn[a] \in Acp!SettledTurns
  BY <1>1, <1>5 DEF Acp!SettledTurns, Acp!Prompted
<1>. QED
  BY <1>1, <1>2, <1>3, <1>4, <1>5 DEF Acp!Turns

LEMMA AcpSessionIsTyped ==
  ASSUME Acp!TypeOK, NEW s \in DOMAIN session
  PROVE  /\ session[s] \in Acp!AcpSessions /\ session[s].use \in Acp!Uses /\ session[s].uses \in Models
         /\ Acp!Queue(s) \in Seq(Acp!Items) /\ session[s].use.live \in BOOLEAN
         /\ session[s].use.meta \in Models \union {None} /\ s \in Nat \ {0}
<1>1. session[s] \in Acp!AcpSessions /\ s \in Nat \ {0}
  BY DEF Acp!TypeOK
<1>. QED
  BY <1>1 DEF Acp!AcpSessions, Acp!Uses, Acp!Queue

\* No two turns are on one session, or of one prompt.
LEMMA Alone ==
  ASSUME Acp!TypeOK, Acp!SessionsAreOwn, NEW a \in AcpAgents, NEW b \in AcpAgents,
         Acp!Prompted(a), Acp!Prompted(b),
         turn[a].session = turn[b].session \/ turn[a].prompt = turn[b].prompt
  PROVE  a = b
<1>1. turn[a].session = turn[b].session
  BY DEF Acp!SessionsAreOwn
<1>2. known[a] = turn[a].session /\ known[b] = turn[b].session /\ known[a] # None
  BY DEF Acp!SessionsAreOwn, Acp!Prompted
<1>. QED
  BY <1>1, <1>2 DEF Acp!SessionsAreOwn

\* A turn's session and prompt are as they were, and whether it took the end.
SamePrompt(b) ==
  /\ Acp!Prompted(b)' <=> Acp!Prompted(b)
  /\ Acp!Prompted(b) => turn'[b].prompt = turn[b].prompt /\ turn'[b].session = turn[b].session
Alike(b) == SamePrompt(b) /\ (Acp!TookEnd(b)' <=> Acp!TookEnd(b))

\* Prompts are as they were, but for ends, and for the text of those that have not ended.
PromptsAlike ==
  /\ DOMAIN prompts' = DOMAIN prompts
  /\ \A p \in DOMAIN prompts :
        /\ prompts[p].ended => prompts'[p].ended /\ prompts'[p].text = prompts[p].text
        /\ prompts'[p].session = prompts[p].session /\ prompts'[p].asked = prompts[p].asked
        /\ prompts'[p].reported = prompts[p].reported

LEMMA HistoriesKeep ==
  ASSUME Acp!AcpInv, \A b \in AcpAgents : Alike(b), PromptsAlike, UNCHANGED <<early, answers, provider>>
  PROVE  Acp!EndsAreTaken' /\ Acp!AnswersAreFinal' /\ Acp!AnswersAreOwn' /\ Acp!OverridesTakeEffect'
<1>1. /\ Acp!TypeOK /\ Acp!SessionsAreOwn /\ Acp!EndsAreTaken /\ Acp!AnswersAreFinal
      /\ Acp!AnswersAreOwn /\ Acp!OverridesTakeEffect
  BY DEF Acp!AcpInv, Acp!AcpTurnsAreTheirOwn
<1>2. Acp!EndsAreTaken'
  <2>1. ASSUME NEW a \in AcpAgents, Acp!TookEnd(a)' PROVE prompts'[turn'[a].prompt].ended
    <3>1. Acp!TookEnd(a) /\ Acp!Prompted(a) /\ turn'[a].prompt = turn[a].prompt
      BY <2>1 DEF Alike, SamePrompt, Acp!TookEnd, Acp!Prompted
    <3>2. turn[a].prompt \in DOMAIN prompts /\ prompts[turn[a].prompt].ended
      BY <1>1, <3>1 DEF Acp!EndsAreTaken, Acp!SessionsAreOwn
    <3>. QED
      BY <3>1, <3>2 DEF PromptsAlike
  <2>2. ASSUME NEW p \in DOMAIN prompts'
        PROVE  prompts'[p].ended \/ p \in early' \/ \E a \in AcpAgents : Acp!Awaits(a, p)'
    <3>1. p \in DOMAIN prompts
      BY <2>2 DEF PromptsAlike
    <3>2. CASE prompts[p].ended \/ p \in early
      BY <3>1, <3>2 DEF PromptsAlike
    <3>3. CASE \E a \in AcpAgents : Acp!Awaits(a, p)
      <4>1. PICK a \in AcpAgents : Acp!Awaits(a, p)
        BY <3>3
      <4>2. Acp!Awaits(a, p)'
        BY <4>1 DEF Acp!Awaits, Alike, SamePrompt
      <4>. QED
        BY <4>2
    <3>. QED
      BY <1>1, <3>1, <3>2, <3>3 DEF Acp!EndsAreTaken
  <2>. QED
    BY <2>1, <2>2 DEF Acp!EndsAreTaken
<1>3. Acp!AnswersAreFinal'
  BY <1>1 DEF Acp!AnswersAreFinal, PromptsAlike
<1>4. Acp!AnswersAreOwn'
  <2>1. \A r \in answers : r.prompt \in early \/ prompts'[r.prompt].text = prompts[r.prompt].text
    BY <1>1 DEF Acp!AnswersAreFinal, PromptsAlike
  <2>. QED
    BY <1>1, <2>1 DEF Acp!AnswersAreOwn
<1>5. Acp!OverridesTakeEffect'
  BY <1>1 DEF Acp!OverridesTakeEffect, PromptsAlike
<1>. QED
  BY <1>2, <1>3, <1>4, <1>5

LEMMA QueuesKeep ==
  ASSUME Drivable, Acp!AcpInv, \A b \in AcpAgents : SamePrompt(b), PromptsAlike, UNCHANGED early,
         \A s \in DOMAIN session' :
            \/ session'[s].use.queue = <<>>
            \/ s \in DOMAIN session /\ session'[s].use = session[s].use
  PROVE  Acp!QueuesAreOwn'
<1>1. Acp!TypeOK /\ Acp!SessionsAreOwn /\ Acp!QueuesAreOwn
  BY DEF Acp!AcpInv
<1>. SUFFICES ASSUME NEW s \in DOMAIN session'
     PROVE  /\ Len(Acp!Queue(s)') <= MaxQueue
            /\ ~ session'[s].use.live => Acp!Queue(s)' = <<>>
            /\ \A i \in DOMAIN Acp!Queue(s)' :
                 LET q == Acp!Queue(s)'[i].of IN
                 /\ q # 0 => /\ q \in DOMAIN prompts' /\ prompts'[q].session = s
                             /\ q \in early' \/ \E a \in AcpAgents : (Acp!Prompted(a)' /\ turn'[a].prompt = q)
                 /\ \A a \in AcpAgents :
                       Acp!Prompted(a)' /\ turn'[a].session = s => Acp!Queue(s)'[i].after >= turn'[a].prompt
  BY DEF Acp!QueuesAreOwn
<1>2. CASE session'[s].use.queue = <<>>
  BY <1>2 DEF Acp!Queue, Drivable
<1>3. CASE s \in DOMAIN session /\ session'[s].use = session[s].use
  <2>1. Acp!Queue(s)' = Acp!Queue(s)
    BY <1>3 DEF Acp!Queue
  <2>2. Len(Acp!Queue(s)) <= MaxQueue /\ (~ session[s].use.live => Acp!Queue(s) = <<>>)
    BY <1>1, <1>3 DEF Acp!QueuesAreOwn
  <2>3. ASSUME NEW i \in DOMAIN Acp!Queue(s), NEW q, q = Acp!Queue(s)[i].of, q # 0
        PROVE  /\ q \in DOMAIN prompts' /\ prompts'[q].session = s
               /\ q \in early' \/ \E a \in AcpAgents : (Acp!Prompted(a)' /\ turn'[a].prompt = q)
    <3>1. /\ q \in DOMAIN prompts /\ prompts[q].session = s
          /\ q \in early \/ \E a \in AcpAgents : (Acp!Prompted(a) /\ turn[a].prompt = q)
      BY <1>1, <1>3, <2>3 DEF Acp!QueuesAreOwn
    <3>2. \A a \in AcpAgents : Acp!Prompted(a) /\ turn[a].prompt = q => Acp!Prompted(a)' /\ turn'[a].prompt = q
      BY DEF SamePrompt
    <3>. QED
      BY <3>1, <3>2 DEF PromptsAlike
  <2>4. ASSUME NEW i \in DOMAIN Acp!Queue(s), NEW a \in AcpAgents, Acp!Prompted(a)', turn'[a].session = s
        PROVE  Acp!Queue(s)[i].after >= turn'[a].prompt
    <3>1. Acp!Prompted(a) /\ turn[a].session = s /\ turn'[a].prompt = turn[a].prompt
      BY <2>4 DEF SamePrompt
    <3>. QED
      BY <1>1, <1>3, <2>4, <3>1 DEF Acp!QueuesAreOwn
  <2>. QED
    BY <1>3, <2>1, <2>2, <2>3, <2>4
<1>. QED
  BY <1>2, <1>3

\* Turns keep their sessions, and those before their prompt stay, too, or are over.
LEMMA SessionsKeep ==
  ASSUME Acp!AcpInv, \A b \in AcpAgents : SamePrompt(b), PromptsAlike, UNCHANGED <<early, known>>, turn' \in [AcpAgents -> Acp!Turns],
         \A b \in AcpAgents : turn'[b] = turn[b] \/ turn'[b].step \in {"none", "settled"}
  PROVE  Acp!SessionsAreOwn'
<1>1. Acp!TypeOK /\ Acp!SessionsAreOwn
  BY DEF Acp!AcpInv
<1>2. ASSUME NEW a \in AcpAgents
      PROVE  /\ turn'[a].step = "open" /\ turn'[a].new => known'[a] = None
             /\ turn'[a].step # "none" /\ ~(turn'[a].step = "open" /\ turn'[a].new)
                   => known'[a] # None /\ turn'[a].session = known'[a]
             /\ Acp!Prompted(a)' => turn'[a].prompt \in DOMAIN prompts' \ early'
                                  /\ prompts'[turn'[a].prompt].session = turn'[a].session
             /\ Acp!Opening(a)' /\ turn'[a].override => turn'[a].model # None
  <2>1. CASE turn'[a] = turn[a]
    BY <1>1, <2>1 DEF Acp!SessionsAreOwn, Acp!Prompted, Acp!Opening, PromptsAlike
  <2>2. CASE turn'[a].step = "none"
    BY <2>2 DEF Acp!Prompted, Acp!Opening
  <2>3. CASE turn'[a].step = "settled"
    <3>1. Acp!Prompted(a) /\ turn'[a].prompt = turn[a].prompt /\ turn'[a].session = turn[a].session
      BY <2>3 DEF SamePrompt, Acp!Prompted
    <3>2. known[a] # None /\ turn[a].session = known[a] /\ turn[a].prompt \in DOMAIN prompts \ early
          /\ prompts[turn[a].prompt].session = turn[a].session
      BY <1>1, <3>1 DEF Acp!SessionsAreOwn, Acp!Prompted
    <3>. QED
      BY <2>3, <3>1, <3>2 DEF PromptsAlike, Acp!Opening
  <2>. QED
    BY <2>1, <2>2, <2>3
<1>. QED
  BY <1>1, <1>2 DEF Acp!SessionsAreOwn

\* A turn that took the end of its prompt has read all text of it.
LEMMA TookAll ==
  ASSUME Acp!AcpInv, NEW a \in AcpAgents, Acp!TookEnd(a)
  PROVE  Acp!OnWire(wire, turn[a].prompt) = {}
<1>1. Acp!TypeOK /\ Acp!SessionsAreOwn /\ Acp!WireIsOrdered
  BY DEF Acp!AcpInv
<1>. SUFFICES ASSUME NEW i \in DOMAIN wire, wire[i].kind = "text", wire[i].of = turn[a].prompt
     PROVE  FALSE
  BY DEF Acp!OnWire
<1>2. Acp!Prompted(a)
  BY DEF Acp!TookEnd, Acp!Prompted
<1>3. turn[a].prompt \in DOMAIN prompts /\ turn[a].prompt \notin early /\ turn[a].prompt # 0
  BY <1>1, <1>2 DEF Acp!SessionsAreOwn, Acp!TypeOK
<1>4. PICK b \in AcpAgents : Acp!Awaits(b, turn[a].prompt)
  BY <1>1, <1>3 DEF Acp!WireIsOrdered
<1>5. b = a
  BY <1>1, <1>2, <1>4, Alone DEF Acp!Awaits
<1>. QED
  BY <1>4, <1>5 DEF Acp!Awaits

LEMMA WireKeeps ==
  ASSUME Acp!AcpInv, \A b \in AcpAgents : Alike(b), PromptsAlike, UNCHANGED early, wire' = wire \/ wire' = <<>>,
         DOMAIN session \subseteq DOMAIN session'
  PROVE  Acp!WireIsOrdered'
<1>1. Acp!TypeOK /\ Acp!WireIsOrdered
  BY DEF Acp!AcpInv
<1>2. CASE wire' = <<>>
  BY <1>2 DEF Acp!WireIsOrdered
<1>3. CASE wire' = wire
  <2>1. ASSUME NEW i \in DOMAIN wire
        PROVE  /\ wire[i].session \in DOMAIN session'
               /\ wire[i].kind # "text" => wire[i].of \in DOMAIN prompts' /\ prompts'[wire[i].of].ended
               /\ wire[i].kind = "text" /\ wire[i].of # 0 =>
                     /\ wire[i].of \in DOMAIN prompts' /\ prompts'[wire[i].of].session = wire[i].session
                     /\ wire[i].of \in early' \/ \E a \in AcpAgents : Acp!Awaits(a, wire[i].of)'
    <3>1. \A a \in AcpAgents : Acp!Awaits(a, wire[i].of) => Acp!Awaits(a, wire[i].of)'
      BY <1>3 DEF Alike, SamePrompt, Acp!Awaits
    <3>. QED
      BY <1>1, <2>1, <3>1 DEF Acp!WireIsOrdered, PromptsAlike
  <2>2. \A i, j \in DOMAIN wire :
           i < j /\ wire[i].kind # "text" /\ wire[j].kind = "text" => wire[i].of # wire[j].of
    BY <1>1 DEF Acp!WireIsOrdered
  <2>. QED
    BY <1>3, <2>1, <2>2 DEF Acp!WireIsOrdered
<1>. QED
  BY <1>2, <1>3

LEMMA NothingKeeps ==
  ASSUME Acp!AcpInv, \A b \in AcpAgents : Alike(b), UNCHANGED prompts, wire' = wire \/ wire' = <<>>,
         \A b \in AcpAgents : turn'[b].step = "sent" => turn[b].step = "sent" /\ wire' = wire,
         \A s \in DOMAIN session : \/ session'[s].use = session[s].use \/ ~ session'[s].use.live
                                   \/ \A b \in AcpAgents : ~(Acp!Prompted(b) /\ turn[b].session = s)
  PROVE  Acp!NothingIsMissing'
<1>1. Acp!TypeOK /\ Acp!SessionsAreOwn /\ Acp!NothingIsMissing
  BY DEF Acp!AcpInv
<1>. SUFFICES ASSUME NEW a \in AcpAgents, turn'[a].step = "sent" \/ Acp!TookEnd(a)'
     PROVE  LET q == Acp!Queue(turn[a].session)'   p == turn'[a].prompt IN
            \/ ~ session'[turn'[a].session].use.live \/ Len(session'[turn'[a].session].use.queue) = MaxQueue
            \/ Acp!Cardinality(Acp!InQueue(session'[turn'[a].session].use.queue, p))
                  + Acp!Cardinality(Acp!OnWire(wire', p)) = prompts'[p].text
  BY DEF Acp!NothingIsMissing, Acp!Queue
<1>. DEFINE s == turn[a].session
            p == turn[a].prompt
<1>2. /\ turn[a].step = "sent" \/ Acp!TookEnd(a)
      /\ Acp!Prompted(a) /\ turn'[a].session = s /\ turn'[a].prompt = p
  BY DEF Alike, SamePrompt, Acp!Prompted, Acp!TookEnd
<1>3. s \in DOMAIN session
  BY <1>1, <1>2 DEF Acp!SessionsAreOwn, Acp!TypeOK
<1>4. Acp!OnWire(wire', p) = Acp!OnWire(wire, p)
  <2>1. CASE wire' = wire
    BY <2>1
  <2>2. CASE wire' = <<>> /\ wire' # wire
    <3>1. Acp!TookEnd(a)
      BY <2>2 DEF Alike, SamePrompt
    <3>2. Acp!OnWire(wire, p) = {}
      BY <3>1, TookAll
    <3>. QED
      BY <2>2, <3>2 DEF Acp!OnWire
  <2>. QED
    BY <2>1, <2>2
<1>5. \/ ~ session[s].use.live \/ Len(session[s].use.queue) = MaxQueue
      \/ Acp!Cardinality(Acp!InQueue(session[s].use.queue, p)) + Acp!Cardinality(Acp!OnWire(wire, p)) = prompts[p].text
  BY <1>1, <1>2 DEF Acp!NothingIsMissing, Acp!Queue
<1>6. session'[s].use = session[s].use \/ ~ session'[s].use.live
  BY <1>2, <1>3
<1>. HIDE DEF s, p
<1>. QED
  BY <1>2, <1>4, <1>5, <1>6

\* Nothing is written or read, and no turn takes the end of its prompt or gets a new one.
LEMMA TurnsStay ==
  ASSUME Drivable, Acp!AcpInv, Acp!TypeOK', Acp!SessionsAreOwn', Acp!NoOrphan',
         \A b \in AcpAgents : Alike(b), UNCHANGED <<prompts, early, answers, provider>>,
         wire' = wire \/ wire' = <<>>,
         \A b \in AcpAgents : turn'[b].step = "sent" => turn[b].step = "sent" /\ wire' = wire,
         DOMAIN session \subseteq DOMAIN session',
         \A s \in DOMAIN session' :
            \/ session'[s].use.queue = <<>>
            \/ s \in DOMAIN session /\ session'[s].use = session[s].use,
         \A s \in DOMAIN session : \/ session'[s].use = session[s].use \/ ~ session'[s].use.live
                                   \/ \A b \in AcpAgents : ~(Acp!Prompted(b) /\ turn[b].session = s)
  PROVE  Acp!AcpInv'
<1>1. PromptsAlike
  BY DEF PromptsAlike
<1>2. Acp!EndsAreTaken' /\ Acp!AnswersAreFinal' /\ Acp!AnswersAreOwn' /\ Acp!OverridesTakeEffect'
  BY <1>1, HistoriesKeep
<1>3. Acp!QueuesAreOwn'
  BY <1>1, QueuesKeep DEF Alike
<1>4. Acp!WireIsOrdered'
  BY <1>1, WireKeeps
<1>5. Acp!NothingIsMissing'
  BY NothingKeeps
<1>. QED
  BY <1>2, <1>3, <1>4, <1>5 DEF Acp!AcpInv, Acp!AcpTurnsAreTheirOwn

\* The turns when every request in flight is rejected.
LEMMA RejectsSo ==
  ASSUME Acp!TypeOK, Acp!Reject
  PROVE  /\ turn' \in [AcpAgents -> Acp!Turns]
         /\ \A b \in AcpAgents : Alike(b)
         /\ \A b \in AcpAgents : turn'[b].step # "sent"
         /\ \A b \in AcpAgents : turn'[b] = turn[b] \/ turn'[b].step \in {"none", "settled"}
<1>1. ASSUME NEW b \in AcpAgents
      PROVE  /\ turn'[b] \in Acp!Turns /\ Alike(b) /\ turn'[b].step # "sent"
             /\ turn'[b] = turn[b] \/ turn'[b].step \in {"none", "settled"}
  <2>1. CASE turn[b].step \in {"open", "configure"}
    <3>1. turn'[b] = Acp!Idle
      BY <2>1 DEF Acp!Reject
    <3>. QED
      BY <2>1, <3>1 DEF Acp!Turns, Acp!Idle, Alike, SamePrompt, Acp!Prompted, Acp!TookEnd
  <2>2. CASE turn[b].step = "sent"
    <3>1. turn'[b] = Acp!Ended(turn[b], "closed") /\ turn[b] \in Acp!SentTurns
      BY <2>2, AcpTurnIsTyped DEF Acp!Reject
    <3>2. /\ turn'[b] \in Acp!SettledTurns /\ turn'[b].step = "settled" /\ turn'[b].by = "closed"
          /\ turn'[b].session = turn[b].session /\ turn'[b].prompt = turn[b].prompt
      BY <3>1 DEF Acp!Ended, Acp!SentTurns, Acp!SettledTurns
    <3>. QED
      BY <2>2, <3>2 DEF Acp!Turns, Alike, SamePrompt, Acp!Prompted, Acp!TookEnd
  <2>3. CASE turn[b].step \notin {"open", "configure", "sent"}
    <3>1. turn'[b] = turn[b] /\ turn[b] \in Acp!Turns
      BY <2>3, AcpTurnIsTyped DEF Acp!Reject
    <3>. QED
      BY <2>3, <3>1 DEF Alike, SamePrompt, Acp!Prompted, Acp!TookEnd
  <2>. QED
    BY <2>1, <2>2, <2>3
<1>2. turn' \in [AcpAgents -> Acp!Turns]
  BY <1>1 DEF Acp!Reject
<1>. QED
  BY <1>1, <1>2

LEMMA NothingMoves ==
  ASSUME Acp!AcpInv, UNCHANGED <<turn, prompts, session, wire, known, early, answers, provider>>, Acp!NoOrphan'
  PROVE  Acp!AcpInv'
<1>1. /\ Acp!TypeOK /\ Acp!SessionsAreOwn /\ Acp!EndsAreTaken /\ Acp!WireIsOrdered /\ Acp!QueuesAreOwn
      /\ Acp!NothingIsMissing /\ Acp!AnswersAreFinal /\ Acp!AnswersAreOwn /\ Acp!OverridesTakeEffect
  BY DEF Acp!AcpInv, Acp!AcpTurnsAreTheirOwn
<1>2. Acp!TypeOK'
  BY <1>1 DEF Acp!TypeOK
<1>3. Acp!SessionsAreOwn'
  BY <1>1 DEF Acp!SessionsAreOwn, Acp!Prompted, Acp!Opening
<1>4. Acp!EndsAreTaken'
  BY <1>1 DEF Acp!EndsAreTaken, Acp!TookEnd, Acp!Awaits, Acp!Prompted
<1>5. Acp!WireIsOrdered'
  BY <1>1 DEF Acp!WireIsOrdered, Acp!TookEnd, Acp!Awaits, Acp!Prompted
<1>6. Acp!QueuesAreOwn'
  BY <1>1 DEF Acp!QueuesAreOwn, Acp!Queue, Acp!Prompted
<1>7. Acp!NothingIsMissing'
  BY <1>1 DEF Acp!NothingIsMissing, Acp!Queue, Acp!TookEnd
<1>8. Acp!AnswersAreFinal' /\ Acp!AnswersAreOwn' /\ Acp!OverridesTakeEffect'
  BY <1>1 DEF Acp!AnswersAreFinal, Acp!AnswersAreOwn, Acp!OverridesTakeEffect
<1>. QED
  BY <1>2, <1>3, <1>4, <1>5, <1>6, <1>7, <1>8 DEF Acp!AcpInv, Acp!AcpTurnsAreTheirOwn

LEMMA ProcessMoves ==
  ASSUME Acp!AcpInv, Acp!Launch \/ Acp!Initialize \/ (Acp!ChildExits /\ acpRuntime # "open")
  PROVE  Acp!AcpInv'
<1>1. Acp!NoOrphan
  BY DEF Acp!AcpInv, Acp!AcpTurnsAreTheirOwn
<1>2. /\ UNCHANGED <<turn, prompts, session, wire, known, early, answers, provider>>
      /\ Acp!NoOrphan'
  BY <1>1 DEF Acp!Launch, Acp!Initialize, Acp!ChildExits, Acp!Signal, Acp!NoOrphan
<1>. QED
  BY <1>2, NothingMoves

LEMMA AcpRejects ==
  ASSUME Drivable, Acp!AcpInv, (Acp!ChildExits /\ acpRuntime = "open") \/ Acp!Disconnect
  PROVE  Acp!AcpInv'
<1>1. Acp!TypeOK /\ Acp!NoOrphan
  BY DEF Acp!AcpInv, Acp!AcpTurnsAreTheirOwn
<1>2. /\ Acp!Reject /\ wire' = <<>> /\ Acp!NoOrphan'
      /\ UNCHANGED <<prompts, session, known, early, answers, provider>>
  BY <1>1 DEF Acp!ChildExits, Acp!Disconnect, Acp!NoOrphan
<1>3. /\ turn' \in [AcpAgents -> Acp!Turns]
      /\ \A b \in AcpAgents : Alike(b)
      /\ \A b \in AcpAgents : turn'[b].step # "sent"
      /\ \A b \in AcpAgents : turn'[b] = turn[b] \/ turn'[b].step \in {"none", "settled"}
  BY <1>1, <1>2, RejectsSo
<1>4. Acp!TypeOK'
  BY <1>1, <1>2, <1>3 DEF Acp!TypeOK
<1>5. Acp!SessionsAreOwn'
  BY <1>2, <1>3, SessionsKeep DEF PromptsAlike, Alike
<1>6. \A s \in DOMAIN session : session'[s].use = session[s].use
  BY <1>2
<1>. QED
  BY <1>2, <1>3, <1>4, <1>5, <1>6, TurnsStay

LEMMA AcpCloses ==
  ASSUME Drivable, Acp!AcpInv, Acp!Close
  PROVE  Acp!AcpInv'
<1>1. Acp!TypeOK /\ Acp!NoOrphan
  BY DEF Acp!AcpInv, Acp!AcpTurnsAreTheirOwn
<1>2. /\ Acp!Reject /\ wire' = <<>> /\ Acp!NoOrphan'
      /\ UNCHANGED <<prompts, known, early, answers, provider>>
      /\ session' = [s \in DOMAIN session |-> [session[s] EXCEPT !.use = Acp!Off]]
  BY <1>1 DEF Acp!Close, Acp!Signal, Acp!NoOrphan
<1>3. /\ turn' \in [AcpAgents -> Acp!Turns]
      /\ \A b \in AcpAgents : Alike(b)
      /\ \A b \in AcpAgents : turn'[b].step # "sent"
      /\ \A b \in AcpAgents : turn'[b] = turn[b] \/ turn'[b].step \in {"none", "settled"}
  BY <1>1, <1>2, RejectsSo
<1>4. Acp!Off \in Acp!Uses /\ Acp!Off.queue = <<>> /\ ~ Acp!Off.live
  BY DEF Acp!Off, Acp!Uses, Acp!Items
<1>5. ASSUME NEW s \in DOMAIN session
      PROVE  session'[s] \in Acp!AcpSessions /\ session'[s].use = Acp!Off
  <2>1. session[s] \in Acp!AcpSessions
    BY <1>1, AcpSessionIsTyped
  <2>. QED
    BY <1>2, <1>4, <2>1 DEF Acp!AcpSessions
<1>6. session' \in Seq(Acp!AcpSessions) /\ DOMAIN session' = DOMAIN session
  <2>1. session \in Seq(Acp!AcpSessions) /\ DOMAIN session = 1 .. Len(session) /\ Len(session) \in Nat
    BY <1>1 DEF Acp!TypeOK
  <2>2. session' \in [1 .. Len(session) -> Acp!AcpSessions]
    BY <1>2, <1>5, <2>1
  <2>. QED
    BY <1>2, <2>1, <2>2
<1>7. Acp!TypeOK'
  BY <1>1, <1>2, <1>3, <1>6 DEF Acp!TypeOK
<1>8. Acp!SessionsAreOwn'
  BY <1>2, <1>3, SessionsKeep DEF PromptsAlike, Alike
<1>9. \A s \in DOMAIN session' : session'[s].use.queue = <<>> /\ ~ session'[s].use.live
  BY <1>4, <1>5, <1>6
<1>. QED
  BY <1>2, <1>3, <1>6, <1>7, <1>8, <1>9, TurnsStay

\* A turn of a that is not on its prompt becomes another such, or none.
LEMMA OneTurns ==
  ASSUME Acp!TypeOK, NEW a \in AcpAgents, NEW t \in Acp!Turns, t.step \in {"none", "open", "configure"},
         turn[a].step \in {"none", "open", "configure"}, turn' = [turn EXCEPT ![a] = t]
  PROVE  /\ turn' \in [AcpAgents -> Acp!Turns] /\ turn'[a] = t
         /\ \A b \in AcpAgents : b # a => turn'[b] = turn[b]
         /\ \A b \in AcpAgents : Alike(b)
         /\ \A b \in AcpAgents : turn'[b].step = "sent" => turn[b].step = "sent"
<1>1. turn \in [AcpAgents -> Acp!Turns]
  BY DEF Acp!TypeOK
<1>2. turn' \in [AcpAgents -> Acp!Turns] /\ turn'[a] = t /\ \A b \in AcpAgents : b # a => turn'[b] = turn[b]
  BY <1>1
<1>. QED
  BY <1>2 DEF Alike, SamePrompt, Acp!Prompted, Acp!TookEnd

LEMMA TurnBegins ==
  ASSUME Drivable, Acp!AcpInv, NEW a \in AcpAgents, NEW model \in Models \union {None}, NEW override \in BOOLEAN,
         Acp!BeginTurn(a, model, override)
  PROVE  Acp!AcpInv'
<1>1. Acp!TypeOK /\ Acp!SessionsAreOwn /\ Acp!NoOrphan
  BY DEF Acp!AcpInv, Acp!AcpTurnsAreTheirOwn
<1>. DEFINE to == IF known[a] # None /\ session[known[a]].use.live THEN "configure" ELSE "open"
            t == [step |-> to, session |-> known[a], model |-> model, override |-> override, new |-> known[a] = None]
<1>2. /\ turn[a] = Acp!Idle /\ (override => model # None) /\ turn' = [turn EXCEPT ![a] = t]
      /\ UNCHANGED <<prompts, session, known, early, answers, provider, child, acpRuntime, wire>>
  BY DEF Acp!BeginTurn
<1>3. to \in {"open", "configure"} /\ (to = "configure" => known[a] # None)
  OBVIOUS
<1>4. known[a] \in Nat \union {None}
  BY <1>1 DEF Acp!TypeOK
<1>. HIDE DEF to
<1>5. /\ t \in Acp!OpenTurns /\ t.step = to /\ t.session = known[a] /\ t.model = model /\ t.override = override
      /\ (t.new <=> known[a] = None)
  BY <1>3, <1>4 DEF Acp!OpenTurns
<1>. HIDE DEF t
<1>6. t \in Acp!Turns /\ t.step \in {"none", "open", "configure"} /\ turn[a].step = "none"
  BY <1>2, <1>3, <1>5 DEF Acp!Turns, Acp!Idle
<1>7. /\ turn' \in [AcpAgents -> Acp!Turns] /\ turn'[a] = t
      /\ \A b \in AcpAgents : b # a => turn'[b] = turn[b]
      /\ \A b \in AcpAgents : Alike(b)
      /\ \A b \in AcpAgents : turn'[b].step = "sent" => turn[b].step = "sent"
  BY <1>1, <1>2, <1>6, OneTurns
<1>8. Acp!TypeOK'
  BY <1>1, <1>2, <1>7 DEF Acp!TypeOK
<1>9. Acp!SessionsAreOwn'
  <2>1. ASSUME NEW b \in AcpAgents, b # a
        PROVE  /\ turn'[b].step = "open" /\ turn'[b].new => known'[b] = None
               /\ turn'[b].step # "none" /\ ~(turn'[b].step = "open" /\ turn'[b].new)
                     => known'[b] # None /\ turn'[b].session = known'[b]
               /\ Acp!Prompted(b)' => turn'[b].prompt \in DOMAIN prompts' \ early'
                                    /\ prompts'[turn'[b].prompt].session = turn'[b].session
               /\ Acp!Opening(b)' /\ turn'[b].override => turn'[b].model # None
    BY <1>1, <1>2, <1>7, <2>1 DEF Acp!SessionsAreOwn, Acp!Prompted, Acp!Opening
  <2>2. /\ turn'[a].step = "open" /\ turn'[a].new => known'[a] = None
        /\ turn'[a].step # "none" /\ ~(turn'[a].step = "open" /\ turn'[a].new)
              => known'[a] # None /\ turn'[a].session = known'[a]
        /\ ~ Acp!Prompted(a)'
        /\ turn'[a].override => turn'[a].model # None
    BY <1>2, <1>3, <1>5, <1>7 DEF Acp!Prompted
  <2>3. \A b, c \in AcpAgents : known'[b] # None /\ known'[b] = known'[c] => b = c
    BY <1>1, <1>2 DEF Acp!SessionsAreOwn
  <2>. QED
    BY <2>1, <2>2, <2>3 DEF Acp!SessionsAreOwn
<1>10. Acp!NoOrphan'
  BY <1>1, <1>2 DEF Acp!NoOrphan
<1>11. /\ \A s \in DOMAIN session' : s \in DOMAIN session /\ session'[s].use = session[s].use
       /\ DOMAIN session \subseteq DOMAIN session'
  BY <1>2
<1>. QED
  BY <1>2, <1>7, <1>8, <1>9, <1>10, <1>11, TurnsStay

LEMMA OpenEnds ==
  ASSUME Drivable, Acp!AcpInv, NEW a \in AcpAgents, Acp!OpenFails(a)
  PROVE  Acp!AcpInv'
<1>1. Acp!TypeOK /\ Acp!SessionsAreOwn /\ Acp!NoOrphan
  BY DEF Acp!AcpInv, Acp!AcpTurnsAreTheirOwn
<1>2. /\ turn[a].step \in {"open", "configure"} /\ turn' = [turn EXCEPT ![a] = Acp!Idle]
      /\ UNCHANGED <<prompts, session, known, early, answers, provider, child, acpRuntime, wire>>
  BY DEF Acp!OpenFails
<1>3. Acp!Idle \in Acp!Turns /\ Acp!Idle.step = "none"
  BY DEF Acp!Turns, Acp!Idle
<1>4. /\ turn' \in [AcpAgents -> Acp!Turns] /\ turn'[a] = Acp!Idle
      /\ \A b \in AcpAgents : b # a => turn'[b] = turn[b]
      /\ \A b \in AcpAgents : Alike(b)
      /\ \A b \in AcpAgents : turn'[b].step = "sent" => turn[b].step = "sent"
  BY <1>1, <1>2, <1>3, OneTurns
<1>5. Acp!TypeOK'
  BY <1>1, <1>2, <1>4 DEF Acp!TypeOK
<1>6. \A b \in AcpAgents : turn'[b] = turn[b] \/ turn'[b].step \in {"none", "settled"}
  BY <1>3, <1>4
<1>7. Acp!SessionsAreOwn'
  BY <1>2, <1>4, <1>6, SessionsKeep DEF PromptsAlike, Alike
<1>8. Acp!NoOrphan'
  BY <1>1, <1>2 DEF Acp!NoOrphan
<1>9. /\ \A s \in DOMAIN session' : s \in DOMAIN session /\ session'[s].use = session[s].use
      /\ DOMAIN session \subseteq DOMAIN session'
  BY <1>2
<1>. QED
  BY <1>2, <1>4, <1>5, <1>7, <1>8, <1>9, TurnsStay

LEMMA TurnTimesOut ==
  ASSUME Drivable, Acp!AcpInv, NEW a \in AcpAgents, Acp!PromptTimesOut(a)
  PROVE  Acp!AcpInv'
<1>1. Acp!TypeOK /\ Acp!SessionsAreOwn /\ Acp!NoOrphan
  BY DEF Acp!AcpInv, Acp!AcpTurnsAreTheirOwn
<1>2. /\ turn[a].step = "sent" /\ turn' = [turn EXCEPT ![a] = Acp!Ended(turn[a], "timeout")]
      /\ UNCHANGED <<prompts, session, known, early, answers, provider, child, acpRuntime, wire>>
  BY DEF Acp!PromptTimesOut
<1>. DEFINE t == Acp!Ended(turn[a], "timeout")
<1>3. turn[a] \in Acp!SentTurns
  BY <1>1, <1>2, AcpTurnIsTyped
<1>4. /\ t \in Acp!SettledTurns /\ t.step = "settled" /\ t.by = "timeout"
      /\ t.session = turn[a].session /\ t.prompt = turn[a].prompt
  BY <1>3 DEF Acp!Ended, Acp!SentTurns, Acp!SettledTurns
<1>. HIDE DEF t
<1>5. turn' = [turn EXCEPT ![a] = t]
  BY <1>2 DEF t
<1>6. /\ turn' \in [AcpAgents -> Acp!Turns] /\ turn'[a] = t
      /\ \A b \in AcpAgents : b # a => turn'[b] = turn[b]
  BY <1>1, <1>4, <1>5 DEF Acp!TypeOK, Acp!Turns
<1>7. /\ \A b \in AcpAgents : Alike(b)
      /\ \A b \in AcpAgents : turn'[b].step = "sent" => turn[b].step = "sent"
      /\ \A b \in AcpAgents : turn'[b] = turn[b] \/ turn'[b].step \in {"none", "settled"}
  BY <1>2, <1>4, <1>6 DEF Alike, SamePrompt, Acp!Prompted, Acp!TookEnd
<1>8. Acp!TypeOK'
  BY <1>1, <1>2, <1>6 DEF Acp!TypeOK
<1>9. Acp!SessionsAreOwn'
  BY <1>2, <1>6, <1>7, SessionsKeep DEF PromptsAlike, Alike
<1>10. Acp!NoOrphan'
  BY <1>1, <1>2 DEF Acp!NoOrphan
<1>11. /\ \A s \in DOMAIN session' : s \in DOMAIN session /\ session'[s].use = session[s].use
       /\ DOMAIN session \subseteq DOMAIN session'
  BY <1>2
<1>. QED
  BY <1>2, <1>7, <1>8, <1>9, <1>10, <1>11, TurnsStay

LEMMA SessionIsReleased ==
  ASSUME Drivable, Acp!AcpInv, NEW s \in DOMAIN session, Acp!ReleaseSession(s)
  PROVE  Acp!AcpInv'
<1>1. Acp!TypeOK /\ Acp!SessionsAreOwn /\ Acp!NoOrphan
  BY DEF Acp!AcpInv, Acp!AcpTurnsAreTheirOwn
<1>2. /\ session' = [session EXCEPT ![s].use = Acp!Off]
      /\ \A b \in AcpAgents : ~(turn[b].step # "none" /\ turn[b].session = s)
      /\ UNCHANGED <<turn, prompts, known, early, answers, provider, child, acpRuntime, wire>>
  BY DEF Acp!ReleaseSession, Acp!Turning
<1>. DEFINE x == [session[s] EXCEPT !.use = Acp!Off]
<1>3. Acp!Off \in Acp!Uses /\ Acp!Off.queue = <<>> /\ ~ Acp!Off.live
  BY DEF Acp!Off, Acp!Uses, Acp!Items
<1>4. session[s] \in Acp!AcpSessions /\ session \in Seq(Acp!AcpSessions)
  BY <1>1, AcpSessionIsTyped DEF Acp!TypeOK
<1>5. x \in Acp!AcpSessions /\ x.use = Acp!Off
  BY <1>3, <1>4 DEF Acp!AcpSessions
<1>. HIDE DEF x
<1>6. session' = [session EXCEPT ![s] = x]
  BY <1>2 DEF x
<1>7. /\ session' \in Seq(Acp!AcpSessions) /\ DOMAIN session' = DOMAIN session /\ session'[s] = x
      /\ \A u \in DOMAIN session : u # s => session'[u] = session[u]
  BY <1>4, <1>5, <1>6, ReplacedKeepsType
<1>8. Acp!TypeOK'
  BY <1>1, <1>2, <1>7 DEF Acp!TypeOK
<1>9. Acp!SessionsAreOwn'
  BY <1>1, <1>2 DEF Acp!SessionsAreOwn, Acp!Prompted, Acp!Opening
<1>10. Acp!NoOrphan'
  BY <1>1, <1>2 DEF Acp!NoOrphan
<1>11. /\ \A b \in AcpAgents : Alike(b)
       /\ \A b \in AcpAgents : Acp!Prompted(b) => turn[b].session # s
  BY <1>2 DEF Alike, SamePrompt, Acp!Prompted, Acp!TookEnd
<1>12. /\ \A u \in DOMAIN session' :
            \/ session'[u].use.queue = <<>>
            \/ u \in DOMAIN session /\ session'[u].use = session[u].use
       /\ \A u \in DOMAIN session : session'[u].use = session[u].use \/ ~ session'[u].use.live
  BY <1>3, <1>5, <1>7
<1>. QED
  BY <1>2, <1>7, <1>8, <1>9, <1>10, <1>11, <1>12, TurnsStay

\* The session that an open gets, and its number.
LEMMA OpensSo ==
  ASSUME Drivable, Acp!AcpInv, NEW a \in AcpAgents, NEW advertises \in BOOLEAN, Acp!OpenSession(a, advertises)
  PROVE  \E s \in DOMAIN session' :
            /\ session' \in Seq(Acp!AcpSessions) /\ DOMAIN session' = (DOMAIN session) \union {s} /\ s \in Nat
            /\ session'[s].use.queue = <<>> /\ \A u \in DOMAIN session : u # s => session'[u] = session[u]
            /\ s \notin DOMAIN session \/ s = known[a]
            /\ \/ known' = [known EXCEPT ![a] = s]
                  /\ turn' = [turn EXCEPT ![a] = [[turn[a] EXCEPT !.step = "configure"] EXCEPT !.session = s]]
               \/ known' = known /\ turn' = [turn EXCEPT ![a] = Acp!Idle]
<1>1. Acp!TypeOK /\ Acp!SessionsAreOwn
  BY DEF Acp!AcpInv
<1>. DEFINE s == IF turn[a].new THEN Len(session) + 1 ELSE turn[a].session
            uses == IF turn[a].new THEN CHOOSE m \in Models : TRUE ELSE session[s].uses
            use == [live |-> TRUE, queue |-> <<>>, meta |-> IF advertises THEN uses ELSE None]
            opened == [uses |-> uses, use |-> use]
<1>2. /\ turn[a].step = "open"
      /\ session' = IF turn[a].new THEN Append(session, opened) ELSE [session EXCEPT ![s] = opened]
      /\ \/ known' = [known EXCEPT ![a] = s]
            /\ turn' = [turn EXCEPT ![a] = [[turn[a] EXCEPT !.step = "configure"] EXCEPT !.session = s]]
         \/ known' = known /\ turn' = [turn EXCEPT ![a] = Acp!Idle]
  <2>1. known \in [AcpAgents -> DOMAIN session \union {None}] /\ turn \in [AcpAgents -> Acp!Turns]
    BY <1>1 DEF Acp!TypeOK
  <2>. QED
    BY <2>1 DEF Acp!OpenSession
<1>3. turn[a].new \in BOOLEAN /\ session \in Seq(Acp!AcpSessions)
  BY <1>1, <1>2, AcpTurnIsTyped DEF Acp!OpenTurns, Acp!TypeOK
<1>4. ~ turn[a].new => s = known[a] /\ s \in DOMAIN session
  BY <1>1, <1>2, <1>3 DEF Acp!SessionsAreOwn, Acp!TypeOK
<1>5. uses \in Models
  BY <1>1, <1>3, <1>4, AcpSessionIsTyped DEF Drivable
<1>. HIDE DEF uses
<1>6. use \in Acp!Uses /\ use.queue = <<>>
  BY <1>5 DEF Acp!Uses
<1>. HIDE DEF use
<1>7. opened \in Acp!AcpSessions /\ opened.use = use
  BY <1>5, <1>6 DEF Acp!AcpSessions
<1>. HIDE DEF opened
<1>8. CASE turn[a].new
  <2>1. session' = Append(session, opened) /\ s = Len(session) + 1
    BY <1>2, <1>8
  <2>. HIDE DEF s
  <2>2. /\ session' \in Seq(Acp!AcpSessions) /\ s \notin DOMAIN session /\ DOMAIN session' = (DOMAIN session) \union {s}
        /\ session'[s] = opened /\ \A u \in DOMAIN session : session'[u] = session[u]
    BY <1>3, <1>7, <2>1, AppendedIsLast
  <2>3. session'[s].use.queue = <<>> /\ s \in DOMAIN session' /\ s \in Nat /\ (s \notin DOMAIN session \/ s = known[a])
    BY <1>3, <1>6, <1>7, <2>1, <2>2
  <2>4. \/ known' = [known EXCEPT ![a] = s]
            /\ turn' = [turn EXCEPT ![a] = [[turn[a] EXCEPT !.step = "configure"] EXCEPT !.session = s]]
        \/ known' = known /\ turn' = [turn EXCEPT ![a] = Acp!Idle]
    BY <1>2
  <2>. WITNESS s \in DOMAIN session'
  <2>. QED
    BY <2>2, <2>3, <2>4
<1>9. CASE ~ turn[a].new
  <2>1. session' = [session EXCEPT ![s] = opened] /\ s = known[a] /\ s \in DOMAIN session
    BY <1>2, <1>4, <1>9
  <2>. HIDE DEF s
  <2>2. /\ session' \in Seq(Acp!AcpSessions) /\ DOMAIN session' = DOMAIN session
        /\ session'[s] = opened /\ \A u \in DOMAIN session : u # s => session'[u] = session[u]
    BY <1>3, <1>7, <2>1, ReplacedKeepsType
  <2>3. session'[s].use.queue = <<>> /\ s \in DOMAIN session' /\ s \in Nat /\ (s \notin DOMAIN session \/ s = known[a])
    BY <1>3, <1>6, <1>7, <2>1, <2>2
  <2>4. \/ known' = [known EXCEPT ![a] = s]
            /\ turn' = [turn EXCEPT ![a] = [[turn[a] EXCEPT !.step = "configure"] EXCEPT !.session = s]]
        \/ known' = known /\ turn' = [turn EXCEPT ![a] = Acp!Idle]
    BY <1>2
  <2>. WITNESS s \in DOMAIN session'
  <2>. QED
    BY <2>2, <2>3, <2>4
<1>. QED
  BY <1>3, <1>8, <1>9

LEMMA SessionOpens ==
  ASSUME Drivable, Acp!AcpInv, NEW a \in AcpAgents, NEW advertises \in BOOLEAN, Acp!OpenSession(a, advertises)
  PROVE  Acp!AcpInv'
<1>1. Acp!TypeOK /\ Acp!SessionsAreOwn /\ Acp!NoOrphan
  BY DEF Acp!AcpInv, Acp!AcpTurnsAreTheirOwn
<1>2. /\ turn[a].step = "open"
      /\ UNCHANGED <<prompts, early, answers, provider, child, acpRuntime, wire>>
  BY DEF Acp!OpenSession
<1>3. PICK s \in DOMAIN session' :
            /\ session' \in Seq(Acp!AcpSessions) /\ DOMAIN session' = (DOMAIN session) \union {s} /\ s \in Nat
            /\ session'[s].use.queue = <<>> /\ \A u \in DOMAIN session : u # s => session'[u] = session[u]
            /\ s \notin DOMAIN session \/ s = known[a]
            /\ \/ known' = [known EXCEPT ![a] = s]
                  /\ turn' = [turn EXCEPT ![a] = [[turn[a] EXCEPT !.step = "configure"] EXCEPT !.session = s]]
               \/ known' = known /\ turn' = [turn EXCEPT ![a] = Acp!Idle]
  BY OpensSo
<1>4. s # None
  BY <1>3 DEF Drivable
<1>. DEFINE t == turn'[a]
<1>5. /\ t \in Acp!Turns /\ turn' = [turn EXCEPT ![a] = t]
      /\ \/ known' = [known EXCEPT ![a] = s] /\ t.step = "configure" /\ t.session = s
            /\ t.override = turn[a].override /\ t.model = turn[a].model
         \/ known' = known /\ t.step = "none"
  <2>1. turn[a] \in Acp!OpenTurns /\ turn \in [AcpAgents -> Acp!Turns]
    BY <1>1, <1>2, AcpTurnIsTyped DEF Acp!TypeOK
  <2>2. CASE known' = [known EXCEPT ![a] = s]
             /\ turn' = [turn EXCEPT ![a] = [[turn[a] EXCEPT !.step = "configure"] EXCEPT !.session = s]]
    <3>. DEFINE u == [[turn[a] EXCEPT !.step = "configure"] EXCEPT !.session = s]
    <3>1. /\ u \in Acp!OpenTurns /\ u.step = "configure" /\ u.session = s
          /\ u.override = turn[a].override /\ u.model = turn[a].model
      BY <1>3, <2>1 DEF Acp!OpenTurns
    <3>2. turn' = [turn EXCEPT ![a] = u]
      BY <2>2
    <3>. HIDE DEF u
    <3>. QED
      BY <2>1, <2>2, <3>1, <3>2 DEF Acp!Turns
  <2>3. CASE known' = known /\ turn' = [turn EXCEPT ![a] = Acp!Idle]
    BY <2>1, <2>3 DEF Acp!Turns, Acp!Idle
  <2>. QED
    BY <1>3, <2>2, <2>3
<1>6. t.step \in {"none", "open", "configure"} /\ turn[a].step \in {"none", "open", "configure"}
  BY <1>2, <1>5
<1>7. /\ turn' \in [AcpAgents -> Acp!Turns]
      /\ \A b \in AcpAgents : b # a => turn'[b] = turn[b]
      /\ \A b \in AcpAgents : Alike(b)
      /\ \A b \in AcpAgents : turn'[b].step = "sent" => turn[b].step = "sent"
  <2>. HIDE DEF t
  <2>. QED
    BY <1>1, <1>5, <1>6, OneTurns
<1>8. Acp!TypeOK'
  <2>1. known' \in [AcpAgents -> DOMAIN session' \union {None}]
    BY <1>1, <1>3 DEF Acp!TypeOK
  <2>. QED
    BY <1>1, <1>2, <1>3, <1>7, <2>1 DEF Acp!TypeOK
<1>9. Acp!SessionsAreOwn'
  <2>1. /\ known'[a] \in {s, known[a]}
        /\ \A b \in AcpAgents : b # a => known'[b] = known[b] /\ known[b] # s
    <3>1. \A b \in AcpAgents : b # a => known[b] # s
      BY <1>1, <1>3, <1>4 DEF Acp!SessionsAreOwn, Acp!TypeOK
    <3>. QED
      BY <1>1, <1>3, <3>1 DEF Acp!TypeOK
  <2>2. \A b, c \in AcpAgents : known'[b] # None /\ known'[b] = known'[c] => b = c
    BY <1>1, <2>1 DEF Acp!SessionsAreOwn
  <2>3. ASSUME NEW b \in AcpAgents, b # a
        PROVE  /\ turn'[b].step = "open" /\ turn'[b].new => known'[b] = None
               /\ turn'[b].step # "none" /\ ~(turn'[b].step = "open" /\ turn'[b].new)
                     => known'[b] # None /\ turn'[b].session = known'[b]
               /\ Acp!Prompted(b)' => turn'[b].prompt \in DOMAIN prompts' \ early'
                                    /\ prompts'[turn'[b].prompt].session = turn'[b].session
               /\ Acp!Opening(b)' /\ turn'[b].override => turn'[b].model # None
    BY <1>1, <1>2, <1>7, <2>1, <2>3 DEF Acp!SessionsAreOwn, Acp!Prompted, Acp!Opening
  <2>4. /\ turn'[a].step # "open" /\ ~ Acp!Prompted(a)'
        /\ turn'[a].step # "none" => known'[a] # None /\ turn'[a].session = known'[a]
        /\ Acp!Opening(a)' /\ turn'[a].override => turn'[a].model # None
    <3>1. turn[a].override => turn[a].model # None
      BY <1>1, <1>2 DEF Acp!SessionsAreOwn, Acp!Opening
    <3>2. known \in [AcpAgents -> DOMAIN session \union {None}]
      BY <1>1 DEF Acp!TypeOK
    <3>. QED
      BY <1>4, <1>5, <3>1, <3>2 DEF Acp!Prompted, Acp!Opening
  <2>. QED
    BY <2>2, <2>3, <2>4 DEF Acp!SessionsAreOwn
<1>10. Acp!NoOrphan'
  BY <1>1, <1>2 DEF Acp!NoOrphan
<1>11. \A b \in AcpAgents : ~(Acp!Prompted(b) /\ turn[b].session = s)
  <2>. SUFFICES ASSUME NEW b \in AcpAgents, Acp!Prompted(b), turn[b].session = s PROVE FALSE
    OBVIOUS
  <2>1. known[b] = s /\ known[b] # None
    BY <1>1 DEF Acp!SessionsAreOwn, Acp!Prompted
  <2>2. s \in DOMAIN session
    BY <1>1, <2>1 DEF Acp!TypeOK
  <2>3. b = a
    BY <1>1, <1>3, <2>1, <2>2 DEF Acp!SessionsAreOwn
  <2>. QED
    BY <1>2, <2>3 DEF Acp!Prompted
<1>12. /\ DOMAIN session \subseteq DOMAIN session'
       /\ \A u \in DOMAIN session' :
            \/ session'[u].use.queue = <<>>
            \/ u \in DOMAIN session /\ session'[u].use = session[u].use
       /\ \A u \in DOMAIN session : \/ session'[u].use = session[u].use \/ ~ session'[u].use.live
                                    \/ \A b \in AcpAgents : ~(Acp!Prompted(b) /\ turn[b].session = u)
  BY <1>3, <1>11
<1>. QED
  BY <1>2, <1>7, <1>8, <1>9, <1>10, <1>12, TurnsStay

LEMMA LongerText ==
  ASSUME NEW x \in Acp!Prompts, NEW n \in Nat
  PROVE  LET y == [x EXCEPT !.text = n] IN
         /\ y \in Acp!Prompts /\ y.session = x.session /\ y.text = n /\ y.ended = x.ended
         /\ y.asked = x.asked /\ y.reported = x.reported
  BY DEF Acp!Prompts

\* What is written is in order, if it is added in order.
LEMMA WireGrows ==
  ASSUME Acp!AcpInv, \A b \in AcpAgents : Alike(b), PromptsAlike, UNCHANGED <<early, session>>,
         wire' \in Seq(Acp!Messages), DOMAIN wire \subseteq DOMAIN wire', \A i \in DOMAIN wire : wire'[i] = wire[i],
         \A i \in DOMAIN wire' \ DOMAIN wire :
            /\ wire'[i].session \in DOMAIN session
            /\ wire'[i].kind # "text" => wire'[i].of \in DOMAIN prompts /\ prompts'[wire'[i].of].ended
            /\ wire'[i].kind = "text" /\ wire'[i].of # 0 =>
                  /\ wire'[i].of \in DOMAIN prompts /\ prompts[wire'[i].of].session = wire'[i].session
                  /\ wire'[i].of \in early \/ \E a \in AcpAgents : Acp!Awaits(a, wire'[i].of)
            /\ wire'[i].kind = "text" =>
                  \A j \in DOMAIN wire' : j < i /\ wire'[j].kind # "text" => wire'[j].of # wire'[i].of
  PROVE  Acp!WireIsOrdered'
<1>1. Acp!TypeOK /\ Acp!WireIsOrdered
  BY DEF Acp!AcpInv
<1>2. \A a \in AcpAgents : \A p : Acp!Awaits(a, p) => Acp!Awaits(a, p)'
  BY DEF Alike, SamePrompt, Acp!Awaits
<1>3. ASSUME NEW i \in DOMAIN wire'
      PROVE  /\ wire'[i].session \in DOMAIN session'
             /\ wire'[i].kind # "text" => wire'[i].of \in DOMAIN prompts' /\ prompts'[wire'[i].of].ended
             /\ wire'[i].kind = "text" /\ wire'[i].of # 0 =>
                   /\ wire'[i].of \in DOMAIN prompts' /\ prompts'[wire'[i].of].session = wire'[i].session
                   /\ wire'[i].of \in early' \/ \E a \in AcpAgents : Acp!Awaits(a, wire[i].of)'
  <2>1. CASE i \in DOMAIN wire
    <3>1. /\ wire[i].session \in DOMAIN session
          /\ wire[i].kind # "text" => wire[i].of \in DOMAIN prompts /\ prompts[wire[i].of].ended
          /\ wire[i].kind = "text" /\ wire[i].of # 0 =>
                /\ wire[i].of \in DOMAIN prompts /\ prompts[wire[i].of].session = wire[i].session
                /\ wire[i].of \in early \/ \E a \in AcpAgents : Acp!Awaits(a, wire[i].of)
      BY <1>1, <2>1 DEF Acp!WireIsOrdered
    <3>. QED
      BY <1>2, <2>1, <3>1 DEF PromptsAlike
  <2>2. CASE i \notin DOMAIN wire
    BY <1>2, <2>2 DEF PromptsAlike
  <2>. QED
    BY <2>1, <2>2
<1>4. ASSUME NEW i \in DOMAIN wire', NEW j \in DOMAIN wire', i < j, wire'[i].kind # "text", wire'[j].kind = "text"
      PROVE  wire'[i].of # wire'[j].of
  <2>1. CASE j \notin DOMAIN wire
    BY <1>4, <2>1
  <2>2. CASE j \in DOMAIN wire
    <3>1. i \in DOMAIN wire
      BY <1>1, <1>4, <2>2 DEF Acp!TypeOK
    <3>. QED
      BY <1>1, <1>4, <2>2, <3>1 DEF Acp!WireIsOrdered
  <2>. QED
    BY <2>1, <2>2
<1>. QED
  BY <1>3, <1>4 DEF Acp!WireIsOrdered

LEMMA CountsAreNumbers ==
  ASSUME Acp!TypeOK, NEW s \in DOMAIN session, NEW p
  PROVE  /\ Acp!Cardinality(Acp!InQueue(session[s].use.queue, p)) \in Nat
         /\ Acp!Cardinality(Acp!OnWire(wire, p)) \in Nat
<1>1. session[s].use.queue \in Seq(Acp!Items) /\ wire \in Seq(Acp!Messages)
  BY AcpSessionIsTyped DEF Acp!TypeOK, Acp!Queue
<1>. QED
  BY <1>1, PartsAreFinite, FS_CardinalityType, AcpCountingIsTheSame

\* What is written of a prompt is on the wire.
LEMMA NothingMissed ==
  ASSUME Acp!AcpInv, UNCHANGED <<turn, session>>,
         \A p \in DOMAIN prompts :
            /\ prompts[p].text \in Nat /\ prompts'[p].text \in Nat
            /\ Acp!Cardinality(Acp!OnWire(wire', p)) \in Nat
            /\ Acp!Cardinality(Acp!OnWire(wire', p)) + prompts[p].text
                  = Acp!Cardinality(Acp!OnWire(wire, p)) + prompts'[p].text
  PROVE  Acp!NothingIsMissing'
<1>1. Acp!TypeOK /\ Acp!SessionsAreOwn /\ Acp!NothingIsMissing
  BY DEF Acp!AcpInv
<1>. SUFFICES ASSUME NEW a \in AcpAgents, turn[a].step = "sent" \/ Acp!TookEnd(a)
     PROVE  LET s == turn[a].session   p == turn[a].prompt IN
            \/ ~ session[s].use.live \/ Len(session[s].use.queue) = MaxQueue
            \/ Acp!Cardinality(Acp!InQueue(session[s].use.queue, p))
                  + Acp!Cardinality(Acp!OnWire(wire', p)) = prompts'[p].text
  BY DEF Acp!NothingIsMissing, Acp!Queue, Acp!TookEnd
<1>. DEFINE s == turn[a].session
            p == turn[a].prompt
<1>2. s \in DOMAIN session /\ p \in DOMAIN prompts
  BY <1>1 DEF Acp!SessionsAreOwn, Acp!TypeOK, Acp!Prompted, Acp!TookEnd
<1>3. \/ ~ session[s].use.live \/ Len(session[s].use.queue) = MaxQueue
      \/ Acp!Cardinality(Acp!InQueue(session[s].use.queue, p)) + Acp!Cardinality(Acp!OnWire(wire, p)) = prompts[p].text
  BY <1>1 DEF Acp!NothingIsMissing, Acp!Queue
<1>. HIDE DEF s, p
<1>4. /\ Acp!Cardinality(Acp!InQueue(session[s].use.queue, p)) \in Nat
      /\ Acp!Cardinality(Acp!OnWire(wire, p)) \in Nat
  BY <1>1, <1>2, CountsAreNumbers
<1>5. PICK k \in Nat, n \in Nat, l \in Nat, old \in Nat, new \in Nat :
         /\ k = Acp!Cardinality(Acp!InQueue(session[s].use.queue, p))
         /\ n = Acp!Cardinality(Acp!OnWire(wire, p)) /\ l = Acp!Cardinality(Acp!OnWire(wire', p))
         /\ old = prompts[p].text /\ new = prompts'[p].text
  BY <1>2, <1>4
<1>6. l + old = n + new
  BY <1>2, <1>5
<1>7. ~ session[s].use.live \/ Len(session[s].use.queue) = MaxQueue \/ k + n = old
  BY <1>3, <1>5
<1>8. k + n = old => k + l = new
  BY <1>5, <1>6
<1>9. ~ session[s].use.live \/ Len(session[s].use.queue) = MaxQueue \/ k + l = new
  BY <1>7, <1>8
<1>. QED
  BY <1>5, <1>9 DEF s, p

LEMMA TextIsWritten ==
  ASSUME Drivable, Acp!AcpInv, NEW p \in DOMAIN prompts, Acp!WriteText(p)
  PROVE  Acp!AcpInv'
<1>1. Acp!TypeOK /\ Acp!SessionsAreOwn /\ Acp!NoOrphan /\ Acp!EndsAreTaken /\ Acp!WireIsOrdered
  BY DEF Acp!AcpInv, Acp!AcpTurnsAreTheirOwn
<1>. DEFINE m == [kind |-> "text", session |-> prompts[p].session, of |-> p]
            x == [prompts[p] EXCEPT !.text = prompts[p].text + 1]
<1>2. /\ ~ prompts[p].ended /\ prompts' = [prompts EXCEPT ![p] = x] /\ wire' = Append(wire, m)
      /\ UNCHANGED <<turn, session, known, early, answers, provider, child, acpRuntime>>
  BY DEF Acp!WriteText
<1>3. prompts[p] \in Acp!Prompts /\ prompts \in Seq(Acp!Prompts) /\ wire \in Seq(Acp!Messages) /\ p \in Nat \ {0}
  BY <1>1 DEF Acp!TypeOK
<1>4. /\ x \in Acp!Prompts /\ x.session = prompts[p].session /\ x.text = prompts[p].text + 1 /\ x.ended = prompts[p].ended
      /\ x.asked = prompts[p].asked /\ x.reported = prompts[p].reported /\ prompts[p].text \in Nat
  <2>1. prompts[p].text \in Nat /\ prompts[p].text + 1 \in Nat
    BY <1>3 DEF Acp!Prompts
  <2>. QED
    BY <1>3, <2>1, LongerText
<1>5. m \in Acp!Messages /\ m.kind = "text" /\ m.session = prompts[p].session /\ m.of = p
  BY <1>3 DEF Acp!Messages, Acp!Prompts, Acp!Kinds
<1>. HIDE DEF m, x
<1>6. /\ prompts' \in Seq(Acp!Prompts) /\ DOMAIN prompts' = DOMAIN prompts /\ prompts'[p] = x
      /\ \A q \in DOMAIN prompts : q # p => prompts'[q] = prompts[q]
  BY <1>2, <1>3, <1>4, ReplacedKeepsType
<1>7. /\ wire' \in Seq(Acp!Messages) /\ DOMAIN wire' = (DOMAIN wire) \union {Len(wire) + 1}
      /\ \A i \in DOMAIN wire : wire'[i] = wire[i]
      /\ wire'[Len(wire) + 1] = m
  BY <1>2, <1>3, <1>5, AppendedIsLast
<1>8. PromptsAlike /\ \A b \in AcpAgents : Alike(b)
  BY <1>2, <1>4, <1>6 DEF PromptsAlike, Alike, SamePrompt, Acp!Prompted, Acp!TookEnd
<1>9. Acp!TypeOK'
  BY <1>1, <1>2, <1>4, <1>6, <1>7 DEF Acp!TypeOK
<1>10. Acp!SessionsAreOwn'
  BY <1>1, <1>2, <1>8, SessionsKeep DEF Alike, Acp!TypeOK
<1>11. Acp!EndsAreTaken' /\ Acp!AnswersAreFinal' /\ Acp!AnswersAreOwn' /\ Acp!OverridesTakeEffect'
  BY <1>2, <1>8, HistoriesKeep
<1>12. Acp!QueuesAreOwn'
  BY <1>2, <1>8, QueuesKeep DEF Alike
<1>13. Acp!WireIsOrdered'
  <2>1. p \in early \/ \E a \in AcpAgents : Acp!Awaits(a, p)
    BY <1>1, <1>2 DEF Acp!EndsAreTaken
  <2>2. \A j \in DOMAIN wire : wire[j].kind # "text" => wire[j].of # p
    BY <1>1, <1>2 DEF Acp!WireIsOrdered
  <2>3. \A j \in DOMAIN wire' : j < Len(wire) + 1 => j \in DOMAIN wire
    BY <1>7
  <2>4. prompts[p].session \in DOMAIN session
    BY <1>1 DEF Acp!TypeOK
  <2>. QED
    BY <1>2, <1>5, <1>7, <1>8, <2>1, <2>2, <2>3, <2>4, WireGrows
<1>14. Acp!NothingIsMissing'
  <2>. SUFFICES ASSUME NEW q \in DOMAIN prompts
       PROVE  /\ prompts[q].text \in Nat /\ prompts'[q].text \in Nat
              /\ Acp!Cardinality(Acp!OnWire(wire', q)) \in Nat
              /\ Acp!Cardinality(Acp!OnWire(wire', q)) + prompts[q].text
                    = Acp!Cardinality(Acp!OnWire(wire, q)) + prompts'[q].text
    BY <1>2, NothingMissed
  <2>1. /\ Acp!Cardinality(Acp!OnWire(wire, q)) \in Nat
        /\ Acp!Cardinality(Acp!OnWire(wire', q)) = Acp!Cardinality(Acp!OnWire(wire, q)) + (IF q = p THEN 1 ELSE 0)
    <3>1. Cardinality(Acp!OnWire(wire', q)) = Cardinality(Acp!OnWire(wire, q)) + (IF IsText(m, q) THEN 1 ELSE 0)
      BY <1>2, <1>3, <1>5, WrittenCounts
    <3>2. Cardinality(Acp!OnWire(wire, q)) \in Nat
      BY <1>3, PartsAreFinite, FS_CardinalityType
    <3>. QED
      BY <1>5, <3>1, <3>2, AcpCountingIsTheSame DEF IsText
  <2>2. prompts[q].text \in Nat /\ prompts'[q].text = prompts[q].text + (IF q = p THEN 1 ELSE 0)
    <3>1. prompts[q] \in Acp!Prompts
      BY <1>3
    <3>2. prompts[q].text \in Nat
      BY <3>1 DEF Acp!Prompts
    <3>. QED
      BY <1>4, <1>6, <3>2
  <2>. QED
    BY <2>1, <2>2
<1>15. Acp!NoOrphan'
  BY <1>1, <1>2 DEF Acp!NoOrphan
<1>. QED
  BY <1>9, <1>10, <1>11, <1>12, <1>13, <1>14, <1>15 DEF Acp!AcpInv, Acp!AcpTurnsAreTheirOwn

LEMMA NoiseIsWritten ==
  ASSUME Drivable, Acp!AcpInv, NEW s \in DOMAIN session, Acp!WriteNoise(s)
  PROVE  Acp!AcpInv'
<1>1. Acp!TypeOK /\ Acp!SessionsAreOwn /\ Acp!NoOrphan /\ Acp!WireIsOrdered
  BY DEF Acp!AcpInv, Acp!AcpTurnsAreTheirOwn
<1>. DEFINE m == [kind |-> "text", session |-> s, of |-> 0]
<1>2. /\ wire' = Append(wire, m)
      /\ UNCHANGED <<turn, prompts, session, known, early, answers, provider, child, acpRuntime>>
  BY DEF Acp!WriteNoise
<1>3. prompts \in Seq(Acp!Prompts) /\ wire \in Seq(Acp!Messages) /\ s \in Nat
  BY <1>1 DEF Acp!TypeOK
<1>4. m \in Acp!Messages /\ m.kind = "text" /\ m.session = s /\ m.of = 0
  BY <1>3 DEF Acp!Messages, Acp!Kinds
<1>. HIDE DEF m
<1>5. /\ wire' \in Seq(Acp!Messages) /\ DOMAIN wire' = (DOMAIN wire) \union {Len(wire) + 1}
      /\ \A i \in DOMAIN wire : wire'[i] = wire[i]
      /\ wire'[Len(wire) + 1] = m
  BY <1>2, <1>3, <1>4, AppendedIsLast
<1>6. PromptsAlike /\ \A b \in AcpAgents : Alike(b)
  BY <1>2 DEF PromptsAlike, Alike, SamePrompt, Acp!Prompted, Acp!TookEnd
<1>7. Acp!TypeOK'
  BY <1>1, <1>2, <1>5 DEF Acp!TypeOK
<1>8. Acp!SessionsAreOwn'
  BY <1>1, <1>2, <1>6, SessionsKeep DEF Alike, Acp!TypeOK
<1>9. Acp!EndsAreTaken' /\ Acp!AnswersAreFinal' /\ Acp!AnswersAreOwn' /\ Acp!OverridesTakeEffect'
  BY <1>2, <1>6, HistoriesKeep
<1>10. Acp!QueuesAreOwn'
  BY <1>2, <1>6, QueuesKeep DEF Alike
<1>11. Acp!WireIsOrdered'
  <2>1. 0 \notin DOMAIN prompts
    BY <1>3
  <2>2. \A j \in DOMAIN wire : wire[j].kind # "text" => wire[j].of # 0
    BY <1>1, <2>1 DEF Acp!WireIsOrdered
  <2>3. \A j \in DOMAIN wire' : j < Len(wire) + 1 => j \in DOMAIN wire
    BY <1>5
  <2>. QED
    BY <1>2, <1>4, <1>5, <1>6, <2>2, <2>3, WireGrows
<1>12. Acp!NothingIsMissing'
  <2>. SUFFICES ASSUME NEW q \in DOMAIN prompts
       PROVE  /\ prompts[q].text \in Nat /\ prompts'[q].text \in Nat
              /\ Acp!Cardinality(Acp!OnWire(wire', q)) \in Nat
              /\ Acp!Cardinality(Acp!OnWire(wire', q)) + prompts[q].text
                    = Acp!Cardinality(Acp!OnWire(wire, q)) + prompts'[q].text
    BY <1>2, NothingMissed
  <2>1. q # 0 /\ prompts[q] \in Acp!Prompts
    BY <1>3
  <2>2. prompts[q].text \in Nat
    BY <2>1 DEF Acp!Prompts
  <2>3. Cardinality(Acp!OnWire(wire', q)) = Cardinality(Acp!OnWire(wire, q)) + (IF IsText(m, q) THEN 1 ELSE 0)
    BY <1>2, <1>3, <1>4, WrittenCounts
  <2>4. Cardinality(Acp!OnWire(wire, q)) \in Nat
    BY <1>3, PartsAreFinite, FS_CardinalityType
  <2>5. /\ Acp!Cardinality(Acp!OnWire(wire, q)) \in Nat
        /\ Acp!Cardinality(Acp!OnWire(wire', q)) = Acp!Cardinality(Acp!OnWire(wire, q))
    BY <1>4, <2>1, <2>3, <2>4, AcpCountingIsTheSame DEF IsText
  <2>. QED
    BY <1>2, <2>2, <2>5
<1>13. Acp!NoOrphan'
  BY <1>1, <1>2 DEF Acp!NoOrphan
<1>. QED
  BY <1>7, <1>8, <1>9, <1>10, <1>11, <1>12, <1>13 DEF Acp!AcpInv, Acp!AcpTurnsAreTheirOwn

\* What a prompt's end adds to the wire.
LEMMA EndsAreWritten ==
  ASSUME Drivable, Acp!TypeOK, NEW p \in DOMAIN prompts, NEW e \in Endings, NEW w \in Seq(Acp!Messages),
         w = [i \in DOMAIN e |-> [kind |-> e[i], session |-> prompts[p].session, of |-> p]],
         wire' = wire \o w
  PROVE  /\ wire' \in Seq(Acp!Messages) /\ DOMAIN wire \subseteq DOMAIN wire'
         /\ \A i \in DOMAIN wire : wire'[i] = wire[i]
         /\ \A i \in DOMAIN wire' \ DOMAIN wire :
               wire'[i].kind # "text" /\ wire'[i].session = prompts[p].session /\ wire'[i].of = p
         /\ \A q : Acp!OnWire(wire', q) = Acp!OnWire(wire, q)
<1>1. wire \in Seq(Acp!Messages) /\ e \in Seq({"response", "named", "bare"})
  BY DEF Acp!TypeOK, Drivable
<1>2. \A i \in DOMAIN w : w[i].kind # "text" /\ w[i].session = prompts[p].session /\ w[i].of = p
  <2>1. \A i \in DOMAIN e : e[i] \in {"response", "named", "bare"}
    BY <1>1
  <2>. QED
    BY <2>1
<1>3. /\ wire' \in Seq(Acp!Messages)
      /\ \A i \in DOMAIN wire : i \in DOMAIN wire' /\ wire'[i] = wire[i]
      /\ \A i \in DOMAIN wire' : i \notin DOMAIN wire => i - Len(wire) \in DOMAIN w /\ wire'[i] = w[i - Len(wire)]
  BY <1>1
<1>4. \A q : Acp!OnWire(wire', q) = Acp!OnWire(wire, q)
  BY <1>1, <1>2, EndsAreNoText
<1>. QED
  BY <1>2, <1>3, <1>4

LEMMA PromptEnds ==
  ASSUME Drivable, Acp!AcpInv, NEW p \in DOMAIN prompts, NEW e \in Endings, Acp!EndPrompt(p, e)
  PROVE  Acp!AcpInv'
<1>1. Acp!TypeOK /\ Acp!SessionsAreOwn /\ Acp!NoOrphan /\ Acp!WireIsOrdered
  BY DEF Acp!AcpInv, Acp!AcpTurnsAreTheirOwn
<1>. DEFINE w == [i \in DOMAIN e |-> [kind |-> e[i], session |-> prompts[p].session, of |-> p]]
            x == [prompts[p] EXCEPT !.ended = TRUE]
<1>2. /\ ~ prompts[p].ended /\ prompts' = [prompts EXCEPT ![p] = x] /\ wire' = wire \o w
      /\ UNCHANGED <<turn, session, known, early, answers, provider, child, acpRuntime>>
  BY DEF Acp!EndPrompt
<1>3. prompts[p] \in Acp!Prompts /\ prompts \in Seq(Acp!Prompts) /\ wire \in Seq(Acp!Messages) /\ p \in Nat \ {0}
  BY <1>1 DEF Acp!TypeOK
<1>4. /\ x \in Acp!Prompts /\ x.session = prompts[p].session /\ x.text = prompts[p].text /\ x.ended = TRUE
      /\ x.asked = prompts[p].asked /\ x.reported = prompts[p].reported
  BY <1>3 DEF Acp!Prompts
<1>5. w \in Seq(Acp!Messages)
  <2>1. e \in Seq({"response", "named", "bare"})
    BY DEF Drivable
  <2>2. DOMAIN e = 1 .. Len(e) /\ Len(e) \in Nat /\ \A i \in DOMAIN e : e[i] \in {"response", "named", "bare"}
    BY <2>1
  <2>3. prompts[p].session \in Nat
    BY <1>3 DEF Acp!Prompts
  <2>4. ASSUME NEW i \in DOMAIN e
        PROVE  [kind |-> e[i], session |-> prompts[p].session, of |-> p] \in Acp!Messages
    BY <1>3, <2>2, <2>3, <2>4 DEF Acp!Messages, Acp!Kinds
  <2>5. w \in [1 .. Len(e) -> Acp!Messages]
    BY <2>2, <2>4
  <2>. QED
    BY <2>2, <2>5
<1>6. /\ wire' \in Seq(Acp!Messages) /\ DOMAIN wire \subseteq DOMAIN wire'
      /\ \A i \in DOMAIN wire : wire'[i] = wire[i]
      /\ \A i \in DOMAIN wire' \ DOMAIN wire :
            wire'[i].kind # "text" /\ wire'[i].session = prompts[p].session /\ wire'[i].of = p
      /\ \A q : Acp!OnWire(wire', q) = Acp!OnWire(wire, q)
  BY <1>1, <1>2, <1>5, EndsAreWritten
<1>. HIDE DEF w, x
<1>7. /\ prompts' \in Seq(Acp!Prompts) /\ DOMAIN prompts' = DOMAIN prompts /\ prompts'[p] = x
      /\ \A q \in DOMAIN prompts : q # p => prompts'[q] = prompts[q]
  BY <1>2, <1>3, <1>4, ReplacedKeepsType
<1>8. PromptsAlike /\ \A b \in AcpAgents : Alike(b)
  BY <1>2, <1>4, <1>7 DEF PromptsAlike, Alike, SamePrompt, Acp!Prompted, Acp!TookEnd
<1>9. Acp!TypeOK'
  BY <1>1, <1>2, <1>4, <1>6, <1>7 DEF Acp!TypeOK
<1>10. Acp!SessionsAreOwn'
  BY <1>1, <1>2, <1>8, SessionsKeep DEF Alike, Acp!TypeOK
<1>11. Acp!EndsAreTaken' /\ Acp!AnswersAreFinal' /\ Acp!AnswersAreOwn' /\ Acp!OverridesTakeEffect'
  BY <1>2, <1>8, HistoriesKeep
<1>12. Acp!QueuesAreOwn'
  BY <1>2, <1>8, QueuesKeep DEF Alike
<1>13. Acp!WireIsOrdered'
  <2>1. prompts[p].session \in DOMAIN session
    BY <1>1 DEF Acp!TypeOK
  <2>. QED
    BY <1>2, <1>4, <1>6, <1>7, <1>8, <2>1, WireGrows
<1>14. Acp!NothingIsMissing'
  <2>. SUFFICES ASSUME NEW q \in DOMAIN prompts
       PROVE  /\ prompts[q].text \in Nat /\ prompts'[q].text \in Nat
              /\ Acp!Cardinality(Acp!OnWire(wire', q)) \in Nat
              /\ Acp!Cardinality(Acp!OnWire(wire', q)) + prompts[q].text
                    = Acp!Cardinality(Acp!OnWire(wire, q)) + prompts'[q].text
    BY <1>2, NothingMissed
  <2>1. prompts[q] \in Acp!Prompts
    BY <1>3
  <2>2. prompts[q].text \in Nat /\ prompts'[q].text = prompts[q].text
    BY <1>4, <1>7, <2>1 DEF Acp!Prompts
  <2>3. Cardinality(Acp!OnWire(wire, q)) \in Nat
    BY <1>3, PartsAreFinite, FS_CardinalityType
  <2>. QED
    BY <1>6, <2>2, <2>3, AcpCountingIsTheSame
<1>15. Acp!NoOrphan'
  BY <1>1, <1>2 DEF Acp!NoOrphan
<1>. QED
  BY <1>9, <1>10, <1>11, <1>12, <1>13, <1>14, <1>15 DEF Acp!AcpInv, Acp!AcpTurnsAreTheirOwn

LEMMA AcpReadSo ==
  ASSUME Acp!TypeOK, wire # <<>>, wire' = Tail(wire)
  PROVE  /\ wire' \in Seq(Acp!Messages) /\ 1 \in DOMAIN wire /\ wire[1] = Head(wire) /\ Head(wire) \in Acp!Messages
         /\ \A i \in DOMAIN wire' : i \in Nat \ {0} /\ i + 1 \in DOMAIN wire /\ wire'[i] = wire[i + 1]
<1>1. wire \in Seq(Acp!Messages)
  BY DEF Acp!TypeOK
<1>. QED
  BY <1>1

\* What is left on the wire is in order when its first message is read.
LEMMA WireShrinks ==
  ASSUME Acp!AcpInv, wire # <<>>, wire' = Tail(wire), UNCHANGED <<prompts, early>>, DOMAIN session' = DOMAIN session,
         \A b \in AcpAgents : \A r : Acp!Awaits(b, r) /\ ~(Head(wire).kind # "text" /\ r = Head(wire).of) => Acp!Awaits(b, r)'
  PROVE  Acp!WireIsOrdered'
<1>1. Acp!TypeOK /\ Acp!WireIsOrdered
  BY DEF Acp!AcpInv
<1>2. /\ 1 \in DOMAIN wire /\ wire[1] = Head(wire)
      /\ \A i \in DOMAIN wire' : i \in Nat \ {0} /\ i + 1 \in DOMAIN wire /\ wire'[i] = wire[i + 1]
  BY <1>1, AcpReadSo
<1>3. ASSUME NEW i \in DOMAIN wire'
      PROVE  /\ wire'[i].session \in DOMAIN session'
             /\ wire'[i].kind # "text" => wire'[i].of \in DOMAIN prompts' /\ prompts'[wire'[i].of].ended
             /\ wire'[i].kind = "text" /\ wire'[i].of # 0 =>
                   /\ wire'[i].of \in DOMAIN prompts' /\ prompts'[wire'[i].of].session = wire'[i].session
                   /\ wire'[i].of \in early' \/ \E a \in AcpAgents : Acp!Awaits(a, wire[i].of)'
  <2>. DEFINE j == i + 1
  <2>1. j \in DOMAIN wire /\ wire'[i] = wire[j] /\ 1 < j
    BY <1>2, <1>3
  <2>2. /\ wire[j].session \in DOMAIN session
        /\ wire[j].kind # "text" => wire[j].of \in DOMAIN prompts /\ prompts[wire[j].of].ended
        /\ wire[j].kind = "text" /\ wire[j].of # 0 =>
              /\ wire[j].of \in DOMAIN prompts /\ prompts[wire[j].of].session = wire[j].session
              /\ wire[j].of \in early \/ \E a \in AcpAgents : Acp!Awaits(a, wire[j].of)
    BY <1>1, <2>1 DEF Acp!WireIsOrdered
  <2>3. wire[j].kind = "text" /\ Head(wire).kind # "text" => wire[j].of # Head(wire).of
    BY <1>1, <1>2, <2>1 DEF Acp!WireIsOrdered
  <2>. HIDE DEF j
  <2>. DEFINE r == wire[j].of
  <2>4. \A a \in AcpAgents : wire[j].kind = "text" /\ Acp!Awaits(a, r) => Acp!Awaits(a, wire[i].of)'
    <3>1. r = wire'[i].of
      BY <2>1
    <3>2. ASSUME NEW a \in AcpAgents, wire[j].kind = "text", Acp!Awaits(a, r) PROVE Acp!Awaits(a, wire[i].of)'
      <4>1. turn'[a].prompt = r /\ Acp!Prompted(a)' /\ ~ Acp!TookEnd(a)'
        BY <2>3, <3>2 DEF Acp!Awaits
      <4>. QED
        BY <3>1, <4>1 DEF Acp!Awaits
    <3>. QED
      BY <3>2
  <2>. QED
    BY <2>1, <2>2, <2>4
<1>4. ASSUME NEW i \in DOMAIN wire', NEW j \in DOMAIN wire', i < j, wire'[i].kind # "text", wire'[j].kind = "text"
      PROVE  wire'[i].of # wire'[j].of
  <2>1. /\ i + 1 \in DOMAIN wire /\ j + 1 \in DOMAIN wire /\ i + 1 < j + 1
        /\ wire'[i] = wire[i + 1] /\ wire'[j] = wire[j + 1]
    BY <1>2, <1>4
  <2>. QED
    BY <1>1, <1>4, <2>1 DEF Acp!WireIsOrdered
<1>. QED
  BY <1>3, <1>4 DEF Acp!WireIsOrdered

\* The turns when a prompt is settled.
LEMMA SettlesSo ==
  ASSUME Acp!TypeOK, NEW r, NEW by \in {"response", "completion", "other"}, Acp!Settle(r, by)
  PROVE  /\ turn' \in [AcpAgents -> Acp!Turns] /\ \A b \in AcpAgents : SamePrompt(b)
         /\ \A b \in AcpAgents :
               \/ turn'[b] = turn[b]
               \/ /\ turn[b].step = "sent" /\ turn[b].prompt = r
                  /\ turn'[b].step = "settled" /\ turn'[b].by = by
<1>1. ASSUME NEW b \in AcpAgents
      PROVE  /\ turn'[b] \in Acp!Turns /\ SamePrompt(b)
             /\ \/ turn'[b] = turn[b]
                \/ /\ turn[b].step = "sent" /\ turn[b].prompt = r
                   /\ turn'[b].step = "settled" /\ turn'[b].by = by
  <2>1. CASE turn[b].step = "sent" /\ turn[b].prompt = r
    <3>1. turn'[b] = Acp!Ended(turn[b], by) /\ turn[b] \in Acp!SentTurns
      BY <2>1, AcpTurnIsTyped DEF Acp!Settle
    <3>2. /\ turn'[b] \in Acp!SettledTurns /\ turn'[b].step = "settled" /\ turn'[b].by = by
          /\ turn'[b].session = turn[b].session /\ turn'[b].prompt = turn[b].prompt
      BY <3>1 DEF Acp!Ended, Acp!SentTurns, Acp!SettledTurns
    <3>. QED
      BY <2>1, <3>2 DEF Acp!Turns, SamePrompt, Acp!Prompted
  <2>2. CASE ~(turn[b].step = "sent" /\ turn[b].prompt = r)
    <3>1. turn'[b] = turn[b] /\ turn[b] \in Acp!Turns
      BY <2>2, AcpTurnIsTyped DEF Acp!Settle
    <3>. QED
      BY <3>1 DEF SamePrompt, Acp!Prompted
  <2>. QED
    BY <2>1, <2>2
<1>2. turn' \in [AcpAgents -> Acp!Turns]
  BY <1>1 DEF Acp!Settle
<1>. QED
  BY <1>1, <1>2

\* An end on the wire is read: it settles the turn of its own prompt, or another by what is not its end, or none.
LEMMA EndIsRead ==
  ASSUME Drivable, Acp!AcpInv, wire # <<>>, wire' = Tail(wire), Head(wire).kind # "text",
         UNCHANGED <<session, provider, child, acpRuntime, known, prompts, early, answers>>,
         \/ turn' = turn
         \/ \E r : \E by \in {"response", "completion", "other"} :
               Acp!Settle(r, by) /\ (by = "other" \/ r = Head(wire).of)
  PROVE  Acp!AcpInv'
<1>1. /\ Acp!TypeOK /\ Acp!SessionsAreOwn /\ Acp!EndsAreTaken /\ Acp!WireIsOrdered /\ Acp!QueuesAreOwn
      /\ Acp!NothingIsMissing /\ Acp!AnswersAreFinal /\ Acp!AnswersAreOwn /\ Acp!OverridesTakeEffect /\ Acp!NoOrphan
  BY DEF Acp!AcpInv, Acp!AcpTurnsAreTheirOwn
<1>. DEFINE m == Head(wire)
<1>2. /\ wire' \in Seq(Acp!Messages) /\ 1 \in DOMAIN wire /\ wire[1] = m /\ m \in Acp!Messages
  BY <1>1, AcpReadSo
<1>3. m.of \in DOMAIN prompts /\ prompts[m.of].ended
  BY <1>1, <1>2 DEF Acp!WireIsOrdered
<1>. HIDE DEF m
<1>4. /\ turn' \in [AcpAgents -> Acp!Turns] /\ \A b \in AcpAgents : SamePrompt(b)
      /\ \A b \in AcpAgents :
            \/ turn'[b] = turn[b]
            \/ /\ turn[b].step = "sent" /\ turn'[b].step = "settled"
               /\ Acp!TookEnd(b)' => turn[b].prompt = m.of
  <2>1. CASE turn' = turn
    BY <1>1, <2>1 DEF Acp!TypeOK, SamePrompt, Acp!Prompted
  <2>2. ASSUME NEW r, NEW by \in {"response", "completion", "other"}, Acp!Settle(r, by), by = "other" \/ r = m.of
        PROVE  /\ turn' \in [AcpAgents -> Acp!Turns] /\ \A b \in AcpAgents : SamePrompt(b)
               /\ \A b \in AcpAgents :
                     \/ turn'[b] = turn[b]
                     \/ /\ turn[b].step = "sent" /\ turn'[b].step = "settled"
                        /\ Acp!TookEnd(b)' => turn[b].prompt = m.of
    <3>1. /\ turn' \in [AcpAgents -> Acp!Turns] /\ \A b \in AcpAgents : SamePrompt(b)
          /\ \A b \in AcpAgents :
                \/ turn'[b] = turn[b]
                \/ /\ turn[b].step = "sent" /\ turn[b].prompt = r
                   /\ turn'[b].step = "settled" /\ turn'[b].by = by
      BY <1>1, <2>2, SettlesSo
    <3>. QED
      BY <2>2, <3>1 DEF Acp!TookEnd
  <2>. QED
    BY <2>1, <2>2 DEF m
<1>5. \A b \in AcpAgents : \/ Acp!TookEnd(b)' <=> Acp!TookEnd(b)
                           \/ Acp!TookEnd(b)' /\ turn[b].step = "sent" /\ turn[b].prompt = m.of
  BY <1>4 DEF Acp!TookEnd
<1>6. PromptsAlike
  BY DEF PromptsAlike
<1>7. Acp!TypeOK'
  BY <1>1, <1>2, <1>4 DEF Acp!TypeOK
<1>8. Acp!SessionsAreOwn'
  <2>1. \A b \in AcpAgents : turn'[b] = turn[b] \/ turn'[b].step \in {"none", "settled"}
    BY <1>4
  <2>. QED
    BY <1>4, <1>6, <2>1, SessionsKeep
<1>9. Acp!EndsAreTaken'
  <2>1. ASSUME NEW a \in AcpAgents, Acp!TookEnd(a)' PROVE prompts'[turn'[a].prompt].ended
    <3>1. Acp!Prompted(a)' /\ turn'[a].prompt = turn[a].prompt
      BY <1>4, <2>1 DEF SamePrompt, Acp!TookEnd, Acp!Prompted
    <3>2. CASE Acp!TookEnd(a)
      BY <1>1, <3>1, <3>2 DEF Acp!EndsAreTaken
    <3>3. CASE turn[a].prompt = m.of
      BY <1>3, <3>1, <3>3
    <3>. QED
      BY <1>5, <2>1, <3>2, <3>3
  <2>2. ASSUME NEW p \in DOMAIN prompts
        PROVE  prompts[p].ended \/ p \in early \/ \E a \in AcpAgents : Acp!Awaits(a, p)'
    <3>1. CASE \E a \in AcpAgents : Acp!Awaits(a, p)
      <4>1. PICK a \in AcpAgents : Acp!Awaits(a, p)
        BY <3>1
      <4>2. Acp!Awaits(a, p)' \/ p = m.of
        BY <1>4, <1>5, <4>1 DEF Acp!Awaits, SamePrompt
      <4>. QED
        BY <1>3, <4>2
    <3>. QED
      BY <1>1, <3>1 DEF Acp!EndsAreTaken
  <2>. QED
    BY <2>1, <2>2 DEF Acp!EndsAreTaken
<1>10. Acp!AnswersAreFinal' /\ Acp!AnswersAreOwn' /\ Acp!OverridesTakeEffect'
  BY <1>1 DEF Acp!AnswersAreFinal, Acp!AnswersAreOwn, Acp!OverridesTakeEffect
<1>11. Acp!QueuesAreOwn'
  BY <1>4, <1>6, QueuesKeep
<1>12. Acp!WireIsOrdered'
  <2>1. \A b \in AcpAgents : \A r : Acp!Awaits(b, r) /\ r # m.of => Acp!Awaits(b, r)'
    BY <1>4, <1>5 DEF Acp!Awaits, SamePrompt
  <2>. QED
    BY <2>1, WireShrinks DEF m
<1>13. Acp!NothingIsMissing'
  <2>. SUFFICES ASSUME NEW a \in AcpAgents, turn'[a].step = "sent" \/ Acp!TookEnd(a)'
       PROVE  LET s == turn'[a].session   p == turn'[a].prompt IN
              \/ ~ session[s].use.live \/ Len(session[s].use.queue) = MaxQueue
              \/ Acp!Cardinality(Acp!InQueue(session[s].use.queue, p))
                    + Acp!Cardinality(Acp!OnWire(wire', p)) = prompts[p].text
    BY DEF Acp!NothingIsMissing, Acp!Queue
  <2>1. turn[a].step = "sent" \/ Acp!TookEnd(a)
    BY <1>4, <1>5
  <2>. DEFINE s == turn[a].session
              p == turn[a].prompt
  <2>2. turn'[a].session = s /\ turn'[a].prompt = p
    BY <1>4, <2>1 DEF SamePrompt, Acp!Prompted, Acp!TookEnd
  <2>3. \/ ~ session[s].use.live \/ Len(session[s].use.queue) = MaxQueue
        \/ Acp!Cardinality(Acp!InQueue(session[s].use.queue, p)) + Acp!Cardinality(Acp!OnWire(wire, p)) = prompts[p].text
    BY <1>1, <2>1 DEF Acp!NothingIsMissing, Acp!Queue
  <2>. HIDE DEF s, p
  <2>4. Acp!Cardinality(Acp!OnWire(wire', p)) = Acp!Cardinality(Acp!OnWire(wire, p))
    <3>1. wire \in Seq(Acp!Messages) /\ ~ IsText(Head(wire), p)
      BY <1>1 DEF Acp!TypeOK, IsText
    <3>2. Cardinality(Acp!OnWire(wire, p)) = Cardinality(Acp!OnWire(wire', p)) + 0
      BY <3>1, ReadCounts
    <3>3. Cardinality(Acp!OnWire(wire', p)) \in Nat
      BY <1>2, PartsAreFinite, FS_CardinalityType
    <3>. QED
      BY <3>2, <3>3, AcpCountingIsTheSame
  <2>. QED
    BY <2>2, <2>3, <2>4
<1>14. Acp!NoOrphan'
  BY <1>1 DEF Acp!NoOrphan
<1>. QED
  BY <1>7, <1>8, <1>9, <1>10, <1>11, <1>12, <1>13, <1>14 DEF Acp!AcpInv, Acp!AcpTurnsAreTheirOwn

\* What a queue holds when an item is added.
LEMMA EnqueuedSo ==
  ASSUME Drivable, NEW q \in Seq(Acp!Items), Len(q) <= MaxQueue, NEW e \in Acp!Items
  PROVE  LET l == Acp!Enqueue(q, e) IN
         /\ l \in Seq(Acp!Items) /\ Len(l) <= MaxQueue
         /\ \A i \in DOMAIN l : l[i] = e \/ \E j \in DOMAIN q : l[i] = q[j]
         /\ Len(l) = MaxQueue \/ (l = Append(q, e) /\ Len(q) # MaxQueue)
<1>1. MaxQueue \in Nat \ {0} /\ Len(q) \in Nat
  BY DEF Drivable
<1>2. CASE Len(q) >= MaxQueue
  <2>. DEFINE k == Tail(q)
  <2>1. /\ q # <<>> /\ k \in Seq(Acp!Items) /\ Len(k) = MaxQueue - 1
        /\ \A i \in DOMAIN k : i + 1 \in DOMAIN q /\ k[i] = q[i + 1]
    BY <1>1, <1>2
  <2>2. Acp!Enqueue(q, e) = Append(k, e)
    BY <1>2 DEF Acp!Enqueue
  <2>. HIDE DEF k
  <2>3. /\ Append(k, e) \in Seq(Acp!Items) /\ Len(Append(k, e)) = MaxQueue
        /\ \A i \in DOMAIN Append(k, e) : Append(k, e)[i] = e \/ (i \in DOMAIN k /\ Append(k, e)[i] = k[i])
    BY <1>1, <2>1
  <2>. QED
    BY <1>1, <2>1, <2>2, <2>3
<1>3. CASE ~(Len(q) >= MaxQueue)
  <2>1. Acp!Enqueue(q, e) = Append(q, e)
    BY <1>3 DEF Acp!Enqueue
  <2>2. /\ Append(q, e) \in Seq(Acp!Items) /\ Len(Append(q, e)) <= MaxQueue
        /\ \A i \in DOMAIN Append(q, e) : Append(q, e)[i] = e \/ (i \in DOMAIN q /\ Append(q, e)[i] = q[i])
    BY <1>1, <1>3
  <2>. QED
    BY <1>1, <1>3, <2>1, <2>2
<1>. QED
  BY <1>2, <1>3

\* A session whose queue, and what it uses, are replaced.
LEMMA AnotherQueue ==
  ASSUME NEW x \in Acp!AcpSessions, NEW q \in Seq(Acp!Items), NEW m \in Models
  PROVE  LET u == [x.use EXCEPT !.queue = q]   y == [uses |-> m, use |-> u] IN
         /\ y \in Acp!AcpSessions /\ y.use = u /\ y.use.queue = q /\ y.use.live = x.use.live
<1>. DEFINE u == [x.use EXCEPT !.queue = q]
<1>1. x.use \in Acp!Uses
  BY DEF Acp!AcpSessions
<1>2. u \in Acp!Uses /\ u.queue = q /\ u.live = x.use.live
  BY <1>1 DEF Acp!Uses
<1>. HIDE DEF u
<1>. DEFINE y == [uses |-> m, use |-> u]
<1>3. y \in Acp!AcpSessions /\ y.use = u
  BY <1>2 DEF Acp!AcpSessions
<1>. HIDE DEF y
<1>4. y \in Acp!AcpSessions /\ y.use = u /\ y.use.queue = q /\ y.use.live = x.use.live
  BY <1>2, <1>3
<1>. QED
  BY <1>4 DEF y, u

LEMMA UseReplaced ==
  ASSUME NEW x \in Acp!AcpSessions, NEW u
  PROVE  [x EXCEPT !.use = u] = [uses |-> x.uses, use |-> u]
BY DEF Acp!AcpSessions

\* The text that is read goes to the queue of its session.
LEMMA TextQueues ==
  ASSUME Drivable, Acp!TypeOK, Acp!QueuesAreOwn, NEW s \in DOMAIN session, NEW e \in Acp!Items,
         session' = IF session[s].use.live
                    THEN [session EXCEPT ![s].use.queue = Acp!Enqueue(session[s].use.queue, e)] ELSE session
  PROVE  /\ session' \in Seq(Acp!AcpSessions) /\ DOMAIN session' = DOMAIN session
         /\ \A u \in DOMAIN session : u # s => session'[u] = session[u]
         /\ session'[s].use.live = session[s].use.live
         /\ ~ session[s].use.live => session'[s] = session[s]
         /\ session[s].use.live => session'[s].use.queue = Acp!Enqueue(Acp!Queue(s), e)
<1>1. session[s] \in Acp!AcpSessions /\ session \in Seq(Acp!AcpSessions) /\ Acp!Queue(s) \in Seq(Acp!Items)
  BY AcpSessionIsTyped DEF Acp!TypeOK
<1>2. CASE ~ session[s].use.live
  BY <1>1, <1>2
<1>3. CASE session[s].use.live
  <2>. DEFINE q == Acp!Enqueue(Acp!Queue(s), e)
              x == [uses |-> session[s].uses, use |-> [session[s].use EXCEPT !.queue = q]]
  <2>1. q \in Seq(Acp!Items)
    BY <1>1, EnqueuedSo DEF Acp!QueuesAreOwn
  <2>2. session' = [session EXCEPT ![s] = x]
    <3>1. session' = [session EXCEPT ![s] = [session[s] EXCEPT !.use = [session[s].use EXCEPT !.queue = q]]]
      BY <1>3 DEF Acp!Queue
    <3>2. [session[s] EXCEPT !.use = [session[s].use EXCEPT !.queue = q]] = x
      BY <1>1, UseReplaced
    <3>. QED
      BY <3>1, <3>2
  <2>. HIDE DEF q
  <2>3. session[s].uses \in Models
    BY <1>1 DEF Acp!AcpSessions
  <2>4. x \in Acp!AcpSessions /\ x.use.queue = q /\ x.use.live = session[s].use.live
    BY <1>1, <2>1, <2>3, AnotherQueue
  <2>. HIDE DEF x
  <2>. DEFINE r == [session EXCEPT ![s] = x]
  <2>5. r \in Seq(Acp!AcpSessions) /\ DOMAIN r = DOMAIN session
    BY <1>1, <2>4, ReplacedKeepsType
  <2>6. r[s] = x /\ \A u \in DOMAIN session : u # s => r[u] = session[u]
    OBVIOUS
  <2>7. session' = r
    BY <2>2
  <2>. HIDE DEF r
  <2>. QED
    BY <1>3, <2>4, <2>5, <2>6, <2>7 DEF q
<1>. QED
  BY <1>2, <1>3

\* What a queue of a session may hold.
OwnItem(x, s) ==
  /\ x.of # 0 => /\ x.of \in DOMAIN prompts /\ prompts[x.of].session = s
                 /\ x.of \in early \/ \E a \in AcpAgents : (Acp!Prompted(a) /\ turn[a].prompt = x.of)
  /\ \A a \in AcpAgents : Acp!Prompted(a) /\ turn[a].session = s => x.after >= turn[a].prompt

LEMMA TextIsRead ==
  ASSUME Drivable, Acp!AcpInv, wire # <<>>, wire' = Tail(wire), Head(wire).kind = "text",
         UNCHANGED <<turn, provider, child, acpRuntime, known, prompts, early, answers>>,
         session' = IF session[Head(wire).session].use.live
                    THEN [session EXCEPT ![Head(wire).session].use.queue =
                            Acp!Enqueue(session[Head(wire).session].use.queue,
                                      [of |-> Head(wire).of, after |-> Len(prompts)])]
                    ELSE session
  PROVE  Acp!AcpInv'
<1>1. /\ Acp!TypeOK /\ Acp!SessionsAreOwn /\ Acp!EndsAreTaken /\ Acp!WireIsOrdered /\ Acp!QueuesAreOwn
      /\ Acp!NothingIsMissing /\ Acp!AnswersAreFinal /\ Acp!AnswersAreOwn /\ Acp!OverridesTakeEffect /\ Acp!NoOrphan
  BY DEF Acp!AcpInv, Acp!AcpTurnsAreTheirOwn
<1>. DEFINE m == Head(wire)
            n == m.session
            e == [of |-> m.of, after |-> Len(prompts)]
<1>2. /\ wire' \in Seq(Acp!Messages) /\ 1 \in DOMAIN wire /\ wire[1] = m /\ m \in Acp!Messages
  BY <1>1, AcpReadSo
<1>3. /\ n \in DOMAIN session /\ m.of \in Nat
      /\ m.of # 0 => /\ m.of \in DOMAIN prompts /\ prompts[m.of].session = n
                     /\ m.of \in early \/ \E a \in AcpAgents : Acp!Awaits(a, m.of)
  <2>1. m.of \in Nat
    BY <1>2 DEF Acp!Messages
  <2>. QED
    BY <1>1, <1>2, <2>1 DEF Acp!WireIsOrdered
<1>4. /\ e \in Acp!Items /\ e.of = m.of /\ e.after = Len(prompts)
  BY <1>1, <1>3 DEF Acp!Items, Acp!TypeOK
<1>5. session' = IF session[n].use.live
                 THEN [session EXCEPT ![n].use.queue = Acp!Enqueue(session[n].use.queue, e)] ELSE session
  OBVIOUS
<1>. HIDE DEF e, n, m
<1>6. /\ session' \in Seq(Acp!AcpSessions) /\ DOMAIN session' = DOMAIN session
      /\ \A u \in DOMAIN session : u # n => session'[u] = session[u]
      /\ session'[n].use.live = session[n].use.live
      /\ ~ session[n].use.live => session'[n] = session[n]
      /\ session[n].use.live => session'[n].use.queue = Acp!Enqueue(Acp!Queue(n), e)
  BY <1>1, <1>3, <1>4, <1>5, TextQueues
<1>7. LET l == Acp!Enqueue(Acp!Queue(n), e) IN
      /\ l \in Seq(Acp!Items) /\ Len(l) <= MaxQueue
      /\ \A i \in DOMAIN l : l[i] = e \/ \E j \in DOMAIN Acp!Queue(n) : l[i] = Acp!Queue(n)[j]
      /\ Len(l) = MaxQueue \/ (l = Append(Acp!Queue(n), e) /\ Len(Acp!Queue(n)) # MaxQueue)
  BY <1>1, <1>3, <1>4, EnqueuedSo, AcpSessionIsTyped DEF Acp!QueuesAreOwn
<1>8. Acp!TypeOK'
  BY <1>1, <1>2, <1>6 DEF Acp!TypeOK
<1>9. Acp!SessionsAreOwn'
  BY <1>1 DEF Acp!SessionsAreOwn, Acp!Prompted, Acp!Opening
<1>10. /\ Acp!EndsAreTaken' /\ Acp!AnswersAreFinal' /\ Acp!AnswersAreOwn' /\ Acp!OverridesTakeEffect' /\ Acp!NoOrphan'
  BY <1>1 DEF Acp!EndsAreTaken, Acp!TookEnd, Acp!Awaits, Acp!Prompted, Acp!AnswersAreFinal, Acp!AnswersAreOwn,
              Acp!OverridesTakeEffect, Acp!NoOrphan
<1>11. Acp!WireIsOrdered'
  <2>1. \A b \in AcpAgents : \A r : Acp!Awaits(b, r) => Acp!Awaits(b, r)'
    BY DEF Acp!Awaits, Acp!Prompted, Acp!TookEnd
  <2>. QED
    BY <1>6, <2>1, WireShrinks
<1>12. Acp!QueuesAreOwn'
  <2>1. \A s \in DOMAIN session : /\ Len(Acp!Queue(s)) <= MaxQueue /\ (session[s].use.live \/ Acp!Queue(s) = <<>>)
                                  /\ \A i \in DOMAIN Acp!Queue(s) : OwnItem(Acp!Queue(s)[i], s)
    BY <1>1 DEF Acp!QueuesAreOwn, OwnItem
  <2>2. OwnItem(e, n)
    <3>1. m.of # 0 => /\ m.of \in DOMAIN prompts /\ prompts[m.of].session = n
                      /\ m.of \in early \/ \E a \in AcpAgents : (Acp!Prompted(a) /\ turn[a].prompt = m.of)
      BY <1>3 DEF Acp!Awaits
    <3>2. ASSUME NEW a \in AcpAgents, Acp!Prompted(a) PROVE Len(prompts) >= turn[a].prompt
      <4>1. turn[a].prompt \in DOMAIN prompts /\ prompts \in Seq(Acp!Prompts)
        BY <1>1, <3>2 DEF Acp!SessionsAreOwn, Acp!TypeOK
      <4>. QED
        BY <4>1
    <3>. QED
      BY <1>4, <3>1, <3>2 DEF OwnItem
  <2>3. ASSUME NEW s \in DOMAIN session
        PROVE  /\ Len(session'[s].use.queue) <= MaxQueue /\ (session'[s].use.live \/ session'[s].use.queue = <<>>)
               /\ \A i \in DOMAIN session'[s].use.queue : OwnItem(session'[s].use.queue[i], s)
    <3>1. CASE s # n \/ ~ session[n].use.live
      <4>1. session'[s] = session[s]
        BY <1>6, <2>3, <3>1
      <4>. QED
        BY <2>1, <4>1 DEF Acp!Queue
    <3>2. CASE s = n /\ session[n].use.live
      <4>. DEFINE l == Acp!Enqueue(Acp!Queue(n), e)
      <4>1. session'[s].use.queue = l /\ session'[s].use.live
        BY <1>6, <3>2
      <4>2. \A i \in DOMAIN l : OwnItem(l[i], s)
        BY <1>7, <2>1, <2>2, <3>2
      <4>3. Len(l) <= MaxQueue
        BY <1>7
      <4>. HIDE DEF l
      <4>. QED
        BY <4>1, <4>2, <4>3
    <3>. QED
      BY <3>1, <3>2
  <2>4. \A s \in DOMAIN session' : Acp!Queue(s)' = session'[s].use.queue
    BY DEF Acp!Queue
  <2>5. ASSUME NEW s \in DOMAIN session'
        PROVE  /\ Len(Acp!Queue(s)') <= MaxQueue
               /\ ~ session'[s].use.live => Acp!Queue(s)' = <<>>
               /\ \A i \in DOMAIN Acp!Queue(s)' :
                    LET q == Acp!Queue(s)'[i].of IN
                    /\ q # 0 => /\ q \in DOMAIN prompts' /\ prompts'[q].session = s
                                /\ q \in early' \/ \E a \in AcpAgents : (Acp!Prompted(a)' /\ turn'[a].prompt = q)
                    /\ \A a \in AcpAgents :
                          Acp!Prompted(a)' /\ turn'[a].session = s => Acp!Queue(s)'[i].after >= turn'[a].prompt
    <3>1. /\ Len(Acp!Queue(s)') <= MaxQueue /\ (session'[s].use.live \/ Acp!Queue(s)' = <<>>)
          /\ \A i \in DOMAIN Acp!Queue(s)' : OwnItem(Acp!Queue(s)'[i], s)
      BY <1>6, <2>3, <2>4
    <3>2. \A a \in AcpAgents : (Acp!Prompted(a)' <=> Acp!Prompted(a)) /\ turn'[a] = turn[a]
      BY DEF Acp!Prompted
    <3>. QED
      BY <3>1, <3>2 DEF OwnItem
  <2>. QED
    BY <2>5 DEF Acp!QueuesAreOwn
<1>13. Acp!NothingIsMissing'
  <2>. SUFFICES ASSUME NEW a \in AcpAgents, turn[a].step = "sent" \/ Acp!TookEnd(a)
       PROVE  LET s == turn[a].session   p == turn[a].prompt IN
              \/ ~ session'[s].use.live \/ Len(session'[s].use.queue) = MaxQueue
              \/ Acp!Cardinality(Acp!InQueue(session'[s].use.queue, p))
                    + Acp!Cardinality(Acp!OnWire(wire', p)) = prompts[p].text
    BY DEF Acp!NothingIsMissing, Acp!Queue, Acp!TookEnd
  <2>. DEFINE s == turn[a].session
              p == turn[a].prompt
  <2>1. s \in DOMAIN session /\ p \in DOMAIN prompts /\ prompts[p].session = s
    BY <1>1 DEF Acp!SessionsAreOwn, Acp!TypeOK, Acp!Prompted, Acp!TookEnd
  <2>2. \/ ~ session[s].use.live \/ Len(Acp!Queue(s)) = MaxQueue
        \/ Acp!Cardinality(Acp!InQueue(Acp!Queue(s), p)) + Acp!Cardinality(Acp!OnWire(wire, p)) = prompts[p].text
    BY <1>1 DEF Acp!NothingIsMissing
  <2>3. p \in Nat \ {0} /\ wire \in Seq(Acp!Messages)
    BY <1>1, <2>1 DEF Acp!TypeOK
  <2>. HIDE DEF s, p
  <2>4. /\ Cardinality(Acp!OnWire(wire, p)) = Cardinality(Acp!OnWire(wire', p)) + (IF m.of = p THEN 1 ELSE 0)
        /\ Cardinality(Acp!OnWire(wire', p)) \in Nat
    <3>1. IsText(Head(wire), p) <=> m.of = p
      BY DEF m, IsText
    <3>. QED
      BY <1>2, <2>3, <3>1, ReadCounts, PartsAreFinite, FS_CardinalityType
  <2>5. CASE s # n \/ ~ session[n].use.live
    <3>1. session'[s] = session[s]
      BY <1>6, <2>1, <2>5
    <3>2. session[s].use.live => m.of # p
      BY <1>3, <2>1, <2>3, <2>5
    <3>3. session[s].use.live => Acp!Cardinality(Acp!OnWire(wire', p)) = Acp!Cardinality(Acp!OnWire(wire, p))
      BY <2>4, <3>2, AcpCountingIsTheSame
    <3>. QED
      BY <2>2, <3>1, <3>3 DEF Acp!Queue, s, p
  <2>6. CASE s = n /\ session[n].use.live
    <3>. DEFINE l == session'[s].use.queue
    <3>1. l = Acp!Enqueue(Acp!Queue(s), e)
      BY <1>6, <2>6
    <3>2. CASE Len(l) = MaxQueue
      BY <3>2 DEF s
    <3>3. CASE l = Append(Acp!Queue(s), e) /\ Len(Acp!Queue(s)) # MaxQueue
      <4>. DEFINE k == Acp!Cardinality(Acp!InQueue(Acp!Queue(s), p))
                  w == Acp!Cardinality(Acp!OnWire(wire, p))
                  x == Acp!Cardinality(Acp!OnWire(wire', p))
                  y == Acp!Cardinality(Acp!InQueue(l, p))
                  z == IF m.of = p THEN 1 ELSE 0
      <4>1. k + w = prompts[p].text
        BY <2>2, <2>6, <3>3
      <4>2. k \in Nat /\ y = k + z
        <5>1. Acp!Queue(s) \in Seq(Acp!Items)
          BY <1>1, <2>1, AcpSessionIsTyped
        <5>2. /\ Cardinality(Acp!InQueue(Acp!Queue(s), p)) \in Nat
              /\ Cardinality(Acp!InQueue(Append(Acp!Queue(s), e), p)) = Cardinality(Acp!InQueue(Acp!Queue(s), p)) + z
          BY <1>4, <5>1, QueuedCounts, PartsAreFinite, FS_CardinalityType
        <5>. QED
          BY <3>3, <5>2, AcpCountingIsTheSame
      <4>3. x \in Nat /\ w = x + z
        BY <2>4, AcpCountingIsTheSame
      <4>4. z \in Nat
        OBVIOUS
      <4>5. y + x = prompts[p].text
        <5>. HIDE DEF k, w, x, y, z
        <5>. QED
          BY <4>1, <4>2, <4>3, <4>4
      <4>. QED
        BY <4>5 DEF s, p
    <3>. QED
      BY <1>7, <2>6, <3>1, <3>2, <3>3
  <2>. QED
    BY <2>5, <2>6
<1>. QED
  BY <1>8, <1>9, <1>10, <1>11, <1>12, <1>13 DEF Acp!AcpInv, Acp!AcpTurnsAreTheirOwn

LEMMA AcpReads ==
  ASSUME Drivable, Acp!AcpInv, Acp!Read
  PROVE  Acp!AcpInv'
<1>. DEFINE m == Head(wire)
<1>1. /\ wire # <<>> /\ wire' = Tail(wire)
      /\ UNCHANGED <<provider, child, acpRuntime, known, prompts, early, answers>>
  BY DEF Acp!Read
<1>2. CASE /\ m.kind = "text" /\ UNCHANGED turn
           /\ session' = IF session[m.session].use.live
                         THEN [session EXCEPT ![m.session].use.queue =
                                 Acp!Enqueue(session[m.session].use.queue, [of |-> m.of, after |-> Len(prompts)])]
                         ELSE session
  BY <1>1, <1>2, TextIsRead
<1>3. CASE m.kind = "response" /\ Acp!Settle(m.of, "response") /\ UNCHANGED session
  <2>1. \E r : \E by \in {"response", "completion", "other"} : Acp!Settle(r, by) /\ (by = "other" \/ r = m.of)
    BY <1>3
  <2>. QED
    BY <1>1, <1>3, <2>1, EndIsRead
<1>4. CASE m.kind \in {"named", "bare"} /\ Acp!Settled(m) = 0 /\ UNCHANGED <<turn, session>>
  BY <1>1, <1>4, EndIsRead
<1>5. CASE /\ m.kind \in {"named", "bare"} /\ UNCHANGED session
           /\ Acp!Settle(Acp!Settled(m), IF Acp!Settled(m) = m.of THEN "completion" ELSE "other")
  <2>. DEFINE by == IF Acp!Settled(m) = m.of THEN "completion" ELSE "other"
  <2>1. Acp!Settle(Acp!Settled(m), by) /\ (by = "other" \/ Acp!Settled(m) = m.of) /\ by \in {"response", "completion", "other"}
    BY <1>5
  <2>. HIDE DEF by
  <2>2. \E r : \E b \in {"response", "completion", "other"} : Acp!Settle(r, b) /\ (b = "other" \/ r = m.of)
    BY <2>1
  <2>. QED
    BY <1>1, <1>5, <2>2, EndIsRead
<1>. QED
  BY <1>2, <1>3, <1>4, <1>5 DEF Acp!Read

LEMMA BothReplaced ==
  ASSUME NEW x \in Acp!AcpSessions, NEW m, NEW u
  PROVE  [[x EXCEPT !.uses = m] EXCEPT !.use = u] = [uses |-> m, use |-> u]
<1>. DEFINE v == [x EXCEPT !.uses = m]
<1>1. v = [uses |-> m, use |-> x.use]
  BY DEF Acp!AcpSessions
<1>. HIDE DEF v
<1>2. [v EXCEPT !.use = u] = [uses |-> m, use |-> u]
  BY <1>1
<1>. QED
  BY <1>2 DEF v

\* The prompt that a turn sends, in a session whose queue is empty.
LEMMA SendsSo ==
  ASSUME Drivable, Acp!AcpInv, NEW a \in AcpAgents, Acp!SendPrompt(a)
  PROVE  LET t == turn[a]   p == Len(prompts) + 1 IN
         /\ t \in Acp!OpenTurns /\ t.step = "configure" /\ t.session \in DOMAIN session /\ t.session = known[a]
         /\ session' \in Seq(Acp!AcpSessions) /\ DOMAIN session' = DOMAIN session
         /\ session'[t.session].use.queue = <<>>
         /\ \A s \in DOMAIN session : s # t.session => session'[s] = session[s]
         /\ prompts' \in Seq(Acp!Prompts) /\ p \notin DOMAIN prompts /\ DOMAIN prompts' = (DOMAIN prompts) \union {p}
         /\ \A q \in DOMAIN prompts : prompts'[q] = prompts[q]
         /\ prompts'[p].session = t.session /\ prompts'[p].text = 0
         /\ prompts'[p].asked \/ (provider = "grok" /\ prompts'[p].reported)
         /\ turn' \in [AcpAgents -> Acp!Turns] /\ turn'[a].step = "sent" /\ turn'[a].session = t.session /\ turn'[a].prompt = p
         /\ \A b \in AcpAgents : b # a => turn'[b] = turn[b]
<1>1. Acp!TypeOK /\ Acp!SessionsAreOwn
  BY DEF Acp!AcpInv
<1>. DEFINE t == turn[a]
            s == t.session
            p == Len(prompts) + 1
            uses == IF Acp!Sets(t) THEN t.model ELSE session[s].uses
            x == [uses |-> uses, use |-> [session[s].use EXCEPT !.queue = <<>>]]
            asked == t.override => uses = t.model
            reported == t.override /\ session[s].use.meta = t.model
            y == [session |-> s, text |-> 0, ended |-> FALSE, asked |-> asked, reported |-> reported]
            z == [step |-> "sent", session |-> s, prompt |-> p]
<1>2. /\ t.step = "configure" /\ ~ Acp!Refused(t)
      /\ session' = [session EXCEPT ![s].uses = uses, ![s].use.queue = <<>>]
      /\ prompts' = Append(prompts, y) /\ turn' = [turn EXCEPT ![a] = z]
  BY DEF Acp!SendPrompt
<1>3. t \in Acp!OpenTurns
  BY <1>1, <1>2, AcpTurnIsTyped
<1>4. s = known[a] /\ s \in DOMAIN session /\ (t.override => t.model # None)
  BY <1>1, <1>2 DEF Acp!SessionsAreOwn, Acp!TypeOK, Acp!Opening
<1>5. /\ t.model \in Models \union {None} /\ t.override \in BOOLEAN
      /\ session[s] \in Acp!AcpSessions /\ session[s].uses \in Models /\ session \in Seq(Acp!AcpSessions) /\ s \in Nat
      /\ prompts \in Seq(Acp!Prompts) /\ turn \in [AcpAgents -> Acp!Turns]
  BY <1>1, <1>3, <1>4, AcpSessionIsTyped DEF Acp!OpenTurns, Acp!TypeOK
<1>6. uses \in Models /\ (t.override /\ uses # t.model => provider = "grok" /\ reported)
  <2>1. CASE Acp!Sets(t)
    BY <1>5, <2>1 DEF Acp!Sets
  <2>2. CASE ~ Acp!Sets(t)
    BY <1>2, <1>4, <1>5, <2>2 DEF Acp!Sets, Acp!Refused
  <2>. QED
    BY <2>1, <2>2
<1>7. session' = [session EXCEPT ![s] = x]
  <2>. HIDE DEF uses
  <2>1. [[session[s] EXCEPT !.uses = uses] EXCEPT !.use = [session[s].use EXCEPT !.queue = <<>>]] = x
    BY <1>5, BothReplaced
  <2>2. session' = [session EXCEPT ![s] = [[session[s] EXCEPT !.uses = uses] EXCEPT !.use = [session[s].use EXCEPT !.queue = <<>>]]]
    BY <1>2, <1>4, <1>5 DEF Acp!AcpSessions
  <2>. QED
    BY <2>1, <2>2
<1>. HIDE DEF uses
<1>8. x \in Acp!AcpSessions /\ x.use.queue = <<>>
  <2>1. <<>> \in Seq(Acp!Items)
    OBVIOUS
  <2>. QED
    BY <1>5, <1>6, <2>1, AnotherQueue
<1>. HIDE DEF x
<1>9. /\ session' \in Seq(Acp!AcpSessions) /\ DOMAIN session' = DOMAIN session /\ session'[s] = x
      /\ \A u \in DOMAIN session : u # s => session'[u] = session[u]
  <2>. DEFINE r == [session EXCEPT ![s] = x]
  <2>1. r \in Seq(Acp!AcpSessions) /\ DOMAIN r = DOMAIN session
    BY <1>4, <1>5, <1>8, ReplacedKeepsType
  <2>2. r[s] = x /\ \A u \in DOMAIN session : u # s => r[u] = session[u]
    BY <1>4
  <2>3. session' = r
    BY <1>7
  <2>. HIDE DEF r
  <2>. QED
    BY <2>1, <2>2, <2>3
<1>10. asked \in BOOLEAN /\ reported \in BOOLEAN /\ (asked \/ (provider = "grok" /\ reported))
  BY <1>6
<1>. HIDE DEF asked, reported
<1>11. /\ y \in Acp!Prompts /\ y.session = s /\ y.text = 0 /\ (y.asked <=> asked) /\ (y.reported <=> reported)
  BY <1>5, <1>10 DEF Acp!Prompts
<1>. HIDE DEF y
<1>12. /\ prompts' \in Seq(Acp!Prompts) /\ p \notin DOMAIN prompts /\ DOMAIN prompts' = (DOMAIN prompts) \union {p}
       /\ \A q \in DOMAIN prompts : prompts'[q] = prompts[q]
       /\ prompts'[p] = y
  BY <1>2, <1>5, <1>11, AppendedIsLast
<1>13. p \in Nat
  BY <1>5
<1>14. z \in Acp!SentTurns /\ z.step = "sent" /\ z.session = s /\ z.prompt = p
  BY <1>5, <1>13 DEF Acp!SentTurns
<1>. HIDE DEF z
<1>15. /\ turn' \in [AcpAgents -> Acp!Turns] /\ turn'[a] = z
       /\ \A b \in AcpAgents : b # a => turn'[b] = turn[b]
  BY <1>2, <1>5, <1>14 DEF Acp!Turns
<1>16. prompts'[p].asked \/ (provider = "grok" /\ prompts'[p].reported)
  BY <1>10, <1>11, <1>12
<1>. QED
  BY <1>2, <1>3, <1>4, <1>8, <1>9, <1>11, <1>12, <1>14, <1>15, <1>16

LEMMA PromptIsSent ==
  ASSUME Drivable, Acp!AcpInv, NEW a \in AcpAgents, Acp!SendPrompt(a)
  PROVE  Acp!AcpInv'
<1>1. /\ Acp!TypeOK /\ Acp!SessionsAreOwn /\ Acp!EndsAreTaken /\ Acp!WireIsOrdered /\ Acp!QueuesAreOwn
      /\ Acp!NothingIsMissing /\ Acp!AnswersAreFinal /\ Acp!AnswersAreOwn /\ Acp!OverridesTakeEffect /\ Acp!NoOrphan
  BY DEF Acp!AcpInv, Acp!AcpTurnsAreTheirOwn
<1>2. UNCHANGED <<provider, child, acpRuntime, known, wire, early, answers>>
  BY DEF Acp!SendPrompt
<1>. DEFINE t == turn[a]
            s == t.session
            p == Len(prompts) + 1
<1>3. /\ t \in Acp!OpenTurns /\ t.step = "configure" /\ s \in DOMAIN session /\ s = known[a]
      /\ session' \in Seq(Acp!AcpSessions) /\ DOMAIN session' = DOMAIN session
      /\ session'[s].use.queue = <<>>
      /\ \A u \in DOMAIN session : u # s => session'[u] = session[u]
      /\ prompts' \in Seq(Acp!Prompts) /\ p \notin DOMAIN prompts /\ DOMAIN prompts' = (DOMAIN prompts) \union {p}
      /\ \A q \in DOMAIN prompts : prompts'[q] = prompts[q]
      /\ prompts'[p].session = s /\ prompts'[p].text = 0
      /\ prompts'[p].asked \/ (provider = "grok" /\ prompts'[p].reported)
      /\ turn' \in [AcpAgents -> Acp!Turns] /\ turn'[a].step = "sent" /\ turn'[a].session = s /\ turn'[a].prompt = p
      /\ \A b \in AcpAgents : b # a => turn'[b] = turn[b]
  BY SendsSo
<1>4. p # 0 /\ p \notin early /\ s # None
  BY <1>1, <1>3 DEF Acp!TypeOK, Drivable
<1>5. \A b \in AcpAgents : Acp!Prompted(b) => b # a /\ turn[b].session # s /\ turn[b].session \in DOMAIN session
  <2>. SUFFICES ASSUME NEW b \in AcpAgents, Acp!Prompted(b)
       PROVE  b # a /\ turn[b].session # s /\ turn[b].session \in DOMAIN session
    OBVIOUS
  <2>1. b # a
    BY <1>3 DEF Acp!Prompted
  <2>2. known[b] # None /\ turn[b].session = known[b]
    BY <1>1 DEF Acp!SessionsAreOwn, Acp!Prompted
  <2>. QED
    BY <1>1, <1>3, <2>1, <2>2 DEF Acp!SessionsAreOwn, Acp!TypeOK
<1>. HIDE DEF t, s, p
<1>6. \A b \in AcpAgents : \A r : Acp!Awaits(b, r) => Acp!Awaits(b, r)'
  BY <1>3, <1>5 DEF Acp!Awaits, Acp!Prompted, Acp!TookEnd
<1>7. Acp!TypeOK'
  BY <1>1, <1>2, <1>3 DEF Acp!TypeOK
<1>8. Acp!SessionsAreOwn'
  <2>1. ASSUME NEW b \in AcpAgents, b # a
        PROVE  /\ turn'[b].step = "open" /\ turn'[b].new => known'[b] = None
               /\ turn'[b].step # "none" /\ ~(turn'[b].step = "open" /\ turn'[b].new)
                     => known'[b] # None /\ turn'[b].session = known'[b]
               /\ Acp!Prompted(b)' => turn'[b].prompt \in DOMAIN prompts' \ early'
                                    /\ prompts'[turn'[b].prompt].session = turn'[b].session
               /\ Acp!Opening(b)' /\ turn'[b].override => turn'[b].model # None
    BY <1>1, <1>2, <1>3, <2>1 DEF Acp!SessionsAreOwn, Acp!Prompted, Acp!Opening
  <2>2. /\ turn'[a].step = "sent" /\ known'[a] # None /\ turn'[a].session = known'[a]
        /\ turn'[a].prompt \in DOMAIN prompts' \ early'
        /\ prompts'[turn'[a].prompt].session = turn'[a].session
        /\ ~ Acp!Opening(a)'
    BY <1>2, <1>3, <1>4 DEF Acp!Opening
  <2>3. \A b, c \in AcpAgents : known'[b] # None /\ known'[b] = known'[c] => b = c
    BY <1>1, <1>2 DEF Acp!SessionsAreOwn
  <2>. QED
    BY <2>1, <2>2, <2>3 DEF Acp!SessionsAreOwn
<1>9. Acp!EndsAreTaken'
  <2>1. ASSUME NEW b \in AcpAgents, Acp!TookEnd(b)' PROVE prompts'[turn'[b].prompt].ended
    <3>1. b # a /\ Acp!TookEnd(b) /\ Acp!Prompted(b) /\ turn'[b] = turn[b]
      BY <1>3, <2>1 DEF Acp!TookEnd, Acp!Prompted
    <3>2. turn[b].prompt \in DOMAIN prompts /\ prompts[turn[b].prompt].ended
      BY <1>1, <3>1 DEF Acp!EndsAreTaken, Acp!SessionsAreOwn
    <3>. QED
      BY <1>3, <3>1, <3>2
  <2>2. ASSUME NEW q \in DOMAIN prompts'
        PROVE  prompts'[q].ended \/ q \in early' \/ \E b \in AcpAgents : Acp!Awaits(b, q)'
    <3>1. CASE q = p
      <4>1. Acp!Awaits(a, q)'
        BY <1>3, <3>1 DEF Acp!Awaits, Acp!Prompted, Acp!TookEnd
      <4>. QED
        BY <4>1
    <3>2. CASE q \in DOMAIN prompts
      BY <1>1, <1>2, <1>3, <1>6, <3>2 DEF Acp!EndsAreTaken
    <3>. QED
      BY <1>3, <2>2, <3>1, <3>2
  <2>. QED
    BY <2>1, <2>2 DEF Acp!EndsAreTaken
<1>10. Acp!AnswersAreFinal' /\ Acp!AnswersAreOwn'
  <2>1. \A r \in answers : r.prompt \in DOMAIN prompts' /\ prompts'[r.prompt] = prompts[r.prompt]
    BY <1>1, <1>3 DEF Acp!AnswersAreFinal
  <2>. QED
    BY <1>1, <1>2, <2>1 DEF Acp!AnswersAreFinal, Acp!AnswersAreOwn
<1>11. Acp!OverridesTakeEffect'
  BY <1>1, <1>2, <1>3 DEF Acp!OverridesTakeEffect
<1>12. Acp!WireIsOrdered'
  <2>1. ASSUME NEW i \in DOMAIN wire'
        PROVE  /\ wire'[i].session \in DOMAIN session'
               /\ wire'[i].kind # "text" => wire'[i].of \in DOMAIN prompts' /\ prompts'[wire'[i].of].ended
               /\ wire'[i].kind = "text" /\ wire'[i].of # 0 =>
                     /\ wire'[i].of \in DOMAIN prompts' /\ prompts'[wire'[i].of].session = wire'[i].session
                     /\ wire'[i].of \in early' \/ \E b \in AcpAgents : Acp!Awaits(b, wire[i].of)'
    <3>1. /\ wire[i].session \in DOMAIN session
          /\ wire[i].kind # "text" => wire[i].of \in DOMAIN prompts /\ prompts[wire[i].of].ended
          /\ wire[i].kind = "text" /\ wire[i].of # 0 =>
                /\ wire[i].of \in DOMAIN prompts /\ prompts[wire[i].of].session = wire[i].session
                /\ wire[i].of \in early \/ \E b \in AcpAgents : Acp!Awaits(b, wire[i].of)
      BY <1>1, <1>2, <2>1 DEF Acp!WireIsOrdered
    <3>. DEFINE o == wire[i].of
    <3>2. \A b \in AcpAgents : Acp!Awaits(b, o) => Acp!Awaits(b, wire[i].of)'
      <4>1. wire'[i].of = o
        BY <1>2
      <4>2. \A b \in AcpAgents : Acp!Awaits(b, o) => Acp!Prompted(b)' /\ turn'[b].prompt = o /\ ~ Acp!TookEnd(b)'
        BY <1>6 DEF Acp!Awaits
      <4>. QED
        BY <4>1, <4>2 DEF Acp!Awaits
    <3>. QED
      BY <1>2, <1>3, <3>1, <3>2
  <2>2. ASSUME NEW i \in DOMAIN wire', NEW j \in DOMAIN wire', i < j, wire'[i].kind # "text", wire'[j].kind = "text"
        PROVE  wire'[i].of # wire'[j].of
    BY <1>1, <1>2, <2>2 DEF Acp!WireIsOrdered
  <2>. QED
    BY <2>1, <2>2 DEF Acp!WireIsOrdered
<1>13. Acp!QueuesAreOwn'
  <2>. SUFFICES ASSUME NEW u \in DOMAIN session'
       PROVE  /\ Len(Acp!Queue(u)') <= MaxQueue
              /\ ~ session'[u].use.live => Acp!Queue(u)' = <<>>
              /\ \A i \in DOMAIN Acp!Queue(u)' :
                   LET q == Acp!Queue(u)'[i].of IN
                   /\ q # 0 => /\ q \in DOMAIN prompts' /\ prompts'[q].session = u
                               /\ q \in early' \/ \E b \in AcpAgents : (Acp!Prompted(b)' /\ turn'[b].prompt = q)
                   /\ \A b \in AcpAgents :
                         Acp!Prompted(b)' /\ turn'[b].session = u => Acp!Queue(u)'[i].after >= turn'[b].prompt
    BY DEF Acp!QueuesAreOwn
  <2>1. CASE u = s
    BY <1>3, <2>1 DEF Acp!Queue, Drivable
  <2>2. CASE u # s
    <3>1. session'[u] = session[u] /\ Acp!Queue(u)' = Acp!Queue(u) /\ u \in DOMAIN session
      BY <1>3, <2>2 DEF Acp!Queue
    <3>2. /\ Len(Acp!Queue(u)) <= MaxQueue /\ (session[u].use.live \/ Acp!Queue(u) = <<>>)
          /\ \A i \in DOMAIN Acp!Queue(u) : OwnItem(Acp!Queue(u)[i], u)
      BY <1>1, <3>1 DEF Acp!QueuesAreOwn, OwnItem
    <3>3. \A b \in AcpAgents : Acp!Prompted(b) => Acp!Prompted(b)' /\ turn'[b] = turn[b]
      BY <1>3, <1>5 DEF Acp!Prompted
    <3>4. \A b \in AcpAgents : Acp!Prompted(b)' /\ turn'[b].session = u => Acp!Prompted(b) /\ turn'[b] = turn[b]
      BY <1>3, <2>2 DEF Acp!Prompted
    <3>5. ASSUME NEW i \in DOMAIN Acp!Queue(u), NEW x, x = Acp!Queue(u)[i], OwnItem(x, u)
          PROVE  /\ x.of # 0 => /\ x.of \in DOMAIN prompts' /\ prompts'[x.of].session = u
                                /\ x.of \in early' \/ \E b \in AcpAgents : (Acp!Prompted(b)' /\ turn'[b].prompt = x.of)
                 /\ \A b \in AcpAgents : Acp!Prompted(b)' /\ turn'[b].session = u => x.after >= turn'[b].prompt
      BY <1>2, <1>3, <3>3, <3>4, <3>5 DEF OwnItem
    <3>. QED
      BY <3>1, <3>2, <3>5
  <2>. QED
    BY <2>1, <2>2
<1>14. Acp!NothingIsMissing'
  <2>. SUFFICES ASSUME NEW b \in AcpAgents, turn'[b].step = "sent" \/ Acp!TookEnd(b)'
       PROVE  \/ ~ session'[turn'[b].session].use.live \/ Len(session'[turn'[b].session].use.queue) = MaxQueue
              \/ Acp!Cardinality(Acp!InQueue(session'[turn'[b].session].use.queue, turn'[b].prompt))
                    + Acp!Cardinality(Acp!OnWire(wire, turn'[b].prompt)) = prompts'[turn'[b].prompt].text
    BY <1>2 DEF Acp!NothingIsMissing, Acp!Queue
  <2>1. CASE b = a
    <3>1. Acp!InQueue(session'[s].use.queue, p) = {}
      BY <1>3 DEF Acp!InQueue
    <3>2. Acp!OnWire(wire, p) = {}
      BY <1>1, <1>3, <1>4 DEF Acp!OnWire, Acp!WireIsOrdered
    <3>3. Acp!Cardinality({}) = 0
      BY AcpCountingIsTheSame, FS_EmptySet
    <3>4. turn'[b].session = s /\ turn'[b].prompt = p /\ prompts'[p].text = 0
      BY <1>3, <2>1
    <3>5. Acp!Cardinality(Acp!InQueue(session'[s].use.queue, p)) + Acp!Cardinality(Acp!OnWire(wire, p)) = prompts'[p].text
      BY <3>1, <3>2, <3>3, <3>4
    <3>. QED
      BY <3>4, <3>5
  <2>2. CASE b # a
    <3>1. turn'[b] = turn[b] /\ (turn[b].step = "sent" \/ Acp!TookEnd(b)) /\ Acp!Prompted(b)
      BY <1>3, <2>2 DEF Acp!TookEnd, Acp!Prompted
    <3>2. session'[turn[b].session] = session[turn[b].session] /\ prompts'[turn[b].prompt] = prompts[turn[b].prompt]
      BY <1>1, <1>3, <1>5, <3>1 DEF Acp!SessionsAreOwn
    <3>. QED
      BY <1>1, <3>1, <3>2 DEF Acp!NothingIsMissing, Acp!Queue
  <2>. QED
    BY <2>1, <2>2
<1>15. Acp!NoOrphan'
  BY <1>1, <1>2 DEF Acp!NoOrphan
<1>. QED
  BY <1>7, <1>8, <1>9, <1>10, <1>11, <1>12, <1>13, <1>14, <1>15 DEF Acp!AcpInv, Acp!AcpTurnsAreTheirOwn

\* What a turn that ends leaves of its session, and what it answers.
LEMMA FinishesSo ==
  ASSUME Drivable, Acp!AcpInv, NEW a \in AcpAgents, Acp!FinishTurn(a)
  PROVE  LET s == turn[a].session   p == turn[a].prompt   held == Acp!Queue(turn[a].session) IN
         /\ turn[a].step = "settled" /\ turn' \in [AcpAgents -> Acp!Turns] /\ turn'[a] = Acp!Idle
         /\ \A b \in AcpAgents : b # a => turn'[b] = turn[b]
         /\ s \in DOMAIN session /\ s = known[a] /\ p \in DOMAIN prompts /\ p \notin early
         /\ session' \in Seq(Acp!AcpSessions) /\ DOMAIN session' = DOMAIN session
         /\ session'[s].use.live = session[s].use.live
         /\ session'[s].use.queue = <<>> \/ (session' = session /\ ~ Acp!TookEnd(a))
         /\ \A u \in DOMAIN session : u # s => session'[u] = session[u]
         /\ answers' = answers \/ (answers' = answers \union {[prompt |-> p, items |-> held]} /\ held # <<>>)
         /\ (Acp!TookEnd(a) /\ early' = early) \/ (~ Acp!TookEnd(a) /\ early' = early \union {p})
         /\ UNCHANGED <<provider, child, acpRuntime, known, prompts, wire>>
<1>1. Acp!TypeOK /\ Acp!SessionsAreOwn
  BY DEF Acp!AcpInv
<1>. DEFINE s == turn[a].session
            p == turn[a].prompt
            returns == turn[a].by \in {"response", "completion", "other"}
            x == [uses |-> session[s].uses, use |-> [session[s].use EXCEPT !.queue = <<>>]]
<1>2. /\ turn[a].step = "settled" /\ turn' = [turn EXCEPT ![a] = Acp!Idle]
      /\ session' = IF returns THEN [session EXCEPT ![s].use.queue = <<>>] ELSE session
      /\ answers' = IF returns /\ Acp!Queue(s) # <<>> THEN answers \union {[prompt |-> p, items |-> Acp!Queue(s)]} ELSE answers
      /\ early' = IF turn[a].by \in {"response", "completion"} THEN early ELSE early \union {p}
      /\ UNCHANGED <<provider, child, acpRuntime, known, prompts, wire>>
  BY DEF Acp!FinishTurn, Acp!Queue
<1>3. Acp!Prompted(a) /\ (Acp!TookEnd(a) <=> turn[a].by \in {"response", "completion"})
  BY <1>2 DEF Acp!Prompted, Acp!TookEnd
<1>4. s \in DOMAIN session /\ s = known[a] /\ p \in DOMAIN prompts /\ p \notin early
  BY <1>1, <1>3 DEF Acp!SessionsAreOwn, Acp!TypeOK, Acp!Prompted
<1>5. session[s] \in Acp!AcpSessions /\ session[s].uses \in Models /\ session \in Seq(Acp!AcpSessions)
  BY <1>1, <1>4, AcpSessionIsTyped DEF Acp!TypeOK
<1>6. x \in Acp!AcpSessions /\ x.use.queue = <<>> /\ x.use.live = session[s].use.live
  <2>1. <<>> \in Seq(Acp!Items)
    OBVIOUS
  <2>. QED
    BY <1>5, <2>1, AnotherQueue
<1>7. [session EXCEPT ![s].use.queue = <<>>] = [session EXCEPT ![s] = x]
  <2>1. [session[s] EXCEPT !.use = [session[s].use EXCEPT !.queue = <<>>]] = x
    BY <1>5, UseReplaced
  <2>. QED
    BY <2>1
<1>8. /\ session' \in Seq(Acp!AcpSessions) /\ DOMAIN session' = DOMAIN session
      /\ session'[s].use.live = session[s].use.live
      /\ session'[s].use.queue = <<>> \/ (session' = session /\ ~ returns)
      /\ \A u \in DOMAIN session : u # s => session'[u] = session[u]
  <2>1. CASE ~ returns
    BY <1>2, <1>5, <2>1
  <2>2. CASE returns
    <3>. HIDE DEF x
    <3>. DEFINE r == [session EXCEPT ![s] = x]
    <3>1. r \in Seq(Acp!AcpSessions) /\ DOMAIN r = DOMAIN session
      BY <1>4, <1>5, <1>6, ReplacedKeepsType
    <3>2. r[s] = x /\ \A u \in DOMAIN session : u # s => r[u] = session[u]
      BY <1>4
    <3>3. session' = r
      BY <1>2, <1>7, <2>2
    <3>. HIDE DEF r
    <3>. QED
      BY <1>6, <3>1, <3>2, <3>3
  <2>. QED
    BY <2>1, <2>2
<1>9. turn' \in [AcpAgents -> Acp!Turns] /\ turn'[a] = Acp!Idle /\ \A b \in AcpAgents : b # a => turn'[b] = turn[b]
  <2>1. turn \in [AcpAgents -> Acp!Turns] /\ Acp!Idle \in Acp!Turns
    BY <1>1 DEF Acp!TypeOK, Acp!Turns
  <2>. QED
    BY <1>2, <2>1
<1>10. Acp!TookEnd(a) => returns
  BY <1>3
<1>11. /\ answers' = answers \/ (answers' = answers \union {[prompt |-> p, items |-> Acp!Queue(s)]} /\ Acp!Queue(s) # <<>>)
       /\ (Acp!TookEnd(a) /\ early' = early) \/ (~ Acp!TookEnd(a) /\ early' = early \union {p})
  BY <1>2, <1>3
<1>. QED
  BY <1>2, <1>4, <1>8, <1>9, <1>10, <1>11

\* What is answered is the prompt's own text.
LEMMA AnswerIsOwn ==
  ASSUME Drivable, Acp!AcpInv, NEW a \in AcpAgents, turn[a].step = "settled", Acp!Queue(turn[a].session) # <<>>,
         early' = early \/ early' = early \union {turn[a].prompt},
         ~ Acp!TookEnd(a) => turn[a].prompt \in early'
  PROVE  LET p == turn[a].prompt   held == Acp!Queue(turn[a].session) IN
         /\ held \in Seq(Acp!Items)
         /\ p \in early' \/ prompts[p].ended
         /\ \A i \in DOMAIN held : held[i].after >= p /\ held[i].of \in {0, p} \union early'
         /\ p \in early' \/ Len(held) = MaxQueue \/ Acp!Cardinality(Acp!InQueue(held, p)) = prompts[p].text
<1>1. /\ Acp!TypeOK /\ Acp!SessionsAreOwn /\ Acp!EndsAreTaken /\ Acp!QueuesAreOwn /\ Acp!NothingIsMissing
  BY DEF Acp!AcpInv
<1>. DEFINE p == turn[a].prompt
            s == turn[a].session
            held == Acp!Queue(s)
<1>2. Acp!Prompted(a)
  BY DEF Acp!Prompted
<1>3. s \in DOMAIN session
  BY <1>1, <1>2 DEF Acp!SessionsAreOwn, Acp!TypeOK, Acp!Prompted
<1>4. held \in Seq(Acp!Items)
  BY <1>1, <1>3, AcpSessionIsTyped
<1>5. Acp!TookEnd(a) => prompts[p].ended
  BY <1>1 DEF Acp!EndsAreTaken
<1>6. ASSUME NEW i \in DOMAIN held PROVE held[i].after >= p /\ held[i].of \in {0, p} \union early'
  <2>. DEFINE q == held[i].of
  <2>1. /\ held[i].after >= p
        /\ q # 0 => /\ q \in DOMAIN prompts /\ prompts[q].session = s
                    /\ q \in early \/ \E b \in AcpAgents : (Acp!Prompted(b) /\ turn[b].prompt = q)
    BY <1>1, <1>2, <1>3, <1>6 DEF Acp!QueuesAreOwn
  <2>. HIDE DEF q, held, s, p
  <2>2. ASSUME NEW b \in AcpAgents, Acp!Prompted(b), turn[b].prompt = q, prompts[q].session = s PROVE q = p
    <3>1. turn[b].session = turn[a].session
      BY <1>1, <2>2 DEF Acp!SessionsAreOwn, s
    <3>2. b = a
      BY <1>1, <1>2, <2>2, <3>1, Alone
    <3>. QED
      BY <2>2, <3>2 DEF p
  <2>3. q \in {0, p} \union early'
    BY <2>1, <2>2
  <2>. QED
    BY <2>1, <2>3 DEF q
<1>7. Acp!TookEnd(a) => Len(held) = MaxQueue \/ Acp!Cardinality(Acp!InQueue(held, p)) = prompts[p].text
  <2>. SUFFICES ASSUME Acp!TookEnd(a), Len(held) # MaxQueue
       PROVE Acp!Cardinality(Acp!InQueue(held, p)) = prompts[p].text
    OBVIOUS
  <2>1. session[s].use.live
    BY <1>1, <1>3 DEF Acp!QueuesAreOwn
  <2>2. Acp!Cardinality(Acp!InQueue(held, p)) + Acp!Cardinality(Acp!OnWire(wire, p)) = prompts[p].text
    BY <1>1, <2>1 DEF Acp!NothingIsMissing
  <2>3. Acp!Cardinality(Acp!OnWire(wire, p)) = 0
    <3>1. Acp!OnWire(wire, p) = {}
      BY TookAll
    <3>2. Acp!Cardinality({}) = 0
      BY AcpCountingIsTheSame, FS_EmptySet
    <3>. QED
      BY <3>1, <3>2
  <2>4. Acp!Cardinality(Acp!InQueue(held, p)) \in Nat
    BY <1>4, PartsAreFinite, FS_CardinalityType, AcpCountingIsTheSame
  <2>. HIDE DEF held, p
  <2>. QED
    BY <2>2, <2>3, <2>4
<1>. QED
  BY <1>4, <1>5, <1>6, <1>7

LEMMA TurnIsFinished ==
  ASSUME Drivable, Acp!AcpInv, NEW a \in AcpAgents, Acp!FinishTurn(a)
  PROVE  Acp!AcpInv'
<1>1. /\ Acp!TypeOK /\ Acp!SessionsAreOwn /\ Acp!EndsAreTaken /\ Acp!WireIsOrdered /\ Acp!QueuesAreOwn
      /\ Acp!NothingIsMissing /\ Acp!AnswersAreFinal /\ Acp!AnswersAreOwn /\ Acp!OverridesTakeEffect /\ Acp!NoOrphan
  BY DEF Acp!AcpInv, Acp!AcpTurnsAreTheirOwn
<1>. DEFINE s == turn[a].session
            p == turn[a].prompt
            held == Acp!Queue(s)
<1>2. /\ turn[a].step = "settled" /\ turn' \in [AcpAgents -> Acp!Turns] /\ turn'[a] = Acp!Idle
      /\ \A b \in AcpAgents : b # a => turn'[b] = turn[b]
      /\ s \in DOMAIN session /\ s = known[a] /\ p \in DOMAIN prompts /\ p \notin early
      /\ session' \in Seq(Acp!AcpSessions) /\ DOMAIN session' = DOMAIN session
      /\ session'[s].use.live = session[s].use.live
      /\ session'[s].use.queue = <<>> \/ (session' = session /\ ~ Acp!TookEnd(a))
      /\ \A u \in DOMAIN session : u # s => session'[u] = session[u]
      /\ answers' = answers \/ (answers' = answers \union {[prompt |-> p, items |-> held]} /\ held # <<>>)
      /\ (Acp!TookEnd(a) /\ early' = early) \/ (~ Acp!TookEnd(a) /\ early' = early \union {p})
      /\ UNCHANGED <<provider, child, acpRuntime, known, prompts, wire>>
  BY FinishesSo
<1>3. \A b \in AcpAgents : Acp!Prompted(b) /\ b # a => turn[b].session # s /\ turn[b].prompt # p
  <2>1. Acp!Prompted(a)
    BY <1>2 DEF Acp!Prompted
  <2>. QED
    BY <1>1, <2>1, Alone
<1>4. prompts[p].session = s
  BY <1>1, <1>2 DEF Acp!SessionsAreOwn, Acp!Prompted
<1>5. held # <<>> =>
        /\ held \in Seq(Acp!Items)
        /\ p \in early' \/ prompts[p].ended
        /\ \A i \in DOMAIN held : held[i].after >= p /\ held[i].of \in {0, p} \union early'
        /\ p \in early' \/ Len(held) = MaxQueue \/ Acp!Cardinality(Acp!InQueue(held, p)) = prompts[p].text
  BY <1>2, AnswerIsOwn
<1>. HIDE DEF s, p, held
<1>6. turn'[a].step = "none"
  BY <1>2 DEF Acp!Idle
<1>7. \A b \in AcpAgents : /\ Acp!Prompted(b)' <=> Acp!Prompted(b) /\ b # a
                           /\ Acp!TookEnd(b)' <=> Acp!TookEnd(b) /\ b # a
  BY <1>2, <1>6 DEF Acp!Prompted, Acp!TookEnd
<1>8. early \subseteq early' /\ early' \subseteq early \union {p} /\ (Acp!TookEnd(a) \/ p \in early')
  BY <1>2
<1>9. \A b \in AcpAgents : \A r : Acp!Awaits(b, r) => Acp!Awaits(b, r)' \/ (r = p /\ p \in early')
  BY <1>2, <1>7, <1>8 DEF Acp!Awaits, p
<1>10. Acp!TypeOK'
  BY <1>1, <1>2, <1>8 DEF Acp!TypeOK
<1>11. Acp!SessionsAreOwn'
  <2>1. ASSUME NEW b \in AcpAgents, b # a
        PROVE  /\ turn'[b].step = "open" /\ turn'[b].new => known'[b] = None
               /\ turn'[b].step # "none" /\ ~(turn'[b].step = "open" /\ turn'[b].new)
                     => known'[b] # None /\ turn'[b].session = known'[b]
               /\ Acp!Prompted(b)' => turn'[b].prompt \in DOMAIN prompts' \ early'
                                    /\ prompts'[turn'[b].prompt].session = turn'[b].session
               /\ Acp!Opening(b)' /\ turn'[b].override => turn'[b].model # None
    <3>1. Acp!Prompted(b) => turn[b].prompt \notin early'
      BY <1>1, <1>3, <1>8, <2>1 DEF Acp!SessionsAreOwn
    <3>. QED
      BY <1>1, <1>2, <1>7, <2>1, <3>1 DEF Acp!SessionsAreOwn, Acp!Opening
  <2>2. turn'[a].step = "none" /\ ~ Acp!Prompted(a)' /\ ~ Acp!Opening(a)'
    BY <1>6 DEF Acp!Prompted, Acp!Opening
  <2>3. \A b, c \in AcpAgents : known'[b] # None /\ known'[b] = known'[c] => b = c
    BY <1>1, <1>2 DEF Acp!SessionsAreOwn
  <2>. QED
    BY <2>1, <2>2, <2>3 DEF Acp!SessionsAreOwn
<1>12. Acp!EndsAreTaken'
  <2>1. ASSUME NEW b \in AcpAgents, Acp!TookEnd(b)' PROVE prompts'[turn'[b].prompt].ended
    BY <1>1, <1>2, <1>7, <2>1 DEF Acp!EndsAreTaken
  <2>2. ASSUME NEW q \in DOMAIN prompts'
        PROVE  prompts'[q].ended \/ q \in early' \/ \E b \in AcpAgents : Acp!Awaits(b, q)'
    <3>1. prompts[q].ended \/ q \in early \/ \E b \in AcpAgents : Acp!Awaits(b, q)
      BY <1>1, <1>2, <2>2 DEF Acp!EndsAreTaken
    <3>. QED
      BY <1>2, <1>8, <1>9, <3>1
  <2>. QED
    BY <2>1, <2>2 DEF Acp!EndsAreTaken
<1>13. Acp!AnswersAreFinal'
  <2>1. ASSUME NEW r \in answers' PROVE r.prompt \in DOMAIN prompts /\ r.items \in Seq(Acp!Items) /\ (r.prompt \in early' \/ prompts[r.prompt].ended)
    <3>1. CASE r \in answers
      BY <1>1, <1>8, <3>1 DEF Acp!AnswersAreFinal
    <3>2. CASE r = [prompt |-> p, items |-> held] /\ held # <<>>
      BY <1>2, <1>5, <3>2
    <3>. QED
      BY <1>2, <2>1, <3>1, <3>2
  <2>. QED
    BY <1>2, <2>1 DEF Acp!AnswersAreFinal
<1>14. Acp!AnswersAreOwn'
  <2>1. ASSUME NEW r \in answers'
        PROVE  /\ \A i \in DOMAIN r.items : r.items[i].after >= r.prompt
               /\ {r.items[i].of : i \in DOMAIN r.items} \subseteq {0, r.prompt} \union early'
               /\ r.prompt \in early' \/ Len(r.items) = MaxQueue
                     \/ Acp!Cardinality({i \in DOMAIN r.items : r.items[i].of = r.prompt}) = prompts[r.prompt].text
    <3>1. CASE r \in answers
      BY <1>1, <1>8, <3>1 DEF Acp!AnswersAreOwn
    <3>2. CASE r = [prompt |-> p, items |-> held] /\ held # <<>>
      <4>1. r.prompt = p /\ r.items = held
        BY <3>2
      <4>. QED
        BY <1>5, <3>2, <4>1 DEF Acp!InQueue
    <3>. QED
      BY <1>2, <2>1, <3>1, <3>2
  <2>. QED
    BY <1>2, <2>1 DEF Acp!AnswersAreOwn
<1>15. Acp!OverridesTakeEffect' /\ Acp!NoOrphan'
  BY <1>1, <1>2 DEF Acp!OverridesTakeEffect, Acp!NoOrphan
<1>16. Acp!WireIsOrdered'
  <2>1. ASSUME NEW i \in DOMAIN wire'
        PROVE  /\ wire'[i].session \in DOMAIN session'
               /\ wire'[i].kind # "text" => wire'[i].of \in DOMAIN prompts' /\ prompts'[wire'[i].of].ended
               /\ wire'[i].kind = "text" /\ wire'[i].of # 0 =>
                     /\ wire'[i].of \in DOMAIN prompts' /\ prompts'[wire'[i].of].session = wire'[i].session
                     /\ wire'[i].of \in early' \/ \E b \in AcpAgents : Acp!Awaits(b, wire[i].of)'
    <3>1. /\ wire[i].session \in DOMAIN session
          /\ wire[i].kind # "text" => wire[i].of \in DOMAIN prompts /\ prompts[wire[i].of].ended
          /\ wire[i].kind = "text" /\ wire[i].of # 0 =>
                /\ wire[i].of \in DOMAIN prompts /\ prompts[wire[i].of].session = wire[i].session
                /\ wire[i].of \in early \/ \E b \in AcpAgents : Acp!Awaits(b, wire[i].of)
      BY <1>1, <1>2, <2>1 DEF Acp!WireIsOrdered
    <3>. DEFINE o == wire[i].of
    <3>2. \A b \in AcpAgents : Acp!Awaits(b, o) => Acp!Awaits(b, wire[i].of)' \/ o \in early'
      <4>1. wire'[i].of = o
        BY <1>2
      <4>2. \A b \in AcpAgents : Acp!Awaits(b, o) => (Acp!Prompted(b)' /\ turn'[b].prompt = o /\ ~ Acp!TookEnd(b)') \/ o \in early'
        BY <1>9 DEF Acp!Awaits
      <4>. QED
        BY <4>1, <4>2 DEF Acp!Awaits
    <3>. QED
      BY <1>2, <1>8, <3>1, <3>2
  <2>2. ASSUME NEW i \in DOMAIN wire', NEW j \in DOMAIN wire', i < j, wire'[i].kind # "text", wire'[j].kind = "text"
        PROVE  wire'[i].of # wire'[j].of
    BY <1>1, <1>2, <2>2 DEF Acp!WireIsOrdered
  <2>. QED
    BY <2>1, <2>2 DEF Acp!WireIsOrdered
<1>17. Acp!QueuesAreOwn'
  <2>. SUFFICES ASSUME NEW u \in DOMAIN session'
       PROVE  /\ Len(Acp!Queue(u)') <= MaxQueue
              /\ ~ session'[u].use.live => Acp!Queue(u)' = <<>>
              /\ \A i \in DOMAIN Acp!Queue(u)' :
                   LET q == Acp!Queue(u)'[i].of IN
                   /\ q # 0 => /\ q \in DOMAIN prompts' /\ prompts'[q].session = u
                               /\ q \in early' \/ \E b \in AcpAgents : (Acp!Prompted(b)' /\ turn'[b].prompt = q)
                   /\ \A b \in AcpAgents :
                         Acp!Prompted(b)' /\ turn'[b].session = u => Acp!Queue(u)'[i].after >= turn'[b].prompt
    BY DEF Acp!QueuesAreOwn
  <2>1. CASE session'[u].use.queue = <<>>
    BY <2>1 DEF Acp!Queue, Drivable
  <2>2. CASE session'[u].use.queue # <<>>
    <3>1. /\ session'[u] = session[u] /\ Acp!Queue(u)' = Acp!Queue(u) /\ u \in DOMAIN session
          /\ u = s => ~ Acp!TookEnd(a)
      BY <1>2, <2>2 DEF Acp!Queue
    <3>2. /\ Len(Acp!Queue(u)) <= MaxQueue /\ (session[u].use.live \/ Acp!Queue(u) = <<>>)
          /\ \A i \in DOMAIN Acp!Queue(u) : OwnItem(Acp!Queue(u)[i], u)
      BY <1>1, <3>1 DEF Acp!QueuesAreOwn, OwnItem
    <3>3. \A b \in AcpAgents : Acp!Prompted(b) /\ b # a => Acp!Prompted(b)' /\ turn'[b] = turn[b]
      BY <1>2, <1>7
    <3>4. \A b \in AcpAgents : Acp!Prompted(b)' => Acp!Prompted(b) /\ turn'[b] = turn[b]
      BY <1>2, <1>7
    <3>5. prompts[p].session = u => p \in early'
      BY <1>4, <1>8, <3>1
    <3>6. ASSUME NEW x, OwnItem(x, u)
          PROVE  /\ x.of # 0 => /\ x.of \in DOMAIN prompts' /\ prompts'[x.of].session = u
                                /\ x.of \in early' \/ \E b \in AcpAgents : (Acp!Prompted(b)' /\ turn'[b].prompt = x.of)
                 /\ \A b \in AcpAgents : Acp!Prompted(b)' /\ turn'[b].session = u => x.after >= turn'[b].prompt
      BY <1>2, <1>8, <3>3, <3>4, <3>5, <3>6 DEF OwnItem, p
    <3>. QED
      BY <3>1, <3>2, <3>6
  <2>. QED
    BY <2>1, <2>2
<1>18. Acp!NothingIsMissing'
  <2>. SUFFICES ASSUME NEW b \in AcpAgents, turn'[b].step = "sent" \/ Acp!TookEnd(b)'
       PROVE  \/ ~ session'[turn'[b].session].use.live \/ Len(session'[turn'[b].session].use.queue) = MaxQueue
              \/ Acp!Cardinality(Acp!InQueue(session'[turn'[b].session].use.queue, turn'[b].prompt))
                    + Acp!Cardinality(Acp!OnWire(wire, turn'[b].prompt)) = prompts[turn'[b].prompt].text
    BY <1>2 DEF Acp!NothingIsMissing, Acp!Queue
  <2>1. b # a /\ turn'[b] = turn[b]
    BY <1>2, <1>6, <1>7
  <2>2. (turn[b].step = "sent" \/ Acp!TookEnd(b)) /\ Acp!Prompted(b)
    BY <1>7, <2>1 DEF Acp!TookEnd, Acp!Prompted
  <2>3. session'[turn[b].session] = session[turn[b].session]
    <3>1. turn[b].session # s /\ turn[b].session \in DOMAIN session
      BY <1>1, <1>3, <2>1, <2>2 DEF Acp!SessionsAreOwn, Acp!TypeOK
    <3>. QED
      BY <1>2, <3>1
  <2>. QED
    BY <1>1, <2>1, <2>2, <2>3 DEF Acp!NothingIsMissing, Acp!Queue
<1>. QED
  BY <1>10, <1>11, <1>12, <1>13, <1>14, <1>15, <1>16, <1>17, <1>18 DEF Acp!AcpInv, Acp!AcpTurnsAreTheirOwn

LEMMA AcpBegins ==
  ASSUME Drivable, Acp!Init
  PROVE  Acp!AcpInv
<1>1. Acp!TypeOK
  BY DEF Acp!Init, Acp!TypeOK, Acp!Turns
<1>2. Acp!SessionsAreOwn
  BY DEF Acp!Init, Acp!SessionsAreOwn, Acp!Prompted, Acp!Opening, Acp!Idle
<1>3. Acp!EndsAreTaken /\ Acp!WireIsOrdered /\ Acp!QueuesAreOwn /\ Acp!NothingIsMissing
  BY DEF Acp!Init, Acp!EndsAreTaken, Acp!WireIsOrdered, Acp!QueuesAreOwn, Acp!NothingIsMissing, Acp!TookEnd, Acp!Idle
<1>4. Acp!AnswersAreFinal /\ Acp!AcpTurnsAreTheirOwn
  BY DEF Acp!Init, Acp!AnswersAreFinal, Acp!AcpTurnsAreTheirOwn, Acp!NoOrphan, Acp!AnswersAreOwn, Acp!OverridesTakeEffect
<1>. QED
  BY <1>1, <1>2, <1>3, <1>4 DEF Acp!AcpInv

LEMMA AcpStep ==
  ASSUME Drivable, Acp!AcpInv, [Acp!Next]_(Acp!vars)
  PROVE  Acp!AcpInv'
<1>1. CASE UNCHANGED Acp!vars
  <2>1. Acp!NoOrphan'
    BY <1>1 DEF Acp!vars, Acp!AcpInv, Acp!AcpTurnsAreTheirOwn, Acp!NoOrphan
  <2>. QED
    BY <1>1, <2>1, NothingMoves DEF Acp!vars
<1>2. CASE Acp!Launch \/ Acp!Initialize \/ Acp!ChildExits
  BY <1>2, ProcessMoves, AcpRejects
<1>3. CASE Acp!Close \/ Acp!Disconnect \/ Acp!Read
  BY <1>3, AcpCloses, AcpRejects, AcpReads
<1>4. CASE \E a \in AcpAgents :
             \/ \E m \in Models \union {None}, override \in BOOLEAN : Acp!BeginTurn(a, m, override)
             \/ \E advertises \in BOOLEAN : Acp!OpenSession(a, advertises)
             \/ Acp!OpenFails(a) \/ Acp!SendPrompt(a) \/ Acp!PromptTimesOut(a) \/ Acp!FinishTurn(a)
  BY <1>4, TurnBegins, SessionOpens, OpenEnds, PromptIsSent, TurnTimesOut, TurnIsFinished
<1>5. CASE \E p \in DOMAIN prompts : Acp!WriteText(p) \/ \E e \in Endings : Acp!EndPrompt(p, e)
  BY <1>5, TextIsWritten, PromptEnds
<1>6. CASE \E s \in DOMAIN session : Acp!WriteNoise(s) \/ Acp!ReleaseSession(s)
  BY <1>6, NoiseIsWritten, SessionIsReleased
<1>. QED
  BY <1>1, <1>2, <1>3, <1>4, <1>5, <1>6 DEF Acp!Next

\* AcpTurnsAreTheirOwn (AcpTurns): whatever the process writes and however it, the connection and
\* the turns end, the invariant holds by which what a turn has not read of its prompt is on the
\* wire, before the end of the prompt, and a queue has text of the turn under way or of prompts
\* that were given up.
THEOREM AcpIsSound == ASSUME Drivable PROVE Acp!Spec => []Acp!AcpInv
<1>1. Acp!Init => Acp!AcpInv
  BY AcpBegins
<1>2. Acp!AcpInv /\ [Acp!Next]_(Acp!vars) => Acp!AcpInv'
  BY AcpStep
<1>. QED
  BY <1>1, <1>2, PTL DEF Acp!Spec

\* A turn gets the answer of its own prompt, all of it as far as the queue holds it, from the model
\* it asked for, and a process that was started is in use or told to end, for any providers, agents,
\* models and bounds.
THEOREM AcpAnswersItsOwn == ASSUME Drivable PROVE Acp!Spec => []Acp!AcpTurnsAreTheirOwn
<1>1. Acp!AcpInv => Acp!AcpTurnsAreTheirOwn
  BY DEF Acp!AcpInv
<1>. QED
  BY <1>1, AcpIsSound, PTL

-------------------------------------------------------------------------------
(***************************************************************************)
(* Providers: the part that moves behaves as its own specification says.   *)
(***************************************************************************)
\* A turn of Providers over ACP gets the answer of its own prompt.
THEOREM AcpOfProvidersAnswers == ASSUME Drivable PROVE ProvidersSpec => []AcpTurnsAreTheirOwn
<1>1. ProvidersInit /\ part = "acp" => Acp!Init
  BY DEF ProvidersInit
<1>2. [ProvidersNext]_providersVars => ((part = "acp")' <=> part = "acp") /\ (part = "acp" => [Acp!Next]_(Acp!vars))
  <2>. SUFFICES ASSUME [ProvidersNext]_providersVars PROVE part' = part /\ (part = "acp" => [Acp!Next]_(Acp!vars))
    OBVIOUS
  <2>1. part' = part /\ ((part = "acp" /\ Acp!Next) \/ part # "acp" \/ UNCHANGED acp)
    BY DEF ProvidersNext, providersVars
  <2>2. UNCHANGED acp => UNCHANGED Acp!vars
    BY DEF acp, Acp!vars
  <2>. QED
    BY <2>1, <2>2
<1>. QED
  BY <1>1, <1>2, AcpAnswersItsOwn, PTL DEF ProvidersSpec, AcpTurnsAreTheirOwn, Acp!Spec
===============================================================================
