--------------------- MODULE ExecutionCoordinator_proofs ---------------------
(***************************************************************************)
(* The checkouts of a machine, proved for any number of jobs, calls and    *)
(* pruners: the safety of admission, the opens of conversations, and the   *)
(* pruning of managed worktrees, as the parts of Checkouts that they are.  *)
(*                                                                         *)
(* Admission first.  One inductive invariant carries it: claims are        *)
(* compatible, a handle or a running operation always has its row, a row   *)
(* is in one table only, and any two waiting rows are ordered.             *)
(***************************************************************************)
EXTENDS Checkouts, FiniteSetTheorems, TLAPS

LEMMA TypeIsInductive == TypeOK /\ [Next]_vars => TypeOK'
<1>. SUFFICES ASSUME TypeOK, [Next]_vars PROVE TypeOK'
  OBVIOUS
<1>. USE DEF TypeOK, OfOwner, LiveWaiters, ThreadKeys
<1>1. ASSUME NEW j \in Jobs, Acquire(j) PROVE TypeOK'
  BY <1>1 DEF Acquire, KeyRow, DeleteWaiters
<1>2. ASSUME NEW j \in Jobs, Enqueue(j) PROVE TypeOK'
  BY <1>2 DEF Enqueue, KeyRow
<1>3. ASSUME NEW j \in Jobs, Admit(j) PROVE TypeOK'
  BY <1>3 DEF Admit, HasLiveTicket, DeleteWaiters, ForgetKeys
<1>4. ASSUME NEW j \in Jobs, StillBlocked(j) PROVE TypeOK'
  BY <1>4 DEF StillBlocked, DeleteWaiters, ForgetKeys
<1>5. ASSUME NEW j \in Jobs, Cancel(j) PROVE TypeOK'
  BY <1>5 DEF Cancel, DeleteWaiters, ForgetKeys
<1>6. ASSUME NEW j \in Jobs, NEW t \in Threads, BindThread(j, t) PROVE TypeOK'
  BY <1>6 DEF BindThread
<1>7. ASSUME NEW j \in Jobs, EndWork(j) PROVE TypeOK'
  BY <1>7 DEF EndWork, tables
<1>8. ASSUME NEW j \in Jobs, Release(j) PROVE TypeOK'
  BY <1>8 DEF Release, ForgetKeys
<1>9. ASSUME NEW j \in Jobs, Expire(j) PROVE TypeOK'
  BY <1>9 DEF Expire
<1>10. ASSUME NEW o \in Owners, Close(o) PROVE TypeOK'
  BY <1>10 DEF Close, DeleteWaiters, ForgetKeys
<1>11. ASSUME NEW o \in Owners, Crash(o) PROVE TypeOK'
  BY <1>11 DEF Crash, tables
<1>12. CASE UNCHANGED vars
  BY <1>12 DEF vars
<1>. QED
  BY <1>1, <1>2, <1>3, <1>4, <1>5, <1>6, <1>7, <1>8, <1>9, <1>10, <1>11, <1>12
     DEF Next

\* The tables and the handles always have the shape the code expects.
THEOREM TypeCorrect == Spec => []TypeOK
<1>1. Init => TypeOK
  BY DEF Init, TypeOK, ThreadKeys
<1>. QED
  BY <1>1, TypeIsInductive, PTL DEF Spec

LEMMA ConflictSymmetric ==
  ASSUME NEW k, NEW a, NEW b
  PROVE  Conflict(k, a, b) <=> Conflict(k, b, a)
BY DEF Conflict, Overlaps

\* Only the keys of the two rows decide whether they conflict.
LEMMA ConflictDependsOnKeys ==
  ASSUME NEW k, NEW l, NEW a, NEW b, k[a] = l[a], k[b] = l[b]
  PROVE  Conflict(k, a, b) <=> Conflict(l, a, b)
BY DEF Conflict

\* The claims stay compatible when a row joins that was not blocked and the
\* keys of the other claims stay as they were.
LEMMA JoinKeepsCompatible ==
  ASSUME NEW k, NEW l, NEW S, NEW j,
         Compatible(k, S), \A a \in S : l[a] = k[a],
         \A c \in S : ~Conflict(l, j, c)
  PROVE  Compatible(l, S \union {j})
<1>1. SUFFICES ASSUME NEW a \in S \union {j}, NEW b \in S \union {j}, a # b
               PROVE ~Conflict(l, a, b)
  BY DEF Compatible
<1>2. CASE a \in S /\ b \in S
  <2>1. ~Conflict(k, a, b)
    BY <1>1, <1>2 DEF Compatible
  <2>. QED
    BY <1>2, <2>1, ConflictDependsOnKeys
<1>3. CASE a = j /\ b \in S
  BY <1>3
<1>4. CASE a \in S /\ b = j
  BY <1>4, ConflictSymmetric
<1>. QED
  BY <1>1, <1>2, <1>3, <1>4

LEMMA SubsetKeepsCompatible ==
  ASSUME NEW k, NEW l, NEW S, NEW T, T \subseteq S,
         Compatible(k, S), \A a \in T : l[a] = k[a]
  PROVE  Compatible(l, T)
<1>1. SUFFICES ASSUME NEW a \in T, NEW b \in T, a # b PROVE ~Conflict(l, a, b)
  BY DEF Compatible
<1>2. ~Conflict(k, a, b)
  BY <1>1 DEF Compatible
<1>. QED
  BY <1>2, ConflictDependsOnKeys

LEMMA DeletingKeepsOrder ==
  ASSUME NEW gone, TypeOK, RowsOrdered, DeleteWaiters(gone)
  PROVE  RowsOrdered'
BY DEF TypeOK, RowsOrdered, DeleteWaiters

LEMMA AdmissionIsInductive == TypeOK /\ AdmissionInv /\ [Next]_vars => AdmissionInv'
<1>. SUFFICES ASSUME TypeOK, AdmissionInv, [Next]_vars PROVE AdmissionInv'
  OBVIOUS
<1>. USE DEF AdmissionInv
<1>1. ASSUME NEW j \in Jobs, Acquire(j) PROVE AdmissionInv'
  <2>1. \A c \in active : key'[c] = key[c]
    BY <1>1 DEF Acquire, KeyRow, Idle, TypeOK, OneTable
  <2>2. \A c \in active : ~Conflict(key', j, c)
    BY <1>1 DEF Acquire, Blocked
  <2>3. Compatible(key', active')
    BY <1>1, <2>1, <2>2, JoinKeepsCompatible DEF Acquire
  <2>4. RowsOrdered'
    BY <1>1, DeletingKeepsOrder DEF Acquire
  <2>5. RowsBack' /\ OneTable'
    BY <1>1 DEF Acquire, Idle, DeleteWaiters, RowsBack, OneTable
  <2>. QED
    BY <2>3, <2>4, <2>5
<1>2. ASSUME NEW j \in Jobs, Enqueue(j) PROVE AdmissionInv'
  <2>1. active' = active /\ \A c \in active : key'[c] = key[c]
    BY <1>2 DEF Enqueue, KeyRow, Idle, TypeOK, OneTable
  <2>2. Compatible(key', active')
    BY <2>1, SubsetKeepsCompatible
  <2>3. RowsOrdered'
    BY <1>2 DEF Enqueue, RowsOrdered, LiveWaiters, TypeOK
  <2>4. RowsBack' /\ OneTable'
    BY <1>2 DEF Enqueue, Idle, LiveWaiters, RowsBack, OneTable
  <2>. QED
    BY <2>2, <2>3, <2>4
<1>3. ASSUME NEW j \in Jobs, Admit(j) PROVE AdmissionInv'
  <2>1. \A c \in active \union {j} : key'[c] = key[c]
    BY <1>3 DEF Admit, HasLiveTicket, LiveWaiters, ForgetKeys, TypeOK, OneTable
  <2>2. \A c \in active : ~Conflict(key, j, c)
    BY <1>3 DEF Admit, Blocked, PriorRows
  <2>3. Compatible(key, active \union {j})
    BY <2>2, JoinKeepsCompatible
  <2>4. Compatible(key', active')
    BY <1>3, <2>1, <2>3, SubsetKeepsCompatible DEF Admit
  <2>5. RowsOrdered'
    BY <1>3, DeletingKeepsOrder DEF Admit
  <2>6. RowsBack' /\ OneTable'
    BY <1>3 DEF Admit, DeleteWaiters, RowsBack, OneTable
  <2>. QED
    BY <2>4, <2>5, <2>6
<1>4. ASSUME NEW j \in Jobs, StillBlocked(j) PROVE AdmissionInv'
  <2>1. active' = active /\ \A c \in active : key'[c] = key[c]
    BY <1>4 DEF StillBlocked, ForgetKeys, TypeOK, OneTable
  <2>2. Compatible(key', active')
    BY <2>1, SubsetKeepsCompatible
  <2>. QED
    BY <1>4, <2>2, DeletingKeepsOrder
       DEF StillBlocked, DeleteWaiters, RowsBack, OneTable
<1>5. ASSUME NEW j \in Jobs, Cancel(j) PROVE AdmissionInv'
  <2>1. active' = active /\ \A c \in active : key'[c] = key[c]
    BY <1>5 DEF Cancel, ForgetKeys, TypeOK, OneTable
  <2>2. Compatible(key', active')
    BY <2>1, SubsetKeepsCompatible
  <2>. QED
    BY <1>5, <2>2, DeletingKeepsOrder
       DEF Cancel, DeleteWaiters, RowsBack, OneTable
<1>6. ASSUME NEW j \in Jobs, NEW t \in Threads, BindThread(j, t) PROVE AdmissionInv'
  <2>1. j \in active
    BY <1>6 DEF BindThread, RowsBack
  <2>2. Compatible(key', active \ {j})
    <3>1. \A c \in active \ {j} : key'[c] = key[c]
      BY <1>6 DEF BindThread, TypeOK
    <3>. QED
      BY <3>1, SubsetKeepsCompatible
  <2>3. \A c \in active \ {j} : ~Conflict(key', j, c)
    <3>1. SUFFICES ASSUME NEW c \in active \ {j} PROVE ~Conflict(key', j, c)
      OBVIOUS
    <3>2. ~Conflict(key, j, c)
      BY <2>1 DEF Compatible
    <3>3. key'[c] = key[c] /\ key'[j] = t /\ key[c] # t
      BY <1>6 DEF BindThread, TypeOK
    <3>. QED
      BY <3>2, <3>3 DEF Conflict
  <2>4. Compatible(key', (active \ {j}) \union {j})
    BY <2>2, <2>3, JoinKeepsCompatible
  <2>5. Compatible(key', active')
    <3>1. active' = (active \ {j}) \union {j}
      BY <1>6, <2>1 DEF BindThread
    <3>. QED
      BY <2>4, <3>1
  <2>. QED
    BY <1>6, <2>5 DEF BindThread, RowsBack, OneTable, RowsOrdered
<1>7. ASSUME NEW j \in Jobs, EndWork(j) PROVE AdmissionInv'
  BY <1>7 DEF EndWork, tables, RowsBack, OneTable, RowsOrdered, Compatible, Conflict
<1>8. ASSUME NEW j \in Jobs, Release(j) PROVE AdmissionInv'
  <2>1. active' = active \ {j} /\ \A c \in active' : key'[c] = key[c]
    BY <1>8 DEF Release, ForgetKeys, TypeOK
  <2>2. Compatible(key', active')
    BY <2>1, SubsetKeepsCompatible
  <2>. QED
    BY <1>8, <2>2 DEF Release, RowsBack, OneTable, RowsOrdered
<1>9. ASSUME NEW j \in Jobs, Expire(j) PROVE AdmissionInv'
  BY <1>9 DEF Expire, RowsBack, OneTable, RowsOrdered, Compatible, Conflict
<1>10. ASSUME NEW o \in Owners, Close(o) PROVE AdmissionInv'
  <2>1. active' = active /\ \A c \in active : key'[c] = key[c]
    BY <1>10 DEF Close, ForgetKeys, TypeOK, OneTable
  <2>2. Compatible(key', active')
    BY <2>1, SubsetKeepsCompatible
  <2>3. RowsOrdered'
    BY <1>10, DeletingKeepsOrder DEF Close
  <2>. QED
    BY <1>10, <2>2, <2>3 DEF Close, DeleteWaiters, RowsBack, OneTable
<1>11. ASSUME NEW o \in Owners, Crash(o) PROVE AdmissionInv'
  BY <1>11 DEF Crash, tables, RowsBack, OneTable, RowsOrdered, Compatible, Conflict
<1>12. CASE UNCHANGED vars
  BY <1>12 DEF vars, RowsBack, OneTable, RowsOrdered, Compatible, Conflict
<1>. QED
  BY <1>1, <1>2, <1>3, <1>4, <1>5, <1>6, <1>7, <1>8, <1>9, <1>10, <1>11, <1>12
     DEF Next

\* Every row in execution_claims is compatible with every other, whoever wrote
\* it and whether or not its process is still there.
THEOREM AdmissionIsSound == Spec => []AdmissionInv
<1>1. Init => AdmissionInv
  BY DEF Init, AdmissionInv, RowsBack, OneTable, RowsOrdered, Compatible
<1>. QED
  BY <1>1, AdmissionIsInductive, TypeCorrect, PTL DEF Spec

\* No two operations that are really running conflict, through any number of
\* waits, cancellations, shutdowns and process deaths.
THEOREM RunningWorkIsCompatible == Spec => []WorkIsCompatible
<1>1. AdmissionInv => WorkIsCompatible
  BY DEF AdmissionInv, RowsBack, WorkIsCompatible, Compatible
<1>. QED
  BY <1>1, AdmissionIsSound, PTL

(***************************************************************************)
(* The limits.                                                             *)
(***************************************************************************)
LEMMA SubsetsAreFinite ==
  ASSUME NEW S \in SUBSET Jobs
  PROVE  IsFiniteSet(S) /\ Cardinality(S) \in Nat
BY JobsAssumption, FS_Subset, FS_CardinalityType

\* A bounded set that only lost members is still bounded.
LEMMA ShrinkingKeepsBound ==
  ASSUME NEW S \in SUBSET Jobs, NEW T \in SUBSET S, NEW n \in Nat,
         Cardinality(S) <= n
  PROVE  Cardinality(T) <= n
<1>1. IsFiniteSet(S) /\ Cardinality(S) \in Nat /\ Cardinality(T) \in Nat
  BY SubsetsAreFinite
<1>2. Cardinality(T) <= Cardinality(S)
  BY <1>1, FS_Subset
<1>. QED
  BY <1>1, <1>2

\* Adding one member to a set below a limit reaches that limit at most.
LEMMA GrowingByOne ==
  ASSUME NEW S \in SUBSET Jobs, NEW j \in Jobs, NEW n \in Nat, NEW m \in Nat,
         m <= n, ~(Cardinality(S) >= m)
  PROVE  Cardinality(S \union {j}) <= n
<1>1. IsFiniteSet(S) /\ Cardinality(S) \in Nat
  BY SubsetsAreFinite
<1>2. Cardinality(S \union {j}) <= Cardinality(S) + 1
  BY <1>1, FS_AddElement
<1>3. Cardinality(S \union {j}) \in Nat
  BY SubsetsAreFinite
<1>. QED
  BY <1>1, <1>2, <1>3

LEMMA RequestLimits ==
  ASSUME NEW j \in Jobs
  PROVE  /\ Request[j].agentLimit \in Nat /\ Request[j].agentLimit <= MaxAgents
         /\ Request[j].readerLimit \in Nat /\ Request[j].readerLimit <= MaxReaders
         /\ Request[j].root \in Roots
BY JobsAssumption, LimitsAssumption DEF Requests

\* Only an admission adds a claim, and it was not at a limit.
LEMMA ClaimsGrowByAdmission ==
  ASSUME TypeOK, [Next]_vars
  PROVE  \/ active' \subseteq active
         \/ \E j \in Jobs : active' = active \union {j} /\ ~AtLimit(j)
<1>1. ASSUME NEW j \in Jobs, Acquire(j) \/ Admit(j)
      PROVE  active' = active \union {j} /\ ~AtLimit(j)
  BY <1>1 DEF Acquire, Admit, Blocked
<1>2. ASSUME NEW j \in Jobs,
             Enqueue(j) \/ StillBlocked(j) \/ Cancel(j) \/ EndWork(j)
               \/ Release(j) \/ Expire(j) \/ \E t \in Threads : BindThread(j, t)
      PROVE  active' \subseteq active
  BY <1>2 DEF Enqueue, StillBlocked, Cancel, EndWork, Release, Expire, BindThread, tables
<1>3. ASSUME NEW o \in Owners, Close(o) \/ Crash(o) PROVE active' \subseteq active
  BY <1>3 DEF Close, Crash, tables
<1>4. CASE UNCHANGED vars
  BY <1>4 DEF vars
<1>. QED
  BY <1>1, <1>2, <1>3, <1>4 DEF Next

\* However turns, readers, processes and crashes interleave, no more than
\* MaxAgents agent claims exist at once.
THEOREM AgentsStayWithinLimit == Spec => []AgentsWithinLimit
<1>1. Init => AgentsWithinLimit
  BY FS_EmptySet, LimitsAssumption DEF Init, AgentsWithinLimit, AgentClaims
<1>2. TypeOK /\ AgentsWithinLimit /\ [Next]_vars => AgentsWithinLimit'
  <2>. SUFFICES ASSUME TypeOK, AgentsWithinLimit, [Next]_vars
                PROVE  AgentsWithinLimit'
    OBVIOUS
  <2>1. AgentClaims \in SUBSET Jobs /\ MaxAgents \in Nat
    BY LimitsAssumption DEF AgentClaims, TypeOK
  <2>2. CASE active' \subseteq active
    <3>1. AgentClaims' \in SUBSET AgentClaims
      BY <2>2 DEF AgentClaims
    <3>. QED
      BY <2>1, <3>1, ShrinkingKeepsBound DEF AgentsWithinLimit
  <2>3. ASSUME NEW j \in Jobs, active' = active \union {j}, ~AtLimit(j)
        PROVE  AgentsWithinLimit'
    <3>1. CASE IsAgent(j)
      <4>1. AgentClaims' = AgentClaims \union {j}
        BY <2>3, <3>1 DEF AgentClaims
      <4>2. ~(Cardinality(AgentClaims) >= Request[j].agentLimit)
        BY <2>3, <3>1 DEF AtLimit
      <4>. QED
        BY <2>1, <4>1, <4>2, RequestLimits, GrowingByOne DEF AgentsWithinLimit
    <3>2. CASE ~IsAgent(j)
      <4>1. AgentClaims' = AgentClaims
        BY <2>3, <3>2 DEF AgentClaims
      <4>. QED
        BY <4>1 DEF AgentsWithinLimit
    <3>. QED
      BY <3>1, <3>2
  <2>. QED
    BY <2>2, <2>3, ClaimsGrowByAdmission
<1>. QED
  BY <1>1, <1>2, TypeCorrect, PTL DEF Spec

\* The readers of one tree are all counted when another one asks to join: the
\* checkouts that contain a common root are nested in each other.
LEMMA ReadersAreCounted ==
  ASSUME TypeOK, NEW j \in Jobs, NEW r \in Roots, <<r, Request[j].root>> \in Within
  PROVE  ReadersOf(r) \subseteq ReadersBeside(j)
<1>1. SUFFICES ASSUME NEW k \in ReadersOf(r)
               PROVE  Overlaps(Request[k].root, Request[j].root)
  BY DEF ReadersOf, ReadersBeside
<1>2. k \in Jobs /\ <<r, Request[k].root>> \in Within
  BY <1>1 DEF ReadersOf, AgentClaims, TypeOK
<1>. QED
  BY <1>2, RequestLimits, WithinAssumption DEF Overlaps

\* No source tree ever has more than MaxReaders agents reading it, even when
\* they claim different nested checkouts.
THEOREM ReadersStayWithinLimit == Spec => []ReadersWithinLimit
<1>1. Init => ReadersWithinLimit
  BY FS_EmptySet, LimitsAssumption DEF Init, ReadersWithinLimit, ReadersOf, AgentClaims
<1>2. TypeOK /\ ReadersWithinLimit /\ [Next]_vars => ReadersWithinLimit'
  <2>. SUFFICES ASSUME TypeOK, ReadersWithinLimit, [Next]_vars, NEW r \in Roots
                PROVE  Cardinality(ReadersOf(r)') <= MaxReaders
    BY DEF ReadersWithinLimit
  <2>1. ReadersOf(r) \in SUBSET Jobs /\ MaxReaders \in Nat
        /\ Cardinality(ReadersOf(r)) <= MaxReaders
    BY LimitsAssumption DEF ReadersOf, AgentClaims, TypeOK, ReadersWithinLimit
  <2>2. CASE active' \subseteq active
    <3>1. ReadersOf(r)' \in SUBSET ReadersOf(r)
      BY <2>2 DEF ReadersOf, AgentClaims
    <3>. QED
      BY <2>1, <3>1, ShrinkingKeepsBound
  <2>3. ASSUME NEW j \in Jobs, active' = active \union {j}, ~AtLimit(j)
        PROVE  Cardinality(ReadersOf(r)') <= MaxReaders
    <3>1. CASE IsAgent(j) /\ Reads(j) /\ <<r, Request[j].root>> \in Within
      <4>1. ReadersOf(r)' = ReadersOf(r) \union {j}
        BY <2>3, <3>1 DEF ReadersOf, AgentClaims
      <4>2. ReadersBeside(j) \in SUBSET Jobs
        BY DEF ReadersBeside, AgentClaims, TypeOK
      <4>3. ~(Cardinality(ReadersBeside(j)) >= Request[j].readerLimit)
        BY <2>3, <3>1 DEF AtLimit
      <4>4. ReadersOf(r)' \in SUBSET (ReadersBeside(j) \union {j})
        BY <3>1, <4>1, ReadersAreCounted
      <4>5. Cardinality(ReadersBeside(j) \union {j}) <= MaxReaders
        BY <2>1, <4>2, <4>3, RequestLimits, GrowingByOne
      <4>. QED
        BY <2>1, <4>2, <4>4, <4>5, ShrinkingKeepsBound
    <3>2. CASE ~(IsAgent(j) /\ Reads(j) /\ <<r, Request[j].root>> \in Within)
      <4>1. ReadersOf(r)' = ReadersOf(r)
        BY <2>3, <3>2 DEF ReadersOf, AgentClaims
      <4>. QED
        BY <2>1, <4>1
    <3>. QED
      BY <3>1, <3>2
  <2>. QED
    BY <2>2, <2>3, ClaimsGrowByAdmission
<1>. QED
  BY <1>1, <1>2, TypeCorrect, PTL DEF Spec

\* What execution-coordinator.ts lets run together may run together, and no
\* source tree has more readers than the limit.
THEOREM WorkRunsSafely == Spec => []SafeUse
<1>1. WorkIsCompatible /\ ReadersWithinLimit => SafeUse
  BY DEF SafeUse
<1>. QED
  BY <1>1, RunningWorkIsCompatible, ReadersStayWithinLimit, PTL

\* The waiting table never holds more rows than its capacity.
THEOREM QueueStaysWithinCap == Spec => []QueueWithinCap
<1>1. Init => QueueWithinCap
  BY FS_EmptySet, LimitsAssumption DEF Init, QueueWithinCap
<1>2. TypeOK /\ QueueWithinCap /\ [Next]_vars => QueueWithinCap'
  <2>. SUFFICES ASSUME TypeOK, QueueWithinCap, [Next]_vars PROVE QueueWithinCap'
    OBVIOUS
  <2>1. waiters \in SUBSET Jobs /\ QueueCap \in Nat
    BY LimitsAssumption DEF TypeOK
  <2>2. ASSUME waiters' \subseteq waiters PROVE QueueWithinCap'
    BY <2>1, <2>2, ShrinkingKeepsBound DEF QueueWithinCap
  <2>3. ASSUME NEW j \in Jobs, Enqueue(j) PROVE QueueWithinCap'
    <3>1. LiveWaiters \in SUBSET Jobs
      BY <2>1 DEF LiveWaiters
    <3>2. IsFiniteSet(LiveWaiters) /\ Cardinality(LiveWaiters) \in Nat
      BY <3>1, SubsetsAreFinite
    <3>3. ~(Cardinality(LiveWaiters) >= QueueCap)
      BY <2>1, <2>3, <3>2 DEF Enqueue, HasRoom
    <3>. QED
      BY <2>1, <2>3, <3>1, <3>3, GrowingByOne DEF Enqueue, QueueWithinCap
  <2>4. ASSUME NEW j \in Jobs,
               Acquire(j) \/ Admit(j) \/ StillBlocked(j) \/ Cancel(j) \/ EndWork(j)
                 \/ Release(j) \/ Expire(j) \/ \E t \in Threads : BindThread(j, t)
        PROVE  waiters' \subseteq waiters
    BY <2>4 DEF Acquire, Admit, StillBlocked, Cancel, EndWork, Release, Expire,
                BindThread, DeleteWaiters, tables
  <2>5. ASSUME NEW o \in Owners, Close(o) \/ Crash(o) PROVE waiters' \subseteq waiters
    BY <2>5 DEF Close, Crash, DeleteWaiters, tables
  <2>6. CASE UNCHANGED vars
    BY <2>2, <2>6 DEF vars
  <2>. QED
    BY <2>2, <2>3, <2>4, <2>5, <2>6 DEF Next
<1>. QED
  BY <1>1, <1>2, TypeCorrect, PTL DEF Spec

(***************************************************************************)
(* The order.                                                              *)
(***************************************************************************)

\* A job that is admitted conflicts with no live waiter that was queued before
\* it; of two rows that waited together, the order tells which one that is.
LEMMA AdmissionRespectsOrder ==
  ASSUME TypeOK, AdmissionInv, NEW j \in Jobs, Acquire(j) \/ Admit(j),
         NEW w \in LiveWaiters \intersect waiters', Conflict(key', j, w)
  PROVE  j \in ahead[w]
<1>1. CASE Acquire(j)
  BY <1>1 DEF Acquire, Blocked
<1>2. CASE Admit(j)
  <2>1. w \in waiters /\ w \notin expired /\ w # j /\ j \in waiters /\ j \notin expired
    BY <1>2 DEF Admit, HasLiveTicket, LiveWaiters, DeleteWaiters
  <2>2. key'[j] = key[j] /\ key'[w] = key[w]
    BY <1>2, <2>1 DEF Admit, ForgetKeys, TypeOK
  <2>3. Conflict(key, j, w)
    BY <2>2, ConflictDependsOnKeys
  <2>4. w \notin ahead[j]
    BY <1>2, <2>1, <2>3 DEF Admit, Blocked, PriorRows
  <2>. QED
    BY <2>1, <2>4 DEF AdmissionInv, RowsOrdered
<1>. QED
  BY <1>1, <1>2

\* "An earlier writer blocks later readers": nobody is admitted past a live
\* waiter it conflicts with, unless it was queued before that waiter.
THEOREM NobodyOvertakes == Spec => NoOvertaking
<1>. DEFINE InOrder ==
       \A j \in active' \ active, w \in LiveWaiters \intersect waiters' :
          Conflict(key', j, w) => j \in ahead[w]
<1>1. TypeOK /\ AdmissionInv /\ [Next]_vars => [InOrder]_vars
  <2>. SUFFICES ASSUME TypeOK, AdmissionInv, [Next]_vars PROVE InOrder
    OBVIOUS
  <2>1. ASSUME NEW j \in Jobs, Acquire(j) \/ Admit(j) PROVE InOrder
    <3>1. active' \ active \subseteq {j}
      BY <2>1 DEF Acquire, Admit
    <3>. QED
      BY <2>1, <3>1, AdmissionRespectsOrder
  <2>2. CASE active' \subseteq active
    BY <2>2
  <2>3. ASSUME NEW j \in Jobs,
               Enqueue(j) \/ StillBlocked(j) \/ Cancel(j) \/ EndWork(j)
                 \/ Release(j) \/ Expire(j) \/ \E t \in Threads : BindThread(j, t)
        PROVE  active' \subseteq active
    BY <2>3 DEF Enqueue, StillBlocked, Cancel, EndWork, Release, Expire, BindThread, tables
  <2>4. ASSUME NEW o \in Owners, Close(o) \/ Crash(o) PROVE active' \subseteq active
    BY <2>4 DEF Close, Crash, tables
  <2>5. CASE UNCHANGED vars
    BY <2>5 DEF vars
  <2>. QED
    BY <2>1, <2>2, <2>3, <2>4, <2>5 DEF Next
<1>. QED
  BY <1>1, TypeCorrect, AdmissionIsSound, PTL DEF Spec, NoOvertaking

(***************************************************************************)
(* The abstract promise.                                                   *)
(***************************************************************************)
KeyInUse == [j \in Jobs |-> IF j \in active THEN key[j] ELSE NoThread]

LEMMA PromiseInit == Init => Promise!Init
BY DEF Init, Promise!Init

\* A claim that joins unblocked enters; one that goes leaves; a thread that is
\* bound was free; everything else changes nothing the promise can see.
LEMMA PromiseStep ==
  TypeOK /\ AdmissionInv /\ [Next]_vars => [Promise!Next]_(Promise!useVars)
<1>. SUFFICES ASSUME TypeOK, AdmissionInv, [Next]_vars
              PROVE  Promise!Next \/ UNCHANGED <<active, KeyInUse>>
  BY DEF Promise!useVars, KeyInUse
<1>. USE DEF AdmissionInv
<1>1. ASSUME NEW j \in Jobs, Acquire(j) \/ Admit(j) PROVE Promise!Enter(j)
  <2>1. j \notin active /\ active' = active \union {j}
    BY <1>1 DEF Acquire, Admit, Idle, HasLiveTicket, OneTable
  <2>2. \A c \in active : key'[c] = key[c]
    <3>1. CASE Acquire(j)
      BY <2>1, <3>1 DEF Acquire, KeyRow, TypeOK, OneTable
    <3>2. CASE Admit(j)
      BY <3>2 DEF Admit, ForgetKeys, TypeOK, OneTable
    <3>. QED
      BY <1>1, <3>1, <3>2
  <2>3. key'[j] \in ThreadKeys
    BY <1>1, TypeIsInductive DEF TypeOK
  <2>4. KeyInUse' = [KeyInUse EXCEPT ![j] = key'[j]]
    BY <2>1, <2>2 DEF KeyInUse, TypeOK
  <2>5. \A c \in active : ~Conflict(KeyInUse', j, c)
    <3>1. ASSUME NEW c \in active PROVE ~Conflict(key', j, c)
      <4>1. CASE Acquire(j)
        BY <3>1, <4>1 DEF Acquire, Blocked
      <4>2. CASE Admit(j)
        <5>1. key'[j] = key[j]
          BY <4>2 DEF Admit, ForgetKeys, HasLiveTicket, LiveWaiters, TypeOK
        <5>2. ~Conflict(key, j, c)
          BY <4>2 DEF Admit, Blocked, PriorRows
        <5>. QED
          BY <2>2, <5>1, <5>2, ConflictDependsOnKeys
      <4>. QED
        BY <1>1, <4>1, <4>2
    <3>2. ASSUME NEW c \in active
          PROVE  KeyInUse'[c] = key'[c] /\ KeyInUse'[j] = key'[j]
      BY <2>1 DEF KeyInUse, TypeOK
    <3>. QED
      BY <3>1, <3>2, ConflictDependsOnKeys
  <2>. QED
    BY <2>1, <2>3, <2>4, <2>5
       DEF Promise!Enter, Promise!Conflict, Promise!ThreadKeys, Promise!Overlaps,
           Promise!Reads, Conflict, ThreadKeys, Overlaps, Reads, KeyInUse
<1>2. ASSUME NEW j \in Jobs, Release(j) PROVE Promise!Leave(j)
  <2>1. j \in active /\ active' = active \ {j}
    BY <1>2 DEF Release, RowsBack
  <2>2. KeyInUse' = [KeyInUse EXCEPT ![j] = NoThread]
    BY <1>2, <2>1 DEF Release, ForgetKeys, KeyInUse, TypeOK
  <2>. QED
    BY <2>1, <2>2 DEF Promise!Leave, KeyInUse
<1>3. ASSUME NEW j \in Jobs, NEW t \in Threads, BindThread(j, t) PROVE Promise!Take(j, t)
  BY <1>3 DEF BindThread, RowsBack, TypeOK, Promise!Take
<1>4. ASSUME NEW j \in Jobs,
             Enqueue(j) \/ StillBlocked(j) \/ Cancel(j) \/ EndWork(j) \/ Expire(j)
      PROVE  UNCHANGED <<active, KeyInUse>>
  <2>1. active' = active /\ \A c \in active : key'[c] = key[c]
    BY <1>4 DEF Enqueue, StillBlocked, Cancel, EndWork, Expire, tables, KeyRow,
                ForgetKeys, Idle, OneTable, TypeOK
  <2>. QED
    BY <2>1 DEF KeyInUse
<1>5. ASSUME NEW o \in Owners, Close(o) \/ Crash(o)
      PROVE  UNCHANGED <<active, KeyInUse>>
  <2>1. active' = active /\ \A c \in active : key'[c] = key[c]
    BY <1>5 DEF Close, Crash, tables, ForgetKeys, OneTable, TypeOK
  <2>. QED
    BY <2>1 DEF KeyInUse
<1>6. CASE UNCHANGED vars
  BY <1>6 DEF vars, KeyInUse
<1>. QED
  BY <1>1, <1>2, <1>3, <1>4, <1>5, <1>6 DEF Next, Promise!Next

\* The admission tables implement the abstract promise: seen from outside,
\* jobs enter compatibly, take free threads and leave, whatever happens to
\* queues, clocks and processes.
THEOREM ImplementsPromise == Spec => ImplementsSourceUse
<1>. QED
  BY PromiseInit, PromiseStep, TypeCorrect, AdmissionIsSound, PTL
     DEF Spec, ImplementsSourceUse, Promise!Spec

-------------------------------------------------------------------------------
(***************************************************************************)
(* Opens.                                                                  *)
(***************************************************************************)
\* None is neither a conversation nor a call.
Nameless == None \notin Scopes /\ None \notin Calls

\* A call that goes on, and the others that do not.
LEMMA Becoming ==
  ASSUME call \in [Calls -> W!OpenCall], NEW c \in Calls, NEW r \in W!OpenCall, W!Becomes(c, r)
  PROVE  /\ call' \in [Calls -> W!OpenCall] /\ call'[c] = r
         /\ \A d \in Calls : d # c => call'[d] = call[d]
BY DEF W!Becomes

LEMMA WithoutContext ==
  ASSUME NEW r \in W!OpenCall
  PROVE  /\ [r EXCEPT !.context = FALSE] \in W!OpenCall
         /\ [r EXCEPT !.context = FALSE].step = r.step /\ [r EXCEPT !.context = FALSE].scope = r.scope
         /\ [r EXCEPT !.context = FALSE].missing = r.missing /\ [r EXCEPT !.context = FALSE].session = r.session
         /\ [r EXCEPT !.context = FALSE].context = FALSE
BY DEF W!OpenCall

\* The open of a call ends, and those who joined it get what it got.
LEMMA Settling ==
  ASSUME W!TypeOK, W!StepsKnow, NEW c \in Calls, NEW r \in W!OpenCall, W!Settles(c, r)
  PROVE  /\ call' \in [Calls -> W!OpenCall] /\ call'[c] = r
         /\ pending' \in [Scopes -> Calls \union {None}]
         /\ \A s \in Scopes : pending'[s] = IF pending[s] = c THEN None ELSE pending[s]
         /\ \A d \in Calls : d # c =>
               \/ call'[d] = call[d]
               \/ /\ call[d].step = "joined" /\ call[d].scope = r.scope /\ r.scope # None
                  /\ call'[d] = [r EXCEPT !.context = FALSE]
<1>1. [r EXCEPT !.context = FALSE] \in W!OpenCall
  BY WithoutContext
<1>. DEFINE e == [r EXCEPT !.context = FALSE]
<1>2. /\ pending' = [s \in Scopes |-> IF pending[s] = c THEN None ELSE pending[s]]
      /\ call' = [d \in Calls |->
          IF d = c THEN r
          ELSE IF call[d].step = "joined" /\ call[d].scope = r.scope /\ pending[r.scope] = c
          THEN e ELSE call[d]]
  BY DEF W!Settles
<1>. HIDE DEF e
<1>3. \A d \in Calls : call[d].step = "joined" => call[d].scope # None
  BY DEF W!StepsKnow, W!Knows
<1>4. call' \in [Calls -> W!OpenCall] /\ call'[c] = r
  BY <1>1, <1>2 DEF e, W!TypeOK
<1>5. \A d \in Calls : d # c =>
               \/ call'[d] = call[d]
               \/ call[d].step = "joined" /\ call[d].scope = r.scope /\ call'[d] = e
  BY <1>2
<1>6. pending' \in [Scopes -> Calls \union {None}]
  BY <1>2 DEF W!TypeOK
<1>. QED
  BY <1>2, <1>3, <1>4, <1>5, <1>6 DEF e

\* Calls that get no session: what was said of the others stays so.
GainsNothing(d) ==
  /\ W!Has(d)' => W!Has(d) /\ call'[d].session = call[d].session /\ call'[d].scope = call[d].scope
  /\ call'[d].step = "load" => call'[d] = call[d]
  /\ W!Provides(d)' => W!Provides(d) /\ call'[d].session = call[d].session

LEMMA Ungaining ==
  ASSUME NEW d \in Calls, call'[d].step \in {"load", "opened", "answered"} => call'[d] = call[d]
  PROVE  GainsNothing(d)
BY DEF GainsNothing, W!Has, W!Provides

LEMMA ContextsStay ==
  ASSUME W!ContextIsTheMakers, \A d \in Calls : GainsNothing(d)
  PROVE  W!ContextIsTheMakers'
BY DEF W!ContextIsTheMakers, GainsNothing

LEMMA Recalled ==
  ASSUME W!TypeOK, W!StepsKnow, UNCHANGED sessions,
         NEW e \in Calls, NEW s \in Scopes, GainsNothing(e), W!Has(e)', W!Of(e, s)'
  PROVE  /\ W!Has(e) /\ W!Of(e, s) /\ call'[e].session = call[e].session
         /\ W!Incarnation(e)' = W!Incarnation(e) /\ W!Incarnation(e) \in 1 .. made
BY DEF GainsNothing, W!Has, W!Of, W!Incarnation, W!TypeOK, W!StepsKnow, W!Knows

LEMMA UnboundStay ==
  ASSUME W!TypeOK, W!StepsKnow, W!UnboundIsOld, UNCHANGED <<sessions, binding>>,
         \A d \in Calls : call'[d].scope # None => GainsNothing(d), Nameless,
         dir' \in {0, dir, made + 1}
  PROVE  W!UnboundIsOld'
<1>1. ASSUME NEW e \in Calls, NEW s \in Scopes, W!Has(e)', W!Of(e, s)'
      PROVE  /\ W!Has(e) /\ W!Of(e, s) /\ call'[e].session = call[e].session
             /\ W!Incarnation(e)' = W!Incarnation(e) /\ W!Incarnation(e) \in 1 .. made
  <2>1. GainsNothing(e)
    BY <1>1 DEF W!Of
  <2>. QED
    BY <1>1, <2>1, Recalled
<1>2. ASSUME NEW e \in Calls, NEW s \in Scopes, W!Has(e)', W!Of(e, s)'
      PROVE  W!Incarnation(e)' # dir' \/ ~ (call'[e].session # binding'[s])
  BY <1>1, <1>2 DEF W!UnboundIsOld, W!TypeOK
<1>3. ASSUME NEW e \in Calls, NEW s \in Scopes, W!Has(e)', W!Of(e, s)'
      PROVE  call'[e].session # binding'[s] /\ binding'[s] # 0 => W!Incarnation(e)' # sessions'[binding'[s]]
  BY <1>1, <1>3 DEF W!UnboundIsOld, W!TypeOK
<1>4. ASSUME NEW e \in Calls, NEW s \in Scopes, W!Has(e)', W!Of(e, s)',
             NEW c \in Calls, call'[c].step = "load", W!Of(c, s)'
      PROVE  W!Incarnation(e)' # W!Incarnation(c)'
  <2>1. call'[c] = call[c]
    BY <1>4 DEF GainsNothing, W!Of
  <2>. QED
    BY <1>1, <1>4, <2>1 DEF W!UnboundIsOld, W!Of, W!Incarnation
<1>5. ASSUME NEW e \in Calls, NEW s \in Scopes, W!Has(e)', W!Of(e, s)',
             NEW d \in Calls, W!Has(d)', W!Of(d, s)', call'[d].session # call'[e].session
      PROVE  W!Incarnation(e)' # W!Incarnation(d)'
  BY <1>1, <1>5 DEF W!UnboundIsOld
<1>. QED
  BY <1>2, <1>3, <1>4, <1>5 DEF W!UnboundIsOld

LEMMA AnswersStay ==
  ASSUME W!RepliesAreOfCalls, replies' = replies,
         \A d \in Calls : call[d].step = "answered" => call'[d] = call[d]
  PROVE  W!RepliesAreOfCalls'
BY DEF W!RepliesAreOfCalls

\* Who does not go on knows what it knew, if nobody touched its binding.
LEMMA OthersKnow ==
  ASSUME NEW d \in Calls, W!Knows(d), call'[d] = call[d], DOMAIN sessions \subseteq DOMAIN sessions',
         call[d].step \in W!Active /\ call[d].scope # None =>
             binding'[call[d].scope] = binding[call[d].scope]
  PROVE  W!Knows(d)'
BY DEF W!Knows, W!Has, W!Active, W!Steps

LEMMA OthersMiss ==
  ASSUME W!TypeOK, NEW d \in Calls, W!Knows(d), W!FoundMissing(d), call'[d] = call[d],
         DOMAIN sessions \subseteq DOMAIN sessions',
         \A w \in DOMAIN sessions : sessions'[w] = sessions[w],
         made' \in Nat, made <= made', dir' \in {0, dir, made + 1},
         call[d].step = "prepare" => binding'[call[d].scope] = binding[call[d].scope]
  PROVE  W!FoundMissing(d)'
<1>1. call[d] \in W!OpenCall /\ call[d].missing \in Nat
  BY DEF W!TypeOK, W!OpenCall
<1>. DEFINE r == call[d]
<1>2. r.step \in {"new", "stat"} => r.missing = 0
  BY DEF W!FoundMissing
<1>3. r.step \in {"prepare", "open"} /\ r.missing # 0 => r.missing # dir' /\ r.missing <= made'
  BY <1>1 DEF W!FoundMissing, W!TypeOK
<1>4. r.step = "prepare" /\ r.missing # 0 /\ binding'[r.scope] # 0
            => sessions'[binding'[r.scope]] <= r.missing
  <2>1. r.step = "prepare" => r.scope \in Scopes
    BY <1>1 DEF W!Knows, W!OpenCall
  <2>. QED
    BY <2>1 DEF W!FoundMissing, W!TypeOK
<1>5. (W!Has(d) \/ r.step = "load") /\ r.missing # 0 => sessions'[r.session] > r.missing
  BY DEF W!FoundMissing, W!Knows, W!Incarnation
<1>. QED
  BY <1>2, <1>3, <1>4, <1>5 DEF W!FoundMissing, W!Has, W!Incarnation

\* What one call does leaves the others knowing what they know.
LEMMA OthersGoOn ==
  ASSUME W!OpensInv, NEW c \in Calls, NEW d \in Calls, d # c, call'[d] = call[d],
         DOMAIN sessions \subseteq DOMAIN sessions', \A w \in DOMAIN sessions : sessions'[w] = sessions[w],
         made' \in Nat, made <= made', dir' \in {0, dir, made + 1},
         \A s \in Scopes : binding'[s] = binding[s] \/ pending[s] = c
  PROVE  W!Knows(d)' /\ W!FoundMissing(d)'
<1>1. W!TypeOK /\ W!OneOpensAtATime /\ W!Knows(d) /\ W!FoundMissing(d)
  BY DEF W!OpensInv, W!StepsKnow, W!MissingIsGone
<1>2. call[d].step \in W!Active /\ call[d].scope # None => binding'[call[d].scope] = binding[call[d].scope]
  <2>1. call[d].scope \in Scopes \union {None}
    BY <1>1 DEF W!TypeOK, W!OpenCall
  <2>. QED
    BY <1>1, <2>1 DEF W!OneOpensAtATime
<1>3. call[d].step = "prepare" => call[d].step \in W!Active /\ call[d].scope # None
  BY <1>1 DEF W!Knows, W!Active, W!Steps
<1>4. W!Knows(d)'
  BY <1>1, <1>2, OthersKnow
<1>5. W!FoundMissing(d)'
  BY <1>1, <1>2, <1>3, OthersMiss
<1>. QED
  BY <1>4, <1>5

\* The call of an open goes on without a session.
LEMMA GoingOn ==
  ASSUME W!OpensInv, NEW c \in Calls, NEW r \in W!OpenCall, W!Becomes(c, r),
         r.step \notin {"load", "opened", "answered"}, call[c].step # "answered",
         UNCHANGED <<sessions, replies>>, made' \in Nat, made <= made', dir' \in {0, dir, made + 1},
         \A s \in Scopes : binding'[s] = binding[s] \/ pending[s] = c,
         W!Knows(c)', W!FoundMissing(c)'
  PROVE  /\ W!StepsKnow' /\ W!MissingIsGone' /\ W!ContextIsTheMakers' /\ W!RepliesAreOfCalls'
         /\ \A d \in Calls : GainsNothing(d)
<1>1. W!TypeOK /\ W!ContextIsTheMakers /\ W!RepliesAreOfCalls
  BY DEF W!OpensInv
<1>2. call'[c] = r /\ \A d \in Calls : d # c => call'[d] = call[d]
  BY <1>1, Becoming DEF W!TypeOK
<1>3. ASSUME NEW d \in Calls PROVE GainsNothing(d)
  BY <1>2, Ungaining
<1>4. \A d \in Calls : call[d].step = "answered" => call'[d] = call[d]
  BY <1>2
<1>5. ASSUME NEW d \in Calls, d # c PROVE W!Knows(d)' /\ W!FoundMissing(d)'
  BY <1>2, <1>5, OthersGoOn
<1>. QED
  BY <1>1, <1>3, <1>4, <1>5, ContextsStay, AnswersStay DEF W!StepsKnow, W!MissingIsGone

LEMMA OwnersStay ==
  ASSUME W!TypeOK, W!OneOpensAtATime, pending' = pending,
         \A d \in Calls : call'[d].step \in W!Active => call[d].step \in W!Active /\ call'[d].scope = call[d].scope,
         \A d \in Calls : call[d].step \in W!Active => call'[d].step \in W!Active /\ call'[d].scope = call[d].scope
  PROVE  W!OneOpensAtATime'
<1>1. pending \in [Scopes -> Calls \union {None}]
  BY DEF W!TypeOK
<1>. QED
  BY <1>1 DEF W!OneOpensAtATime

\* A call moves on to another step of its open.
LEMMA OwnerMoves ==
  ASSUME W!TypeOK, W!OneOpensAtATime, pending' = pending, NEW c \in Calls, NEW r \in W!OpenCall,
         call'[c] = r, \A d \in Calls : d # c => call'[d] = call[d],
         call[c].step \in W!Active, r.step \in W!Active, r.scope = call[c].scope
  PROVE  W!OneOpensAtATime'
<1>1. \A d \in Calls : call'[d].scope = call[d].scope
                       /\ (call'[d].step \in W!Active <=> call[d].step \in W!Active)
  OBVIOUS
<1>. QED
  BY <1>1, OwnersStay

LEMMA StatKeeps ==
  ASSUME Nameless, W!OpensInv, NEW c \in Calls, W!Stat(c)
  PROVE  W!OpensInv'
<1>. DEFINE r == [call[c] EXCEPT !.step = "prepare", !.missing = IF dir = 0 THEN made ELSE 0]
<1>1. W!TypeOK /\ W!OneOpensAtATime /\ W!StepsKnow /\ W!MissingIsGone /\ W!UnboundIsOld
  BY DEF W!OpensInv
<1>2. call[c] \in W!OpenCall /\ call[c].step = "stat" /\ W!Becomes(c, r)
  BY <1>1 DEF W!Stat, W!TypeOK
<1>3. UNCHANGED <<dir, made, sessions, binding, cache, pending, replies>>
  BY DEF W!Stat
<1>4. r \in W!OpenCall
  BY <1>1, <1>2 DEF W!OpenCall, W!Steps, W!TypeOK
<1>5. /\ r.step = "prepare" /\ r.missing = IF dir = 0 THEN made ELSE 0
      /\ r.scope = call[c].scope /\ r.previous = call[c].previous /\ r.session = call[c].session
      /\ r.context = call[c].context
  BY <1>2 DEF W!OpenCall
<1>. HIDE DEF r
<1>6. /\ call' \in [Calls -> W!OpenCall] /\ call'[c] = r
      /\ \A d \in Calls : d # c => call'[d] = call[d]
  BY <1>1, <1>2, <1>4, Becoming DEF W!TypeOK
<1>7. W!TypeOK'
  BY <1>1, <1>3, <1>6 DEF W!TypeOK
<1>8. W!OneOpensAtATime'
  <2>1. call[c].step \in W!Active /\ r.step \in W!Active
    BY <1>2, <1>5 DEF W!Active, W!Steps
  <2>. QED
    BY <1>1, <1>3, <1>4, <1>5, <1>6, <2>1, OwnerMoves
<1>9. W!Knows(c)'
  BY <1>1, <1>2, <1>3, <1>5, <1>6 DEF W!StepsKnow, W!Knows, W!Has
<1>10. W!FoundMissing(c)'
  <2>1. call[c].scope \in Scopes
    BY <1>1, <1>2 DEF W!StepsKnow, W!Knows, W!OpenCall
  <2>. QED
    BY <1>1, <1>2, <1>3, <1>5, <1>6, <2>1 DEF W!TypeOK, W!StepsKnow, W!Knows, W!FoundMissing, W!Has
<1>11. /\ W!StepsKnow' /\ W!MissingIsGone' /\ W!ContextIsTheMakers' /\ W!RepliesAreOfCalls'
       /\ \A d \in Calls : GainsNothing(d)
  <2>1. r.step \notin {"load", "opened", "answered"} /\ call[c].step # "answered"
    BY <1>2, <1>5
  <2>2. made' \in Nat /\ made <= made' /\ dir' \in {0, dir, made + 1}
    BY <1>1, <1>3 DEF W!TypeOK
  <2>. QED
    BY <1>2, <1>3, <1>4, <1>9, <1>10, <2>1, <2>2, GoingOn
<1>12. W!UnboundIsOld'
  BY <1>1, <1>3, <1>11, UnboundStay
<1>. QED
  BY <1>7, <1>8, <1>11, <1>12 DEF W!OpensInv

LEMMA Stepped ==
  ASSUME NEW k \in W!OpenCall, NEW x \in W!Steps
  PROVE  /\ [k EXCEPT !.step = x] \in W!OpenCall /\ [k EXCEPT !.step = x].step = x
         /\ [k EXCEPT !.step = x].scope = k.scope /\ [k EXCEPT !.step = x].missing = k.missing
         /\ [k EXCEPT !.step = x].previous = k.previous
         /\ [k EXCEPT !.step = x].session = k.session /\ [k EXCEPT !.step = x].context = k.context
<1>1. k.step \in W!Steps
  BY DEF W!OpenCall
<1>2. [k EXCEPT !.step = x] \in W!OpenCall
  BY DEF W!OpenCall
<1>. QED
  BY <1>2 DEF W!OpenCall

LEMMA Rooted ==
  ASSUME W!TypeOK, NEW create \in BOOLEAN, W!PrepareRoot(create)
  PROVE  /\ made' \in Nat \ {0} /\ made <= made' /\ dir' = made'
         /\ dir' \in {dir, made + 1} /\ (dir = 0 => dir' = made + 1)
BY DEF W!TypeOK, W!PrepareRoot

\* A binding is dropped when the directory of its session is gone.
LEMMA UnboundDrops ==
  ASSUME W!TypeOK, W!StepsKnow, W!UnboundIsOld, UNCHANGED sessions,
         \A d \in Calls : GainsNothing(d), dir' \in {0, dir, made + 1},
         NEW x \in Scopes, binding' = [binding EXCEPT ![x] = 0],
         binding[x] # 0 => sessions[binding[x]] # dir'
  PROVE  W!UnboundIsOld'
<1>1. ASSUME NEW e \in Calls, NEW s \in Scopes, W!Has(e)', W!Of(e, s)'
      PROVE  /\ W!Has(e) /\ W!Of(e, s) /\ call'[e].session = call[e].session
             /\ W!Incarnation(e)' = W!Incarnation(e) /\ W!Incarnation(e) \in 1 .. made
  BY <1>1, Recalled
<1>2. ASSUME NEW e \in Calls, NEW s \in Scopes, W!Has(e)', W!Of(e, s)', call'[e].session # binding'[s]
      PROVE  W!Incarnation(e)' # dir'
  <2>1. W!Incarnation(e) # dir => W!Incarnation(e)' # dir'
    BY <1>1, <1>2 DEF W!TypeOK
  <2>2. CASE call[e].session = binding[s]
    <3>1. s = x /\ binding[x] # 0
      BY <1>1, <1>2, <2>2 DEF W!TypeOK, W!StepsKnow, W!Knows
    <3>. QED
      BY <1>1, <1>2, <2>2, <3>1 DEF W!Incarnation
  <2>3. CASE call[e].session # binding[s]
    BY <1>1, <1>2, <2>1, <2>3 DEF W!UnboundIsOld
  <2>. QED
    BY <2>2, <2>3
<1>3. ASSUME NEW e \in Calls, NEW s \in Scopes, W!Has(e)', W!Of(e, s)'
      PROVE  call'[e].session # binding'[s] /\ binding'[s] # 0 => W!Incarnation(e)' # sessions'[binding'[s]]
  <2>1. binding'[s] # 0 => binding'[s] = binding[s]
    BY DEF W!TypeOK
  <2>. QED
    BY <1>1, <1>3, <2>1 DEF W!UnboundIsOld
<1>4. ASSUME NEW e \in Calls, NEW s \in Scopes, W!Has(e)', W!Of(e, s)',
             NEW c \in Calls, call'[c].step = "load", W!Of(c, s)'
      PROVE  W!Incarnation(e)' # W!Incarnation(c)'
  <2>1. call'[c] = call[c]
    BY <1>4 DEF GainsNothing
  <2>. QED
    BY <1>1, <1>4, <2>1 DEF W!UnboundIsOld, W!Of, W!Incarnation
<1>5. ASSUME NEW e \in Calls, NEW s \in Scopes, W!Has(e)', W!Of(e, s)',
             NEW d \in Calls, W!Has(d)', W!Of(d, s)', call'[d].session # call'[e].session
      PROVE  W!Incarnation(e)' # W!Incarnation(d)'
  BY <1>1, <1>5 DEF W!UnboundIsOld
<1>. QED
  BY <1>2, <1>3, <1>4, <1>5 DEF W!UnboundIsOld

LEMMA PrepareKeeps ==
  ASSUME Nameless, W!OpensInv, NEW c \in Calls, W!Prepare(c)
  PROVE  W!OpensInv'
<1>. DEFINE bound == binding[call[c].scope]
            x == IF bound = 0 \/ call[c].missing # 0 THEN "open" ELSE "reuse"
            r == [call[c] EXCEPT !.step = x]
<1>1. W!TypeOK /\ W!OneOpensAtATime /\ W!StepsKnow /\ W!MissingIsGone /\ W!UnboundIsOld
  BY DEF W!OpensInv
<1>2. call[c] \in W!OpenCall /\ call[c].step = "prepare" /\ W!PrepareRoot(call[c].create)
  BY <1>1 DEF W!Prepare, W!TypeOK
<1>3. UNCHANGED <<sessions, pending, replies>>
  BY DEF W!Prepare
<1>4. call[c].scope \in Scopes /\ bound = call[c].previous /\ pending[call[c].scope] = c
  BY <1>1, <1>2 DEF W!StepsKnow, W!Knows, W!OneOpensAtATime, W!Active, W!Steps, W!OpenCall
<1>5. /\ W!Becomes(c, r)
      /\ \/ bound # 0 /\ call[c].missing # 0 /\ binding' = [binding EXCEPT ![call[c].scope] = 0]
         \/ (bound = 0 \/ call[c].missing = 0) /\ binding' = binding
  BY <1>4 DEF W!Prepare, W!DropBinding
<1>6. /\ made' \in Nat \ {0} /\ made <= made' /\ dir' = made'
      /\ dir' \in {dir, made + 1} /\ (dir = 0 => dir' = made + 1)
  <2>1. call[c].create \in BOOLEAN
    BY <1>2 DEF W!OpenCall
  <2>. QED
    BY <1>1, <1>2, <2>1, Rooted
<1>7. x \in W!Steps /\ x \in W!Active /\ x \in {"open", "reuse"}
  BY DEF W!Steps, W!Active
<1>8. /\ r \in W!OpenCall /\ r.step = x /\ r.scope = call[c].scope /\ r.missing = call[c].missing
      /\ r.previous = call[c].previous /\ r.session = call[c].session /\ r.context = call[c].context
  BY <1>2, <1>7, Stepped
<1>. HIDE DEF r
<1>9. /\ call' \in [Calls -> W!OpenCall] /\ call'[c] = r
      /\ \A d \in Calls : d # c => call'[d] = call[d]
  BY <1>1, <1>5, <1>8, Becoming DEF W!TypeOK
<1>10. binding' \in [Scopes -> Nat] /\ \A s \in Scopes : binding'[s] \in {0, binding[s]}
       /\ \A t \in Scopes : t # call[c].scope => binding'[t] = binding[t]
  <2>1. binding \in [Scopes -> Nat]
    BY <1>1 DEF W!TypeOK
  <2>2. CASE binding' = binding
    BY <2>1, <2>2
  <2>3. CASE binding' = [binding EXCEPT ![call[c].scope] = 0]
    BY <2>1, <2>3
  <2>. QED
    BY <1>5, <2>2, <2>3
<1>11. W!TypeOK'
  BY <1>1, <1>3, <1>6, <1>9, <1>10 DEF W!TypeOK
<1>12. W!OneOpensAtATime'
  <2>1. call[c].step \in W!Active
    BY <1>2 DEF W!Active, W!Steps
  <2>. QED
    BY <1>1, <1>3, <1>7, <1>8, <1>9, <2>1, OwnerMoves
<1>13. call[c].missing # 0 => call[c].missing # dir' /\ call[c].missing <= made'
  <2>1. call[c].missing \in Nat
    BY <1>2 DEF W!OpenCall
  <2>. QED
    BY <1>1, <1>2, <1>6, <2>1 DEF W!MissingIsGone, W!FoundMissing, W!TypeOK
<1>14. W!Knows(c)'
  <2>1. W!Knows(c)
    BY <1>1 DEF W!StepsKnow
  <2>2. binding'[call[c].scope] = 0 <=> x = "open"
    BY <1>1, <1>4, <1>5 DEF W!TypeOK
  <2>. QED
    BY <1>2, <1>4, <1>5, <1>7, <1>8, <1>9, <2>1, <2>2 DEF W!Knows, W!Has
<1>15. W!FoundMissing(c)'
  BY <1>7, <1>8, <1>9, <1>13 DEF W!FoundMissing, W!Has
<1>16. /\ W!StepsKnow' /\ W!MissingIsGone' /\ W!ContextIsTheMakers' /\ W!RepliesAreOfCalls'
       /\ \A d \in Calls : GainsNothing(d)
  <2>1. r.step \notin {"load", "opened", "answered"} /\ call[c].step # "answered"
    BY <1>2, <1>7, <1>8
  <2>2. made' \in Nat /\ made <= made' /\ dir' \in {0, dir, made + 1}
    BY <1>6
  <2>3. \A s \in Scopes : binding'[s] = binding[s] \/ pending[s] = c
    BY <1>4, <1>10
  <2>. QED
    BY <1>3, <1>5, <1>8, <1>14, <1>15, <2>1, <2>2, <2>3, GoingOn
<1>17. W!UnboundIsOld'
  <2>1. dir' \in {0, dir, made + 1}
    BY <1>6
  <2>2. CASE binding' = binding
    BY <1>1, <1>3, <1>16, <2>1, <2>2, UnboundStay
  <2>3. CASE bound # 0 /\ call[c].missing # 0 /\ binding' = [binding EXCEPT ![call[c].scope] = 0]
    <3>1. sessions[bound] <= call[c].missing
      BY <1>1, <1>2, <2>3 DEF W!MissingIsGone, W!FoundMissing
    <3>4. call[c].missing \in Nat
      BY <1>2 DEF W!OpenCall
    <3>5. sessions[bound] \in Nat
      BY <1>1, <1>4, <2>3 DEF W!TypeOK
    <3>2. call[c].missing <= made /\ call[c].missing # dir
      BY <1>1, <1>2, <2>3 DEF W!MissingIsGone, W!FoundMissing
    <3>3. sessions[bound] # dir'
      BY <1>1, <1>6, <3>1, <3>2, <3>4, <3>5 DEF W!TypeOK
    <3>. QED
      BY <1>1, <1>3, <1>4, <1>16, <2>1, <2>3, <3>3, UnboundDrops
  <2>. QED
    BY <1>5, <2>2, <2>3
<1>. QED
  BY <1>11, <1>12, <1>16, <1>17 DEF W!OpensInv

LEMMA Joining ==
  ASSUME NEW s \in Scopes, NEW j, j = [W!NoCall EXCEPT !.step = "joined", !.scope = s]
  PROVE  j \in W!OpenCall /\ j.step = "joined" /\ j.scope = s /\ j.missing = 0 /\ j.context = FALSE
BY DEF W!NoCall, W!OpenCall, W!Steps

LEMMA OpenKeeps ==
  ASSUME Nameless, W!OpensInv, NEW c \in Calls, NEW s \in Scopes, NEW create \in BOOLEAN,
         W!Open(c, s, create)
  PROVE  W!OpensInv'
<1>. DEFINE joins == pending[s] # None
            r == IF joins THEN [W!NoCall EXCEPT !.step = "joined", !.scope = s]
                 ELSE [W!NoCall EXCEPT !.step = "stat", !.scope = s, !.create = create,
                                       !.previous = binding[s]]
<1>1. W!TypeOK /\ W!OneOpensAtATime /\ W!StepsKnow /\ W!MissingIsGone /\ W!UnboundIsOld
  BY DEF W!OpensInv
<1>2. call[c].step = "new" /\ W!Becomes(c, r)
  BY DEF W!Open
<1>3. UNCHANGED <<dir, made, sessions, binding, replies>>
      /\ pending' = IF joins THEN pending ELSE [pending EXCEPT ![s] = c]
  BY DEF W!Open
<1>4. /\ r \in W!OpenCall /\ r.scope = s /\ r.missing = 0 /\ r.context = FALSE
      /\ IF joins THEN r.step = "joined" ELSE r.step = "stat" /\ r.previous = binding[s]
  <2>1. binding[s] \in Nat
    BY <1>1 DEF W!TypeOK
  <2>2. CASE joins
    <3>1. r = [W!NoCall EXCEPT !.step = "joined", !.scope = s]
      BY <2>2
    <3>. HIDE DEF r
    <3>. QED
      BY <2>2, <3>1, Joining
  <2>3. CASE ~joins
    <3>1. r = [W!NoCall EXCEPT !.step = "stat", !.scope = s, !.create = create,
                               !.previous = binding[s]]
      BY <2>3
    <3>. HIDE DEF r
    <3>2. /\ r \in W!OpenCall /\ r.step = "stat" /\ r.scope = s /\ r.missing = 0
          /\ r.context = FALSE /\ r.previous = binding[s]
      BY <2>1, <3>1 DEF W!NoCall, W!OpenCall, W!Steps
    <3>. QED
      BY <2>3, <3>2
  <2>. QED
    BY <2>2, <2>3
<1>. HIDE DEF r
<1>5. /\ call' \in [Calls -> W!OpenCall] /\ call'[c] = r
      /\ \A d \in Calls : d # c => call'[d] = call[d]
  BY <1>1, <1>2, <1>4, Becoming DEF W!TypeOK
<1>6. pending \in [Scopes -> Calls \union {None}] /\ pending' \in [Scopes -> Calls \union {None}]
  BY <1>1, <1>3 DEF W!TypeOK
<1>7. W!TypeOK'
  BY <1>1, <1>3, <1>5, <1>6 DEF W!TypeOK
<1>8. W!OneOpensAtATime'
  <2>1. call[c].step \notin W!Active /\ "joined" \notin W!Active /\ "stat" \in W!Active
    BY <1>2 DEF W!Active, W!Steps
  <2>2. CASE joins
    BY <1>1, <1>3, <1>4, <1>5, <1>6, <2>1, <2>2 DEF W!OneOpensAtATime
  <2>3. CASE ~joins
    <3>1. pending'[s] = c /\ \A t \in Scopes : t # s => pending'[t] = pending[t]
      BY <1>3, <1>6, <2>3
    <3>2. ASSUME NEW d \in Calls, call'[d].step \in W!Active, call'[d].scope # None
          PROVE  pending'[call'[d].scope] = d
      <4>1. CASE d = c
        BY <1>4, <1>5, <3>1, <4>1
      <4>2. CASE d # c
        <5>1. pending[call[d].scope] = d /\ call[d].scope \in Scopes
          BY <1>1, <1>5, <3>2, <4>2 DEF W!OneOpensAtATime, W!TypeOK, W!OpenCall
        <5>2. call[d].scope # s
          BY <2>3, <5>1 DEF Nameless
        <5>. QED
          BY <1>5, <3>1, <4>2, <5>1, <5>2
      <4>. QED
        BY <4>1, <4>2
    <3>3. ASSUME NEW t \in Scopes, pending'[t] # None
          PROVE  call'[pending'[t]].step \in W!Active /\ call'[pending'[t]].scope = t
      <4>1. CASE t = s
        BY <1>4, <1>5, <2>1, <2>3, <3>1, <4>1
      <4>2. CASE t # s
        <5>1. pending[t] \in Calls /\ call[pending[t]].step \in W!Active /\ call[pending[t]].scope = t
          BY <1>1, <1>6, <3>1, <3>3, <4>2 DEF W!OneOpensAtATime
        <5>. QED
          BY <1>5, <2>1, <3>1, <4>2, <5>1
      <4>. QED
        BY <4>1, <4>2
    <3>. QED
      BY <3>2, <3>3 DEF W!OneOpensAtATime
  <2>. QED
    BY <2>2, <2>3
<1>9. W!Knows(c)' /\ W!FoundMissing(c)'
  BY <1>3, <1>4, <1>5 DEF W!Knows, W!FoundMissing, W!Has, Nameless
<1>10. /\ W!StepsKnow' /\ W!MissingIsGone' /\ W!ContextIsTheMakers' /\ W!RepliesAreOfCalls'
       /\ \A d \in Calls : GainsNothing(d)
  <2>1. r.step \notin {"load", "opened", "answered"} /\ call[c].step # "answered"
    BY <1>2, <1>4
  <2>2. made' \in Nat /\ made <= made' /\ dir' \in {0, dir, made + 1}
    BY <1>1, <1>3 DEF W!TypeOK
  <2>. QED
    BY <1>2, <1>3, <1>4, <1>9, <2>1, <2>2, GoingOn
<1>11. W!UnboundIsOld'
  BY <1>1, <1>3, <1>10, UnboundStay
<1>. QED
  BY <1>7, <1>8, <1>10, <1>11 DEF W!OpensInv

LEMMA OpenNewKeeps ==
  ASSUME Nameless, W!OpensInv, NEW c \in Calls, NEW create \in BOOLEAN, W!OpenNew(c, create)
  PROVE  W!OpensInv'
<1>. DEFINE r == [W!NoCall EXCEPT !.step = "open"]
<1>1. W!TypeOK /\ W!OneOpensAtATime /\ W!StepsKnow /\ W!MissingIsGone /\ W!UnboundIsOld
  BY DEF W!OpensInv
<1>2. call[c].step = "new" /\ W!Becomes(c, r) /\ W!PrepareRoot(create)
  BY DEF W!OpenNew
<1>3. UNCHANGED <<sessions, binding, pending, replies>>
  BY DEF W!OpenNew
<1>4. r \in W!OpenCall /\ r.step = "open" /\ r.scope = None /\ r.missing = 0 /\ r.context = FALSE
  BY DEF W!NoCall, W!OpenCall, W!Steps
<1>. HIDE DEF r
<1>5. /\ call' \in [Calls -> W!OpenCall] /\ call'[c] = r
      /\ \A d \in Calls : d # c => call'[d] = call[d]
  BY <1>1, <1>2, <1>4, Becoming DEF W!TypeOK
<1>6. /\ made' \in Nat \ {0} /\ made <= made' /\ dir' = made' /\ dir' \in {dir, made + 1}
  BY <1>1, <1>2, Rooted
<1>7. W!TypeOK'
  BY <1>1, <1>3, <1>5, <1>6 DEF W!TypeOK
<1>8. W!OneOpensAtATime'
  <2>1. call[c].step \notin W!Active
    BY <1>2 DEF W!Active, W!Steps
  <2>2. pending \in [Scopes -> Calls \union {None}]
    BY <1>1 DEF W!TypeOK
  <2>. QED
    BY <1>1, <1>3, <1>4, <1>5, <2>1, <2>2 DEF W!OneOpensAtATime
<1>9. W!Knows(c)' /\ W!FoundMissing(c)'
  BY <1>4, <1>5 DEF W!Knows, W!FoundMissing, W!Has
<1>10. /\ W!StepsKnow' /\ W!MissingIsGone' /\ W!ContextIsTheMakers' /\ W!RepliesAreOfCalls'
       /\ \A d \in Calls : GainsNothing(d)
  <2>1. r.step \notin {"load", "opened", "answered"} /\ call[c].step # "answered"
    BY <1>2, <1>4
  <2>2. made' \in Nat /\ made <= made' /\ dir' \in {0, dir, made + 1}
    BY <1>6
  <2>. QED
    BY <1>2, <1>3, <1>4, <1>9, <2>1, <2>2, GoingOn
<1>11. W!UnboundIsOld'
  BY <1>1, <1>3, <1>6, <1>10, UnboundStay
<1>. QED
  BY <1>7, <1>8, <1>10, <1>11 DEF W!OpensInv

LEMMA FindReusableKeeps ==
  ASSUME Nameless, W!OpensInv, NEW c \in Calls, W!FindReusable(c)
  PROVE  W!OpensInv'
<1>. DEFINE x == IF dir = 0 THEN "open" ELSE "get"
            r == [call[c] EXCEPT !.step = x]
<1>1. W!TypeOK /\ W!OneOpensAtATime /\ W!StepsKnow /\ W!MissingIsGone /\ W!UnboundIsOld
  BY DEF W!OpensInv
<1>2. call[c] \in W!OpenCall /\ call[c].step = "reuse"
  BY <1>1 DEF W!FindReusable, W!TypeOK
<1>3. UNCHANGED <<dir, made, sessions, pending, replies>>
  BY DEF W!FindReusable
<1>4. /\ call[c].scope \in Scopes /\ binding[call[c].scope] # 0 /\ call[c].missing = 0
      /\ pending[call[c].scope] = c /\ call[c].context = FALSE
  <2>1. W!Knows(c)
    BY <1>1 DEF W!StepsKnow
  <2>2. call[c].scope \in Scopes
    BY <1>2, <2>1 DEF W!Knows, W!OpenCall
  <2>3. call[c].context \in BOOLEAN
    BY <1>2 DEF W!OpenCall
  <2>. QED
    BY <1>1, <1>2, <2>1, <2>2, <2>3 DEF W!Knows, W!OneOpensAtATime, W!Active, W!Steps, Nameless
<1>5. /\ W!Becomes(c, r)
      /\ \/ dir = 0 /\ binding' = [binding EXCEPT ![call[c].scope] = 0]
         \/ dir # 0 /\ binding' = binding
  BY DEF W!FindReusable, W!DropBinding
<1>7. x \in W!Steps /\ x \in W!Active /\ x \in {"open", "get"}
  BY DEF W!Steps, W!Active
<1>8. /\ r \in W!OpenCall /\ r.step = x /\ r.scope = call[c].scope /\ r.missing = call[c].missing
      /\ r.session = call[c].session /\ r.context = call[c].context
  BY <1>2, <1>7, Stepped
<1>. HIDE DEF r
<1>9. /\ call' \in [Calls -> W!OpenCall] /\ call'[c] = r
      /\ \A d \in Calls : d # c => call'[d] = call[d]
  BY <1>1, <1>5, <1>8, Becoming DEF W!TypeOK
<1>10. binding' \in [Scopes -> Nat] /\ \A s \in Scopes : binding'[s] \in {0, binding[s]}
       /\ \A t \in Scopes : t # call[c].scope => binding'[t] = binding[t]
  <2>1. binding \in [Scopes -> Nat]
    BY <1>1 DEF W!TypeOK
  <2>2. CASE binding' = binding
    BY <2>1, <2>2
  <2>3. CASE binding' = [binding EXCEPT ![call[c].scope] = 0]
    BY <2>1, <2>3
  <2>. QED
    BY <1>5, <2>2, <2>3
<1>11. W!TypeOK'
  BY <1>1, <1>3, <1>9, <1>10 DEF W!TypeOK
<1>12. W!OneOpensAtATime'
  <2>1. call[c].step \in W!Active
    BY <1>2 DEF W!Active, W!Steps
  <2>. QED
    BY <1>1, <1>3, <1>7, <1>8, <1>9, <2>1, OwnerMoves
<1>13. W!Knows(c)' /\ W!FoundMissing(c)'
  <2>1. binding'[call[c].scope] = 0 <=> x = "open"
    BY <1>1, <1>4, <1>5 DEF W!TypeOK
  <2>. QED
    BY <1>4, <1>7, <1>8, <1>9, <2>1 DEF W!Knows, W!Has, W!FoundMissing, Nameless
<1>14. /\ W!StepsKnow' /\ W!MissingIsGone' /\ W!ContextIsTheMakers' /\ W!RepliesAreOfCalls'
       /\ \A d \in Calls : GainsNothing(d)
  <2>1. r.step \notin {"load", "opened", "answered"} /\ call[c].step # "answered"
    BY <1>2, <1>7, <1>8
  <2>2. made' \in Nat /\ made <= made' /\ dir' \in {0, dir, made + 1}
    BY <1>1, <1>3 DEF W!TypeOK
  <2>3. \A s \in Scopes : binding'[s] = binding[s] \/ pending[s] = c
    BY <1>4, <1>10
  <2>. QED
    BY <1>3, <1>5, <1>8, <1>13, <2>1, <2>2, <2>3, GoingOn
<1>15. W!UnboundIsOld'
  <2>1. dir' \in {0, dir, made + 1}
    BY <1>3
  <2>2. CASE binding' = binding
    BY <1>1, <1>3, <1>14, <2>1, <2>2, UnboundStay
  <2>3. CASE dir = 0 /\ binding' = [binding EXCEPT ![call[c].scope] = 0]
    <3>1. sessions[binding[call[c].scope]] # dir'
      BY <1>1, <1>3, <1>4, <2>3 DEF W!TypeOK
    <3>. QED
      BY <1>1, <1>3, <1>4, <1>14, <2>1, <2>3, <3>1, UnboundDrops
  <2>. QED
    BY <1>5, <2>2, <2>3
<1>. QED
  BY <1>11, <1>12, <1>14, <1>15 DEF W!OpensInv

LEMMA AnswerFailsKeeps ==
  ASSUME Nameless, W!OpensInv, NEW c \in Calls, W!AnswerFails(c)
  PROVE  W!OpensInv'
<1>. DEFINE r == [call[c] EXCEPT !.step = "failed"]
<1>1. W!TypeOK /\ W!OneOpensAtATime /\ W!StepsKnow /\ W!MissingIsGone /\ W!UnboundIsOld
  BY DEF W!OpensInv
<1>2. call[c] \in W!OpenCall /\ call[c].step = "opened" /\ W!Becomes(c, r)
  BY <1>1 DEF W!AnswerFails, W!TypeOK
<1>3. UNCHANGED <<dir, made, sessions, binding, pending, replies>>
  BY DEF W!AnswerFails
<1>4. /\ r \in W!OpenCall /\ r.step = "failed" /\ r.scope = call[c].scope
  BY <1>2, Stepped DEF W!Steps
<1>. HIDE DEF r
<1>5. /\ call' \in [Calls -> W!OpenCall] /\ call'[c] = r
      /\ \A d \in Calls : d # c => call'[d] = call[d]
  BY <1>1, <1>2, <1>4, Becoming DEF W!TypeOK
<1>7. W!TypeOK'
  BY <1>1, <1>3, <1>5 DEF W!TypeOK
<1>8. W!OneOpensAtATime'
  <2>1. call[c].step \notin W!Active /\ r.step \notin W!Active
    BY <1>2, <1>4 DEF W!Active, W!Steps
  <2>2. \A d \in Calls : d # c => call'[d] = call[d]
    BY <1>5
  <2>. QED
    BY <1>1, <1>3, <1>5, <2>1, <2>2, OwnersStay
<1>9. W!Knows(c)' /\ W!FoundMissing(c)'
  BY <1>4, <1>5 DEF W!Knows, W!FoundMissing, W!Has
<1>10. /\ W!StepsKnow' /\ W!MissingIsGone' /\ W!ContextIsTheMakers' /\ W!RepliesAreOfCalls'
       /\ \A d \in Calls : GainsNothing(d)
  <2>1. r.step \notin {"load", "opened", "answered"} /\ call[c].step # "answered"
    BY <1>2, <1>4
  <2>2. made' \in Nat /\ made <= made' /\ dir' \in {0, dir, made + 1}
    BY <1>1, <1>3 DEF W!TypeOK
  <2>. QED
    BY <1>2, <1>3, <1>4, <1>9, <2>1, <2>2, GoingOn
<1>11. W!UnboundIsOld'
  BY <1>1, <1>3, <1>10, UnboundStay
<1>. QED
  BY <1>7, <1>8, <1>10, <1>11 DEF W!OpensInv

\* The calls an open that ends belongs to, and those that joined it.
LEMMA OwnerSettles ==
  ASSUME Nameless, W!TypeOK, W!OneOpensAtATime, NEW c \in Calls, NEW r \in W!OpenCall,
         r.step \notin W!Active, call'[c] = r,
         \A s \in Scopes : pending'[s] = IF pending[s] = c THEN None ELSE pending[s],
         \A d \in Calls : d # c =>
            \/ call'[d] = call[d]
            \/ /\ call[d].step = "joined" /\ call[d].scope = r.scope /\ r.scope # None
               /\ call'[d] = [r EXCEPT !.context = FALSE]
  PROVE  W!OneOpensAtATime'
<1>1. ASSUME NEW d \in Calls, call'[d].step \in W!Active PROVE d # c /\ call'[d] = call[d]
  BY <1>1, WithoutContext
<1>2. ASSUME NEW d \in Calls, call'[d].step \in W!Active, call'[d].scope # None
      PROVE  pending'[call'[d].scope] = d
  <2>1. pending[call[d].scope] = d /\ call[d].scope \in Scopes
    BY <1>1, <1>2 DEF W!OneOpensAtATime, W!TypeOK, W!OpenCall
  <2>. QED
    BY <1>1, <1>2, <2>1
<1>3. ASSUME NEW s \in Scopes, pending'[s] # None
      PROVE  call'[pending'[s]].step \in W!Active /\ call'[pending'[s]].scope = s
  <2>1. pending[s] # c /\ pending'[s] = pending[s] /\ pending[s] \in Calls
    BY <1>3 DEF W!TypeOK
  <2>2. call[pending[s]].step \in W!Active /\ call[pending[s]].scope = s
    BY <2>1 DEF W!OneOpensAtATime, Nameless
  <2>3. call[pending[s]].step # "joined"
    BY <2>2 DEF W!Active, W!Steps
  <2>4. call'[pending[s]] = call[pending[s]]
    BY <2>1, <2>3
  <2>. QED
    BY <2>1, <2>2, <2>4
<1>. QED
  BY <1>2, <1>3 DEF W!OneOpensAtATime

\* An open that fails, with those that joined it.
LEMMA FailingKeeps ==
  ASSUME Nameless, W!OpensInv, NEW c \in Calls, W!Fails(c), call[c].step \in W!Active,
         UNCHANGED <<dir, made, sessions, binding, replies>>
  PROVE  W!OpensInv'
<1>. DEFINE r == [call[c] EXCEPT !.step = "failed"]
<1>1. /\ W!TypeOK /\ W!OneOpensAtATime /\ W!StepsKnow /\ W!MissingIsGone /\ W!UnboundIsOld
      /\ W!ContextIsTheMakers /\ W!RepliesAreOfCalls
  BY DEF W!OpensInv
<1>2. call[c] \in W!OpenCall /\ W!Settles(c, r)
  BY <1>1 DEF W!Fails, W!TypeOK
<1>3. /\ r \in W!OpenCall /\ r.step = "failed" /\ r.scope = call[c].scope
  BY <1>2, Stepped DEF W!Steps
<1>. HIDE DEF r
<1>4. [r EXCEPT !.context = FALSE].step = "failed"
  BY <1>3, WithoutContext
<1>5. /\ call' \in [Calls -> W!OpenCall] /\ call'[c] = r
      /\ pending' \in [Scopes -> Calls \union {None}]
      /\ \A s \in Scopes : pending'[s] = IF pending[s] = c THEN None ELSE pending[s]
      /\ \A d \in Calls : d # c =>
            \/ call'[d] = call[d]
            \/ /\ call[d].step = "joined" /\ call[d].scope = r.scope /\ r.scope # None
               /\ call'[d] = [r EXCEPT !.context = FALSE]
  BY <1>1, <1>2, <1>3, Settling
<1>6. \A d \in Calls : call'[d] = call[d] \/ (call'[d].step = "failed" /\ call[d].step # "answered")
  <2>1. call[c].step # "answered"
    BY DEF W!Active, W!Steps
  <2>. QED
    BY <1>3, <1>4, <1>5, <2>1
<1>7. W!TypeOK'
  BY <1>1, <1>5 DEF W!TypeOK
<1>8. W!OneOpensAtATime'
  <2>1. r.step \notin W!Active
    BY <1>3 DEF W!Active, W!Steps
  <2>. QED
    BY <1>1, <1>3, <1>5, <2>1, OwnerSettles
<1>9. ASSUME NEW d \in Calls PROVE W!Knows(d)' /\ W!FoundMissing(d)' /\ GainsNothing(d)
  <2>1. CASE call'[d] = call[d]
    <3>1. W!Knows(d) /\ W!FoundMissing(d)
      BY <1>1 DEF W!StepsKnow, W!MissingIsGone
    <3>. QED
      BY <2>1, <3>1, Ungaining DEF W!Knows, W!FoundMissing, W!Has, W!Incarnation
  <2>2. CASE call'[d].step = "failed"
    BY <2>2, Ungaining DEF W!Knows, W!FoundMissing, W!Has
  <2>. QED
    BY <1>6, <2>1, <2>2
<1>10. W!UnboundIsOld'
  BY <1>1, <1>9, UnboundStay
<1>. QED
  BY <1>1, <1>6, <1>7, <1>8, <1>9, <1>10, ContextsStay, AnswersStay
     DEF W!OpensInv, W!StepsKnow, W!MissingIsGone

LEMMA PrepareFailsKeeps ==
  ASSUME Nameless, W!OpensInv, NEW c \in Calls, W!PrepareFails(c)
  PROVE  W!OpensInv'
<1>1. call[c].step \in W!Active
  BY DEF W!PrepareFails, W!Active, W!Steps
<1>. QED
  BY <1>1, FailingKeeps DEF W!PrepareFails

LEMMA LoadFailsKeeps ==
  ASSUME Nameless, W!OpensInv, NEW c \in Calls, W!LoadFails(c)
  PROVE  W!OpensInv'
<1>1. call[c].step \in W!Active
  BY DEF W!LoadFails, W!Active, W!Steps
<1>. QED
  BY <1>1, FailingKeeps DEF W!LoadFails

\* The answers a conversation gets with a session that it is bound to.
LEMMA UnboundGains ==
  ASSUME W!TypeOK, W!StepsKnow, W!UnboundIsOld, UNCHANGED <<dir, sessions>>,
         NEW x \in Scopes, NEW w \in DOMAIN sessions,
         binding'[x] = w, \A s \in Scopes : s # x => binding'[s] = binding[s],
         \A d \in Calls : W!Has(d)' /\ call'[d] # call[d] => call'[d].scope = x /\ call'[d].session = w,
         \A d \in Calls : call'[d].step = "load" => call'[d] = call[d] /\ call[d].scope # x,
         \A e \in Calls : W!Has(e) /\ W!Of(e, x) /\ call[e].session # w =>
             W!Incarnation(e) # dir /\ W!Incarnation(e) # sessions[w]
  PROVE  W!UnboundIsOld'
<1>. DEFINE Same(e, s) == /\ W!Has(e) /\ W!Of(e, s) /\ call'[e].session = call[e].session
                          /\ W!Incarnation(e)' = W!Incarnation(e)
            New(e, s) == s = x /\ call'[e].session = w /\ W!Incarnation(e)' = sessions[w]
<1>1. ASSUME NEW e \in Calls, NEW s \in Scopes, W!Has(e)', W!Of(e, s)'
      PROVE  Same(e, s) \/ New(e, s)
  BY <1>1 DEF W!Has, W!Of, W!Incarnation
<1>2. ASSUME NEW e \in Calls, NEW s \in Scopes, W!Has(e)', W!Of(e, s)', call'[e].session # binding'[s]
      PROVE  /\ W!Incarnation(e)' # dir'
             /\ binding'[s] # 0 => W!Incarnation(e)' # sessions'[binding'[s]]
  <2>1. Same(e, s)
    BY <1>1, <1>2
  <2>2. CASE s = x
    BY <1>2, <2>1, <2>2
  <2>3. CASE s # x
    BY <1>2, <2>1, <2>3 DEF W!UnboundIsOld
  <2>. QED
    BY <2>2, <2>3
<1>3. ASSUME NEW e \in Calls, NEW s \in Scopes, W!Has(e)', W!Of(e, s)',
             NEW c \in Calls, call'[c].step = "load", W!Of(c, s)'
      PROVE  W!Incarnation(e)' # W!Incarnation(c)'
  <2>1. call'[c] = call[c] /\ s # x
    BY <1>3 DEF W!Of
  <2>2. Same(e, s)
    BY <1>1, <1>3, <2>1
  <2>. QED
    BY <1>3, <2>1, <2>2 DEF W!UnboundIsOld, W!Of, W!Incarnation
<1>4. ASSUME NEW e \in Calls, NEW s \in Scopes, W!Has(e)', W!Of(e, s)',
             NEW d \in Calls, W!Has(d)', W!Of(d, s)', call'[d].session # call'[e].session
      PROVE  W!Incarnation(e)' # W!Incarnation(d)'
  <2>1. CASE Same(e, s) /\ Same(d, s)
    BY <1>4, <2>1 DEF W!UnboundIsOld
  <2>2. CASE Same(e, s) /\ New(d, s)
    BY <1>4, <2>2
  <2>3. CASE New(e, s) /\ Same(d, s)
    BY <1>4, <2>3
  <2>4. CASE New(e, s) /\ New(d, s)
    BY <1>4, <2>4
  <2>. QED
    BY <1>1, <1>4, <2>1, <2>2, <2>3, <2>4
<1>. QED
  BY <1>2, <1>3, <1>4 DEF W!UnboundIsOld

LEMMA ReuseKeeps ==
  ASSUME Nameless, W!OpensInv, NEW c \in Calls, W!Reuse(c)
  PROVE  W!OpensInv'
<1>. DEFINE x == call[c].scope
            w == binding[x]
            r == [call[c] EXCEPT !.step = "opened", !.session = w]
<1>1. /\ W!TypeOK /\ W!OneOpensAtATime /\ W!StepsKnow /\ W!MissingIsGone /\ W!UnboundIsOld
      /\ W!ContextIsTheMakers /\ W!RepliesAreOfCalls
  BY DEF W!OpensInv
<1>2. call[c] \in W!OpenCall /\ call[c].step = "get" /\ call[c].step \in W!Active
  BY <1>1 DEF W!Reuse, W!TypeOK, W!Active, W!Steps
<1>3. UNCHANGED <<dir, made, sessions, binding, replies>>
  BY DEF W!Reuse
<1>4. x \in Scopes /\ w # 0 /\ w \in DOMAIN sessions /\ call[c].missing = 0 /\ call[c].context = FALSE
      /\ pending[x] = c
  <2>1. W!Knows(c)
    BY <1>1 DEF W!StepsKnow
  <2>2. x \in Scopes
    BY <1>2, <2>1 DEF W!Knows, W!OpenCall
  <2>3. call[c].context \in BOOLEAN
    BY <1>2 DEF W!OpenCall
  <2>4. w # 0
    BY <1>2, <2>1 DEF W!Knows
  <2>5. w \in DOMAIN sessions
    BY <1>1, <2>2, <2>4 DEF W!TypeOK
  <2>. QED
    BY <1>1, <1>2, <2>1, <2>2, <2>3, <2>4, <2>5 DEF W!Knows, W!OneOpensAtATime, Nameless
<1>5. CASE W!Fails(c)
  BY <1>2, <1>3, <1>5, FailingKeeps
<1>6. CASE W!Settles(c, r)
  <2>1. /\ r \in W!OpenCall /\ r.step = "opened" /\ r.scope = x /\ r.session = w
        /\ r.missing = 0 /\ r.context = FALSE
    <3>1. w \in Nat
      BY <1>1, <1>4 DEF W!TypeOK
    <3>. QED
      BY <1>2, <1>4, <3>1 DEF W!OpenCall, W!Steps
  <2>. HIDE DEF r
  <2>2. /\ [r EXCEPT !.context = FALSE].step = "opened" /\ [r EXCEPT !.context = FALSE].scope = x
        /\ [r EXCEPT !.context = FALSE].session = w /\ [r EXCEPT !.context = FALSE].missing = 0
        /\ [r EXCEPT !.context = FALSE].context = FALSE
    BY <2>1, WithoutContext
  <2>3. /\ call' \in [Calls -> W!OpenCall] /\ call'[c] = r
        /\ pending' \in [Scopes -> Calls \union {None}]
        /\ \A s \in Scopes : pending'[s] = IF pending[s] = c THEN None ELSE pending[s]
        /\ \A d \in Calls : d # c =>
              \/ call'[d] = call[d]
              \/ /\ call[d].step = "joined" /\ call[d].scope = r.scope /\ r.scope # None
                 /\ call'[d] = [r EXCEPT !.context = FALSE]
    BY <1>1, <1>6, <2>1, Settling
  <2>4. ASSUME NEW d \in Calls
        PROVE  \/ call'[d] = call[d] /\ d # c
               \/ /\ call[d].step # "answered" /\ call'[d].step = "opened" /\ call'[d].scope = x
                  /\ call'[d].session = w /\ call'[d].missing = 0 /\ call'[d].context = FALSE
    BY <1>2, <2>1, <2>2, <2>3
  <2>5. W!TypeOK'
    BY <1>1, <1>3, <2>3 DEF W!TypeOK
  <2>6. W!OneOpensAtATime'
    <3>1. r.step \notin W!Active
      BY <2>1 DEF W!Active, W!Steps
    <3>. QED
      BY <1>1, <2>1, <2>3, <3>1, OwnerSettles
  <2>7. ASSUME NEW d \in Calls PROVE W!Knows(d)' /\ W!FoundMissing(d)'
    <3>1. CASE call'[d] = call[d]
      <4>1. W!Knows(d) /\ W!FoundMissing(d)
        BY <1>1 DEF W!StepsKnow, W!MissingIsGone
      <4>. QED
        BY <1>3, <3>1, <4>1 DEF W!Knows, W!FoundMissing, W!Has, W!Incarnation
    <3>2. CASE /\ call'[d].step = "opened" /\ call'[d].scope = x
               /\ call'[d].session = w /\ call'[d].missing = 0 /\ call'[d].context = FALSE
      BY <1>3, <1>4, <3>2 DEF W!Knows, W!FoundMissing, W!Has
    <3>. QED
      BY <2>4, <3>1, <3>2
  <2>8. W!ContextIsTheMakers'
    <3>1. ASSUME NEW d \in Calls, W!Provides(d)' PROVE W!Provides(d) /\ call'[d].session = call[d].session
      <4>1. call'[d] = call[d]
        BY <2>4, <3>1 DEF W!Provides
      <4>. QED
        BY <3>1, <4>1 DEF W!Provides, W!Has
    <3>. QED
      BY <1>1, <3>1 DEF W!ContextIsTheMakers
  <2>9. W!RepliesAreOfCalls'
    <3>1. \A d \in Calls : call[d].step = "answered" => call'[d] = call[d]
      BY <2>4
    <3>. QED
      BY <1>1, <1>3, <3>1, AnswersStay
  <2>10. W!UnboundIsOld'
    <3>1. binding'[x] = w /\ \A s \in Scopes : s # x => binding'[s] = binding[s]
      BY <1>3
    <3>2. \A d \in Calls : W!Has(d)' /\ call'[d] # call[d] => call'[d].scope = x /\ call'[d].session = w
      BY <2>4
    <3>3. ASSUME NEW d \in Calls, call'[d].step = "load" PROVE call'[d] = call[d] /\ call[d].scope # x
      <4>1. call'[d] = call[d] /\ d # c
        BY <2>4, <3>3
      <4>2. call[d].step \in W!Active
        BY <3>3, <4>1 DEF W!Active, W!Steps
      <4>. QED
        BY <1>1, <1>4, <4>1, <4>2 DEF W!OneOpensAtATime, Nameless
    <3>4. \A e \in Calls : W!Has(e) /\ W!Of(e, x) /\ call[e].session # w =>
             W!Incarnation(e) # dir /\ W!Incarnation(e) # sessions[w]
      BY <1>1, <1>4 DEF W!UnboundIsOld
    <3>. HIDE DEF x, w
    <3>. QED
      BY <1>1, <1>3, <1>4, <3>1, <3>2, <3>3, <3>4, UnboundGains
  <2>. QED
    BY <2>5, <2>6, <2>7, <2>8, <2>9, <2>10 DEF W!OpensInv, W!StepsKnow, W!MissingIsGone
<1>. QED
  BY <1>5, <1>6 DEF W!Reuse

LEMMA OpenCheckoutKeeps ==
  ASSUME Nameless, W!OpensInv, NEW c \in Calls, W!OpenCheckout(c)
  PROVE  W!OpensInv'
<1>. DEFINE n == Len(sessions) + 1
            r == [call[c] EXCEPT !.step = "load", !.session = n]
<1>1. /\ W!TypeOK /\ W!OneOpensAtATime /\ W!StepsKnow /\ W!MissingIsGone /\ W!UnboundIsOld
      /\ W!ContextIsTheMakers /\ W!RepliesAreOfCalls
  BY DEF W!OpensInv
<1>2. call[c] \in W!OpenCall /\ call[c].step = "open" /\ call[c].step \in W!Active
  BY <1>1 DEF W!OpenCheckout, W!TypeOK, W!Active, W!Steps
<1>3. UNCHANGED <<dir, made, binding, replies>>
  BY DEF W!OpenCheckout
<1>4. CASE dir = 0
  <2>1. W!Fails(c) /\ UNCHANGED sessions
    BY <1>4 DEF W!OpenCheckout
  <2>. QED
    BY <1>2, <1>3, <2>1, FailingKeeps
<1>5. CASE dir # 0
  <2>1. sessions' = Append(sessions, dir) /\ pending' = pending /\ W!Becomes(c, r)
    BY <1>5 DEF W!OpenCheckout, W!NewSession
  <2>2. dir = made /\ dir \in Nat /\ sessions \in Seq(Nat)
    BY <1>1, <1>5 DEF W!TypeOK
  <2>3. /\ sessions' \in Seq(Nat) /\ n \notin DOMAIN sessions /\ DOMAIN sessions' = (DOMAIN sessions) \union {n}
        /\ \A w \in DOMAIN sessions : sessions'[w] = sessions[w]
        /\ sessions'[n] = dir /\ n \in Nat
    BY <2>1, <2>2
  <2>4. /\ r \in W!OpenCall /\ r.step = "load" /\ r.scope = call[c].scope /\ r.session = n
        /\ r.missing = call[c].missing /\ r.context = call[c].context
    BY <1>2, <2>3 DEF W!OpenCall, W!Steps
  <2>. HIDE DEF r, n
  <2>5. /\ call' \in [Calls -> W!OpenCall] /\ call'[c] = r
        /\ \A d \in Calls : d # c => call'[d] = call[d]
    BY <1>1, <2>1, <2>4, Becoming DEF W!TypeOK
  <2>6. W!TypeOK'
    <3>1. \A w \in DOMAIN sessions' : sessions'[w] \in 1 .. made'
      BY <1>1, <1>3, <2>2, <2>3 DEF W!TypeOK
    <3>. QED
      BY <1>1, <1>3, <2>1, <2>3, <2>5, <3>1 DEF W!TypeOK
  <2>7. W!OneOpensAtATime'
    <3>1. r.step \in W!Active
      BY <2>4 DEF W!Active, W!Steps
    <3>. QED
      BY <1>1, <1>2, <2>1, <2>4, <2>5, <3>1, OwnerMoves
  <2>8. W!Knows(c) /\ W!FoundMissing(c)
    BY <1>1 DEF W!StepsKnow, W!MissingIsGone
  <2>9. W!Knows(c)'
    BY <1>2, <1>3, <2>3, <2>4, <2>5, <2>8 DEF W!Knows, W!Has
  <2>10. W!FoundMissing(c)'
    <3>1. call[c].missing # 0 => call[c].missing < dir
      <4>1. call[c].missing \in Nat
        BY <1>2 DEF W!OpenCall
      <4>. QED
        BY <1>2, <2>2, <2>8, <4>1 DEF W!FoundMissing
    <3>. QED
      BY <1>2, <2>2, <2>3, <2>4, <2>5, <3>1 DEF W!FoundMissing, W!Has, W!Incarnation
  <2>11. ASSUME NEW d \in Calls, d # c PROVE W!Knows(d)' /\ W!FoundMissing(d)'
    <3>1. made' \in Nat /\ made <= made' /\ dir' \in {0, dir, made + 1}
      BY <1>1, <1>3 DEF W!TypeOK
    <3>2. call'[d] = call[d] /\ DOMAIN sessions \subseteq DOMAIN sessions'
      BY <2>3, <2>5, <2>11
    <3>. QED
      BY <1>3, <2>3, <2>11, <3>1, <3>2, OthersGoOn
  <2>12. W!ContextIsTheMakers'
    <3>1. ASSUME NEW d \in Calls, d # c, W!Provides(d)'
          PROVE  W!Provides(d) /\ call'[d].session = call[d].session /\ call'[d].session # n
      <4>1. call'[d] = call[d]
        BY <2>5, <3>1
      <4>2. call[d].session \in DOMAIN sessions
        BY <1>1, <3>1, <4>1 DEF W!Provides, W!Has, W!StepsKnow, W!Knows
      <4>. QED
        BY <2>3, <3>1, <4>1, <4>2 DEF W!Provides, W!Has
    <3>2. call'[c].session = n
      BY <2>4, <2>5
    <3>3. ASSUME NEW d \in Calls, NEW e \in Calls, W!Provides(d)', W!Provides(e)',
                 call'[d].session = call'[e].session
          PROVE  d = e
      <4>1. CASE d # c /\ e # c
        BY <1>1, <3>1, <3>3, <4>1 DEF W!ContextIsTheMakers
      <4>. QED
        BY <3>1, <3>2, <3>3, <4>1
    <3>. QED
      BY <3>3 DEF W!ContextIsTheMakers
  <2>13. W!RepliesAreOfCalls'
    <3>1. \A d \in Calls : call[d].step = "answered" => call'[d] = call[d]
      BY <1>2, <2>5
    <3>. QED
      BY <1>1, <1>3, <3>1, AnswersStay
  <2>14. W!UnboundIsOld'
    <3>1. ASSUME NEW e \in Calls, NEW s \in Scopes, W!Has(e)', W!Of(e, s)'
          PROVE  /\ e # c /\ call'[e] = call[e] /\ W!Has(e) /\ W!Of(e, s)
                 /\ W!Incarnation(e)' = W!Incarnation(e) /\ call[e].session \in DOMAIN sessions
      <4>1. e # c
        BY <2>4, <2>5, <3>1 DEF W!Has
      <4>2. call'[e] = call[e] /\ W!Has(e) /\ W!Of(e, s)
        BY <2>5, <3>1, <4>1 DEF W!Has, W!Of
      <4>3. call[e].session \in DOMAIN sessions
        BY <1>1, <4>2 DEF W!StepsKnow, W!Knows
      <4>. QED
        BY <2>3, <4>1, <4>2, <4>3 DEF W!Incarnation
    <3>2. ASSUME NEW e \in Calls, NEW s \in Scopes, W!Has(e)', W!Of(e, s)', call'[e].session # binding'[s]
          PROVE  /\ W!Incarnation(e)' # dir'
                 /\ binding'[s] # 0 => W!Incarnation(e)' # sessions'[binding'[s]]
      <4>1. binding[s] # 0 => sessions'[binding[s]] = sessions[binding[s]]
        BY <1>1, <2>3 DEF W!TypeOK
      <4>. QED
        BY <1>1, <1>3, <3>1, <3>2, <4>1 DEF W!UnboundIsOld
    <3>3. ASSUME NEW e \in Calls, NEW s \in Scopes, W!Has(e)', W!Of(e, s)',
                 NEW d \in Calls, call'[d].step = "load", W!Of(d, s)'
          PROVE  W!Incarnation(e)' # W!Incarnation(d)'
      <4>1. CASE d = c
        <5>1. W!Incarnation(d)' = dir
          BY <2>3, <2>4, <2>5, <4>1 DEF W!Incarnation
        <5>2. binding[s] = 0
          BY <1>2, <2>4, <2>5, <2>8, <3>3, <4>1 DEF W!Knows, W!Of
        <5>3. call[e].session # 0
          BY <2>2, <3>1, <3>3
        <5>. QED
          BY <1>1, <3>1, <3>3, <5>1, <5>2, <5>3 DEF W!UnboundIsOld
      <4>2. CASE d # c
        <5>1. call'[d] = call[d]
          BY <2>5, <4>2
        <5>2. call[d].session \in DOMAIN sessions
          BY <1>1, <3>3, <5>1 DEF W!StepsKnow, W!Knows
        <5>3. W!Incarnation(d)' = W!Incarnation(d)
          BY <2>3, <5>1, <5>2 DEF W!Incarnation
        <5>. QED
          BY <1>1, <3>1, <3>3, <5>1, <5>3 DEF W!UnboundIsOld, W!Of
      <4>. QED
        BY <4>1, <4>2
    <3>4. ASSUME NEW e \in Calls, NEW s \in Scopes, W!Has(e)', W!Of(e, s)',
                 NEW d \in Calls, W!Has(d)', W!Of(d, s)', call'[d].session # call'[e].session
          PROVE  W!Incarnation(e)' # W!Incarnation(d)'
      BY <1>1, <3>1, <3>4 DEF W!UnboundIsOld
    <3>. QED
      BY <3>2, <3>3, <3>4 DEF W!UnboundIsOld
  <2>. QED
    BY <2>6, <2>7, <2>9, <2>10, <2>11, <2>12, <2>13, <2>14 DEF W!OpensInv, W!StepsKnow, W!MissingIsGone
<1>. QED
  BY <1>4, <1>5

LEMMA BindKeeps ==
  ASSUME Nameless, W!OpensInv, NEW c \in Calls, W!Bind(c)
  PROVE  W!OpensInv'
<1>. DEFINE x == call[c].scope
            w == call[c].session
            r == [call[c] EXCEPT !.step = "opened", !.context = TRUE]
<1>1. /\ W!TypeOK /\ W!OneOpensAtATime /\ W!StepsKnow /\ W!MissingIsGone /\ W!UnboundIsOld
      /\ W!ContextIsTheMakers /\ W!RepliesAreOfCalls
  BY DEF W!OpensInv
<1>2. call[c] \in W!OpenCall /\ call[c].step = "load" /\ call[c].step \in W!Active
  BY <1>1 DEF W!Bind, W!TypeOK, W!Active, W!Steps
<1>3. UNCHANGED <<dir, made, sessions, replies>>
  BY DEF W!Bind
<1>4. W!Knows(c) /\ W!FoundMissing(c) /\ w \in DOMAIN sessions /\ w \in Nat /\ x \in Scopes \union {None}
  <2>1. W!Knows(c) /\ W!FoundMissing(c)
    BY <1>1 DEF W!StepsKnow, W!MissingIsGone
  <2>. QED
    BY <1>2, <2>1 DEF W!Knows, W!OpenCall
<1>5. /\ r \in W!OpenCall /\ r.step = "opened" /\ r.scope = x /\ r.session = w
      /\ r.missing = call[c].missing /\ r.context = TRUE
  BY <1>2 DEF W!OpenCall, W!Steps
<1>6. /\ binding' = IF x = None THEN binding ELSE [binding EXCEPT ![x] = w]
      /\ IF x = None THEN W!Becomes(c, r) /\ UNCHANGED pending ELSE W!Settles(c, r)
  BY DEF W!Bind
<1>. HIDE DEF r
<1>7. /\ [r EXCEPT !.context = FALSE].step = "opened" /\ [r EXCEPT !.context = FALSE].scope = x
      /\ [r EXCEPT !.context = FALSE].session = w
      /\ [r EXCEPT !.context = FALSE].missing = call[c].missing
      /\ [r EXCEPT !.context = FALSE].context = FALSE
  BY <1>5, WithoutContext
<1>8. /\ call' \in [Calls -> W!OpenCall] /\ call'[c] = r
      /\ pending' \in [Scopes -> Calls \union {None}]
      /\ x # None => \A s \in Scopes : pending'[s] = IF pending[s] = c THEN None ELSE pending[s]
      /\ x = None => pending' = pending
      /\ \A d \in Calls : d # c =>
            \/ call'[d] = call[d]
            \/ /\ call[d].step = "joined" /\ call[d].scope = r.scope /\ r.scope # None
               /\ call'[d] = [r EXCEPT !.context = FALSE]
  <2>1. CASE x = None
    <3>1. call' \in [Calls -> W!OpenCall] /\ call'[c] = r /\ \A d \in Calls : d # c => call'[d] = call[d]
      BY <1>1, <1>5, <1>6, <2>1, Becoming DEF W!TypeOK
    <3>. QED
      BY <1>1, <1>6, <2>1, <3>1 DEF W!TypeOK
  <2>2. CASE x # None
    BY <1>1, <1>5, <1>6, <2>2, Settling
  <2>. QED
    BY <2>1, <2>2
<1>9. ASSUME NEW d \in Calls, d # c
      PROVE  \/ call'[d] = call[d]
             \/ /\ call[d].step = "joined" /\ x # None /\ call'[d].step = "opened" /\ call'[d].scope = x
                /\ call'[d].session = w /\ call'[d].missing = call[c].missing /\ call'[d].context = FALSE
  BY <1>5, <1>7, <1>8, <1>9
<1>10. W!TypeOK'
  <2>1. binding' \in [Scopes -> Nat] /\ \A s \in Scopes : binding'[s] # 0 => binding'[s] \in DOMAIN sessions
    BY <1>1, <1>4, <1>6 DEF W!TypeOK
  <2>. QED
    BY <1>1, <1>3, <1>8, <2>1 DEF W!TypeOK
<1>11. W!OneOpensAtATime'
  <2>1. r.step \notin W!Active
    BY <1>5 DEF W!Active, W!Steps
  <2>2. CASE x = None
    <3>1. \A d \in Calls : d # c => call'[d] = call[d]
      BY <1>9, <2>2
    <3>2. pending \in [Scopes -> Calls \union {None}]
      BY <1>1 DEF W!TypeOK
    <3>3. \A s \in Scopes : pending[s] # c
      BY <1>1, <2>2 DEF W!OneOpensAtATime, Nameless
    <3>. QED
      BY <1>1, <1>8, <2>1, <2>2, <3>1, <3>2, <3>3 DEF W!OneOpensAtATime
  <2>3. CASE x # None
    BY <1>1, <1>5, <1>8, <2>1, <2>3, OwnerSettles
  <2>. QED
    BY <2>2, <2>3
<1>12. ASSUME NEW d \in Calls, d # c, call'[d] = call[d] PROVE W!Knows(d)' /\ W!FoundMissing(d)'
  <2>1. made' \in Nat /\ made <= made' /\ dir' \in {0, dir, made + 1}
    BY <1>1, <1>3 DEF W!TypeOK
  <2>2. \A s \in Scopes : binding'[s] = binding[s] \/ pending[s] = c
    BY <1>1, <1>2, <1>4, <1>6 DEF W!OneOpensAtATime, W!TypeOK
  <2>. QED
    BY <1>3, <1>12, <2>1, <2>2, OthersGoOn
<1>13. ASSUME NEW d \in Calls, call'[d].step = "opened", call'[d].session = w,
              call'[d].missing = call[c].missing
       PROVE  W!Knows(d)' /\ W!FoundMissing(d)'
  <2>1. w \in DOMAIN sessions' /\ sessions'[w] = W!Incarnation(c)
    BY <1>3, <1>4 DEF W!Incarnation
  <2>2. call[c].missing # 0 => sessions'[w] > call[c].missing
    BY <1>2, <1>4, <2>1 DEF W!FoundMissing
  <2>. QED
    BY <1>13, <2>1, <2>2 DEF W!Knows, W!FoundMissing, W!Has, W!Incarnation
<1>14. W!StepsKnow' /\ W!MissingIsGone'
  BY <1>5, <1>8, <1>9, <1>12, <1>13 DEF W!StepsKnow, W!MissingIsGone
<1>15. W!ContextIsTheMakers'
  <2>1. ASSUME NEW d \in Calls, W!Provides(d)' PROVE W!Provides(d) /\ call'[d].session = call[d].session
    <3>1. CASE d = c
      BY <1>2, <1>5, <1>8, <3>1 DEF W!Provides
    <3>2. CASE d # c
      <4>1. call'[d] = call[d]
        BY <1>9, <2>1, <3>2 DEF W!Provides
      <4>. QED
        BY <2>1, <4>1 DEF W!Provides, W!Has
    <3>. QED
      BY <3>1, <3>2
  <2>. QED
    BY <1>1, <2>1 DEF W!ContextIsTheMakers
<1>16. W!RepliesAreOfCalls'
  <2>1. \A d \in Calls : call[d].step = "answered" => call'[d] = call[d]
    BY <1>2, <1>9
  <2>. QED
    BY <1>1, <1>3, <2>1, AnswersStay
<1>17. W!UnboundIsOld'
  <2>1. CASE x = None
    <3>1. ASSUME NEW d \in Calls, call'[d].scope # None PROVE GainsNothing(d)
      <4>1. d # c /\ call'[d] = call[d]
        BY <1>5, <1>8, <1>9, <2>1, <3>1
      <4>. QED
        BY <4>1, Ungaining
    <3>2. dir' \in {0, dir, made + 1} /\ binding' = binding
      BY <1>3, <1>6, <2>1
    <3>. QED
      BY <1>1, <1>3, <3>1, <3>2, UnboundStay
  <2>2. CASE x # None
    <3>1. binding'[x] = w /\ \A s \in Scopes : s # x => binding'[s] = binding[s]
      BY <1>1, <1>4, <1>6, <2>2 DEF W!TypeOK
    <3>2. \A d \in Calls : W!Has(d)' /\ call'[d] # call[d] => call'[d].scope = x /\ call'[d].session = w
      BY <1>5, <1>8, <1>9
    <3>3. ASSUME NEW d \in Calls, call'[d].step = "load" PROVE call'[d] = call[d] /\ call[d].scope # x
      <4>1. call'[d] = call[d] /\ d # c
        BY <1>5, <1>8, <1>9, <3>3
      <4>2. call[d].step \in W!Active
        BY <3>3, <4>1 DEF W!Active, W!Steps
      <4>. QED
        BY <1>1, <1>2, <2>2, <4>1, <4>2 DEF W!OneOpensAtATime
    <3>4. ASSUME NEW e \in Calls, W!Has(e), W!Of(e, x), call[e].session # w
          PROVE  W!Incarnation(e) # dir /\ W!Incarnation(e) # sessions[w]
      <4>1. binding[x] = 0
        BY <1>2, <1>4, <2>2 DEF W!Knows
      <4>2. call[e].session # 0
        BY <1>1, <3>4 DEF W!StepsKnow, W!Knows, W!TypeOK
      <4>3. W!Of(c, x) /\ W!Incarnation(c) = sessions[w]
        BY <2>2 DEF W!Of, W!Incarnation
      <4>. QED
        BY <1>1, <1>2, <1>4, <2>2, <3>4, <4>1, <4>2, <4>3 DEF W!UnboundIsOld
    <3>5. x \in Scopes
      BY <1>4, <2>2
    <3>. HIDE DEF x, w
    <3>. QED
      BY <1>1, <1>3, <1>4, <3>1, <3>2, <3>3, <3>4, <3>5, UnboundGains
  <2>. QED
    BY <2>1, <2>2
<1>. QED
  BY <1>10, <1>11, <1>14, <1>15, <1>16, <1>17 DEF W!OpensInv

LEMMA AnswerKeeps ==
  ASSUME Nameless, W!OpensInv, NEW c \in Calls, W!Answer(c)
  PROVE  W!OpensInv'
<1>. DEFINE r == [call[c] EXCEPT !.step = "answered"]
            reply == [call |-> c, scope |-> call[c].scope, session |-> call[c].session,
                      missing |-> call[c].missing, context |-> call[c].context]
<1>1. /\ W!TypeOK /\ W!OneOpensAtATime /\ W!StepsKnow /\ W!MissingIsGone /\ W!UnboundIsOld
      /\ W!ContextIsTheMakers /\ W!RepliesAreOfCalls
  BY DEF W!OpensInv
<1>2. call[c] \in W!OpenCall /\ call[c].step = "opened" /\ W!Becomes(c, r)
  BY <1>1 DEF W!Answer, W!TypeOK
<1>3. UNCHANGED <<dir, made, sessions, binding, pending>> /\ replies' = replies \union {reply}
  BY DEF W!Answer
<1>4. /\ r \in W!OpenCall /\ r.step = "answered" /\ r.scope = call[c].scope /\ r.missing = call[c].missing
      /\ r.session = call[c].session /\ r.context = call[c].context
  BY <1>2, Stepped DEF W!Steps
<1>. HIDE DEF r
<1>5. /\ call' \in [Calls -> W!OpenCall] /\ call'[c] = r
      /\ \A d \in Calls : d # c => call'[d] = call[d]
  BY <1>1, <1>2, <1>4, Becoming DEF W!TypeOK
<1>6. W!TypeOK'
  BY <1>1, <1>3, <1>5 DEF W!TypeOK
<1>7. W!OneOpensAtATime'
  <2>1. call[c].step \notin W!Active /\ r.step \notin W!Active
    BY <1>2, <1>4 DEF W!Active, W!Steps
  <2>. QED
    BY <1>1, <1>3, <1>5, <2>1, OwnersStay
<1>8. ASSUME NEW d \in Calls PROVE W!Knows(d)' /\ W!FoundMissing(d)' /\ GainsNothing(d)
  <2>1. W!Knows(d) /\ W!FoundMissing(d)
    BY <1>1 DEF W!StepsKnow, W!MissingIsGone
  <2>2. CASE d = c
    BY <1>2, <1>3, <1>4, <1>5, <2>1, <2>2 DEF W!Knows, W!FoundMissing, W!Has, W!Incarnation, GainsNothing, W!Provides
  <2>3. CASE d # c
    BY <1>3, <1>5, <2>1, <2>3, Ungaining DEF W!Knows, W!FoundMissing, W!Has, W!Incarnation
  <2>. QED
    BY <2>2, <2>3
<1>9. W!UnboundIsOld'
  <2>1. dir' \in {0, dir, made + 1}
    BY <1>3
  <2>. QED
    BY <1>1, <1>3, <1>8, <2>1, UnboundStay
<1>10. W!RepliesAreOfCalls'
  <2>1. ASSUME NEW a \in replies
        PROVE  /\ a.call \in Calls /\ call'[a.call].step = "answered"
               /\ a = [call |-> a.call, scope |-> call'[a.call].scope, session |-> call'[a.call].session,
                       missing |-> call'[a.call].missing, context |-> call'[a.call].context]
    <3>1. a.call \in Calls /\ call[a.call].step = "answered"
      BY <1>1 DEF W!RepliesAreOfCalls
    <3>2. call'[a.call] = call[a.call]
      BY <1>2, <1>5, <3>1
    <3>. QED
      BY <1>1, <3>1, <3>2 DEF W!RepliesAreOfCalls
  <2>2. /\ reply.call = c /\ call'[c].step = "answered"
        /\ reply = [call |-> c, scope |-> call'[c].scope, session |-> call'[c].session,
                    missing |-> call'[c].missing, context |-> call'[c].context]
    BY <1>4, <1>5
  <2>. HIDE DEF reply
  <2>3. \A a \in replies' : a \in replies \/ a = reply
    BY <1>3
  <2>. QED
    BY <2>1, <2>2, <2>3 DEF W!RepliesAreOfCalls
<1>. QED
  BY <1>1, <1>6, <1>7, <1>8, <1>9, <1>10, ContextsStay DEF W!OpensInv, W!StepsKnow, W!MissingIsGone

\* Nothing of an open changes: a session is used, or the directory comes or goes.
LEMMA ElsewhereKeeps ==
  ASSUME Nameless, W!OpensInv, UNCHANGED <<sessions, binding, pending, call, replies>>,
         made' \in Nat \ {0}, made <= made', dir' \in {0, dir, made + 1}, dir' \in {0, made'}
  PROVE  W!OpensInv'
<1>1. /\ W!TypeOK /\ W!OneOpensAtATime /\ W!StepsKnow /\ W!MissingIsGone /\ W!UnboundIsOld
      /\ W!ContextIsTheMakers /\ W!RepliesAreOfCalls
  BY DEF W!OpensInv
<1>2. W!TypeOK'
  BY <1>1 DEF W!TypeOK
<1>3. W!OneOpensAtATime' /\ W!ContextIsTheMakers' /\ W!RepliesAreOfCalls'
  BY <1>1 DEF W!OneOpensAtATime, W!ContextIsTheMakers, W!RepliesAreOfCalls, W!Provides, W!Has
<1>4. ASSUME NEW d \in Calls PROVE W!Knows(d)' /\ W!FoundMissing(d)' /\ GainsNothing(d)
  <2>1. W!Knows(d) /\ W!FoundMissing(d)
    BY <1>1 DEF W!StepsKnow, W!MissingIsGone
  <2>2. W!Knows(d)'
    BY <2>1 DEF W!Knows, W!Has
  <2>3. W!FoundMissing(d)'
    BY <1>1, <2>1, OthersMiss
  <2>. QED
    BY <2>2, <2>3, Ungaining
<1>5. W!UnboundIsOld'
  BY <1>1, <1>4, UnboundStay
<1>. QED
  BY <1>2, <1>3, <1>4, <1>5 DEF W!OpensInv, W!StepsKnow, W!MissingIsGone

LEMMA RestartKeeps ==
  ASSUME Nameless, W!OpensInv, W!Restart
  PROVE  W!OpensInv'
<1>1. /\ W!TypeOK /\ W!OneOpensAtATime /\ W!StepsKnow /\ W!MissingIsGone /\ W!UnboundIsOld
      /\ W!ContextIsTheMakers /\ W!RepliesAreOfCalls
  BY DEF W!OpensInv
<1>2. UNCHANGED <<dir, made, sessions, binding, replies>>
  BY DEF W!Restart
<1>3. ASSUME NEW d \in Calls
      PROVE  /\ call'[d] \in W!OpenCall
             /\ \/ call'[d] = call[d] /\ call[d].step \in {"new", "answered"}
                \/ call'[d].step = "failed" /\ call[d].step # "answered"
  <2>1. call[d] \in W!OpenCall
    BY <1>1 DEF W!TypeOK
  <2>2. [call[d] EXCEPT !.step = "failed"] \in W!OpenCall /\ [call[d] EXCEPT !.step = "failed"].step = "failed"
    BY <2>1, Stepped DEF W!Steps
  <2>3. call'[d] = IF call[d].step \in {"new", "answered"} THEN call[d] ELSE [call[d] EXCEPT !.step = "failed"]
    BY DEF W!Restart
  <2>. QED
    BY <2>1, <2>2, <2>3
<1>4. DOMAIN call' = Calls /\ call' = [d \in Calls |-> call'[d]]
  BY DEF W!Restart
<1>5. call' \in [Calls -> W!OpenCall]
  BY <1>3, <1>4
<1>6. pending' \in [Scopes -> Calls \union {None}] /\ \A s \in Scopes : pending'[s] = None
  BY DEF W!Restart
<1>7. W!TypeOK'
  BY <1>1, <1>2, <1>5, <1>6 DEF W!TypeOK
<1>8. W!OneOpensAtATime'
  <2>1. \A d \in Calls : call'[d].step \notin W!Active
    BY <1>3 DEF W!Active, W!Steps
  <2>. QED
    BY <1>6, <2>1 DEF W!OneOpensAtATime
<1>9. ASSUME NEW d \in Calls PROVE W!Knows(d)' /\ W!FoundMissing(d)' /\ GainsNothing(d)
  <2>1. CASE call'[d] = call[d]
    <3>1. W!Knows(d) /\ W!FoundMissing(d)
      BY <1>1 DEF W!StepsKnow, W!MissingIsGone
    <3>. QED
      BY <1>2, <2>1, <3>1, Ungaining DEF W!Knows, W!FoundMissing, W!Has, W!Incarnation
  <2>2. CASE call'[d].step = "failed"
    BY <2>2, Ungaining DEF W!Knows, W!FoundMissing, W!Has
  <2>. QED
    BY <1>3, <2>1, <2>2
<1>10. W!UnboundIsOld'
  BY <1>1, <1>2, <1>9, UnboundStay
<1>11. \A d \in Calls : call[d].step = "answered" => call'[d] = call[d]
  BY <1>3
<1>. QED
  BY <1>1, <1>2, <1>7, <1>8, <1>9, <1>10, <1>11, ContextsStay, AnswersStay
     DEF W!OpensInv, W!StepsKnow, W!MissingIsGone

LEMMA OpensStep == Nameless /\ W!OpensInv /\ [W!Next]_(W!vars) => W!OpensInv'
<1>. SUFFICES ASSUME Nameless, W!OpensInv, [W!Next]_(W!vars) PROVE W!OpensInv'
  OBVIOUS
<1>1. W!TypeOK
  BY DEF W!OpensInv
<1>2. ASSUME NEW c \in Calls, NEW s \in Scopes, NEW create \in BOOLEAN, W!Open(c, s, create)
      PROVE  W!OpensInv'
  BY <1>2, OpenKeeps
<1>3. ASSUME NEW c \in Calls, NEW create \in BOOLEAN, W!OpenNew(c, create) PROVE W!OpensInv'
  BY <1>3, OpenNewKeeps
<1>4. ASSUME NEW c \in Calls,
             W!Stat(c) \/ W!Prepare(c) \/ W!PrepareFails(c) \/ W!FindReusable(c) \/ W!Reuse(c)
      PROVE  W!OpensInv'
  BY <1>4, StatKeeps, PrepareKeeps, PrepareFailsKeeps, FindReusableKeeps, ReuseKeeps
<1>5. ASSUME NEW c \in Calls,
             W!OpenCheckout(c) \/ W!Bind(c) \/ W!LoadFails(c) \/ W!Answer(c) \/ W!AnswerFails(c)
      PROVE  W!OpensInv'
  BY <1>5, OpenCheckoutKeeps, BindKeeps, LoadFailsKeeps, AnswerKeeps, AnswerFailsKeeps
<1>6. ASSUME NEW w \in DOMAIN sessions, W!GetWorkspace(w) PROVE W!OpensInv'
  BY <1>1, <1>6, ElsewhereKeeps DEF W!GetWorkspace, W!TypeOK
<1>7. CASE W!Restart
  BY <1>7, RestartKeeps
<1>8. CASE W!RemoveDir
  BY <1>1, <1>8, ElsewhereKeeps DEF W!RemoveDir, W!TypeOK
<1>9. CASE W!MakeDir
  BY <1>1, <1>9, ElsewhereKeeps DEF W!MakeDir, W!TypeOK
<1>10. CASE UNCHANGED W!vars
  BY <1>1, <1>10, ElsewhereKeeps DEF W!vars, W!TypeOK
<1>. QED
  BY <1>2, <1>3, <1>4, <1>5, <1>6, <1>7, <1>8, <1>9, <1>10 DEF W!Next

\* THEOREM.  In every reachable state of the workspaces (workspaces.ts), whatever calls
\* open them and whatever becomes of the directory, one open at a time owns the binding of
\* a conversation, and what a call was told and is bound to no more is of a directory that
\* is gone.
THEOREM OpensAreSound == ASSUME Nameless PROVE W!Spec => []W!OpensInv
<1>1. W!Init => W!OpensInv
  <2>. SUFFICES ASSUME W!Init PROVE W!OpensInv
    OBVIOUS
  <2>1. W!NoCall \in W!OpenCall /\ W!NoCall.step = "new" /\ W!NoCall.missing = 0 /\ W!NoCall.context = FALSE
    BY DEF W!NoCall, W!OpenCall, W!Steps
  <2>2. \A c \in Calls : call[c] = W!NoCall
    BY DEF W!Init
  <2>3. W!TypeOK
    BY <2>1 DEF W!Init, W!TypeOK
  <2>4. W!OneOpensAtATime
    BY <2>1, <2>2 DEF W!Init, W!OneOpensAtATime, W!Active, W!Steps
  <2>5. W!StepsKnow /\ W!MissingIsGone
    BY <2>1, <2>2 DEF W!StepsKnow, W!Knows, W!MissingIsGone, W!FoundMissing, W!Has
  <2>6. W!UnboundIsOld /\ W!ContextIsTheMakers /\ W!RepliesAreOfCalls
    BY <2>1, <2>2 DEF W!Init, W!UnboundIsOld, W!ContextIsTheMakers, W!Provides, W!Has, W!RepliesAreOfCalls
  <2>. QED
    BY <2>3, <2>4, <2>5, <2>6 DEF W!OpensInv
<1>. QED
  BY <1>1, OpensStep, PTL DEF W!Spec

\* THEOREM.  A conversation that is told two sessions for a path was told them of two
\* incarnations of the directory, a session found missing is never answered with, and one
\* call alone is given the context of a session: for any number of conversations, calls
\* and sessions.
THEOREM OpensAgree == ASSUME Nameless PROVE W!Spec => []W!OpensAreStable
<1>1. W!OpensInv => W!OpensAreStable
  <2>. SUFFICES ASSUME W!OpensInv PROVE W!OpensAreStable
    OBVIOUS
  <2>1. /\ W!TypeOK /\ W!StepsKnow /\ W!MissingIsGone /\ W!UnboundIsOld
        /\ W!ContextIsTheMakers /\ W!RepliesAreOfCalls
    BY DEF W!OpensInv
  <2>2. ASSUME NEW r \in replies
        PROVE  /\ r.call \in Calls /\ call[r.call].step = "answered" /\ call[r.call] \in W!OpenCall
               /\ r.scope = call[r.call].scope /\ r.session = call[r.call].session
               /\ r.missing = call[r.call].missing /\ r.context = call[r.call].context
               /\ W!Has(r.call) /\ sessions[r.session] = W!Incarnation(r.call)
    <3>1. r.call \in Calls /\ call[r.call].step = "answered"
      BY <2>1 DEF W!RepliesAreOfCalls
    <3>2. r = [call |-> r.call, scope |-> call[r.call].scope, session |-> call[r.call].session,
               missing |-> call[r.call].missing, context |-> call[r.call].context]
      BY <2>1 DEF W!RepliesAreOfCalls
    <3>3. call[r.call] \in W!OpenCall
      BY <2>1, <3>1 DEF W!TypeOK
    <3>4. /\ r.scope = call[r.call].scope /\ r.session = call[r.call].session
          /\ r.missing = call[r.call].missing /\ r.context = call[r.call].context
      BY <3>2
    <3>. QED
      BY <3>1, <3>3, <3>4 DEF W!Has, W!Incarnation
  <2>3. ASSUME NEW r \in replies, NEW t \in replies, r.scope = t.scope, r.scope # None,
               r.session # t.session
        PROVE  sessions[r.session] # sessions[t.session]
    <3>1. r.scope \in Scopes
      BY <2>2, <2>3 DEF W!OpenCall
    <3>2. W!Of(r.call, r.scope) /\ W!Of(t.call, r.scope)
      BY <2>2, <2>3 DEF W!Of
    <3>3. W!Incarnation(r.call) # W!Incarnation(t.call)
      BY <2>1, <2>2, <2>3, <3>1, <3>2 DEF W!UnboundIsOld
    <3>. QED
      BY <2>2, <3>3
  <2>4. ASSUME NEW r \in replies, NEW t \in replies, r.session = t.session, r.context, t.context
        PROVE  r = t
    <3>1. r.call = t.call
      BY <2>1, <2>2, <2>4 DEF W!ContextIsTheMakers, W!Provides
    <3>. QED
      BY <2>1, <3>1 DEF W!RepliesAreOfCalls
  <2>5. ASSUME NEW r \in replies, r.missing # 0 PROVE sessions[r.session] > r.missing
    BY <2>1, <2>2, <2>5 DEF W!MissingIsGone, W!FoundMissing
  <2>. QED
    BY <2>3, <2>4, <2>5 DEF W!OpensAreStable, W!ConversationsAreStable, W!RemadeMeansNew
<1>. QED
  BY <1>1, OpensAreSound, PTL

-------------------------------------------------------------------------------
(***************************************************************************)
(* Pruning.                                                                *)
(***************************************************************************)
\* A pruner goes on, and the others do not.
LEMMA PrunerGoes ==
  ASSUME prune \in [Pruners -> G!Records], NEW p \in Pruners, NEW x \in G!Steps, G!Goes(p, x)
  PROVE  /\ prune' \in [Pruners -> G!Records] /\ prune'[p] \in G!Records
         /\ prune'[p].step = x /\ prune'[p].kind = prune[p].kind
         /\ prune'[p].head = prune[p].head /\ prune'[p].tracked = prune[p].tracked
         /\ \A q \in Pruners : q # p => prune'[q] = prune[q]
BY DEF G!Goes, G!Records

LEMMA IdleIsARecord == G!Idle \in G!Records /\ G!Idle.step = "idle"
BY DEF G!Records, G!Idle, G!Steps, G!Kinds

LEMMA PrunerEnds ==
  ASSUME prune \in [Pruners -> G!Records], NEW p \in Pruners, G!Ends(p)
  PROVE  /\ prune' \in [Pruners -> G!Records] /\ prune'[p] = G!Idle /\ prune'[p].step = "idle"
         /\ \A q \in Pruners : q # p => prune'[q] = prune[q]
<1>1. prune' = [prune EXCEPT ![p] = G!Idle]
  BY DEF G!Ends
<1>. QED
  BY <1>1, IdleIsARecord

\* What has happened stays so.
LEMMA MishapsStay ==
  ASSUME mishaps \subseteq mishaps'
  PROVE  /\ G!Uncut' => G!Uncut /\ G!Apart
         /\ G!Quiet' => G!Quiet /\ G!Apart
         /\ G!Whole' => G!Whole
         /\ G!Apart' => G!Apart
BY DEF G!Uncut, G!Quiet, G!Whole, G!Apart

\* What a removal that stops half-way leaves.
LEMMA RemovedInPartTypes ==
  ASSUME G!TypeOK, NEW known \in BOOLEAN, G!RemovedInPart(known)
  PROVE  tree' \in G!Contents /\ written' \in Nat /\ tree.there /\ tree'.there /\ tree'.git = known
<1>1. tree \in G!Contents /\ written \in Nat /\ tree.there
  BY DEF G!TypeOK, G!RemovedInPart
<1>2. tree' = [tree EXCEPT !.tracked = written + 1, !.git = known] /\ written' = written + 1
  BY DEF G!RemovedInPart
<1>3. written' \in Nat
  BY <1>1, <1>2
<1>4. tree' = [there |-> tree.there, git |-> known, head |-> tree.head, tracked |-> written + 1,
               untracked |-> tree.untracked]
  BY <1>1, <1>2 DEF G!Contents
<1>5. tree.there \in BOOLEAN /\ tree.head \in Nat /\ tree.untracked \in BOOLEAN
  BY <1>1 DEF G!Contents
<1>. QED
  BY <1>1, <1>3, <1>4, <1>5 DEF G!Contents

LEMMA NoTreeIsEmpty == G!NoTree \in G!Contents /\ ~G!NoTree.there /\ ~G!NoTree.git
BY DEF G!NoTree, G!Contents

\* What a removal leaves, done, refused or stopped half-way.
LEMMA CleansUpTypes ==
  ASSUME G!TypeOK, G!CleansUp
  PROVE  /\ tree' \in G!Contents /\ written' \in Nat
         /\ tree' = tree \/ (~tree'.there /\ ~tree'.git) \/ (tree'.there /\ tree.there)
<1>1. tree \in G!Contents /\ written \in Nat
  BY DEF G!TypeOK
<1>2. CASE tree' = G!NoTree /\ UNCHANGED written
  BY <1>1, <1>2, NoTreeIsEmpty
<1>3. CASE UNCHANGED <<tree, written>>
  BY <1>1, <1>3
<1>4. CASE \E known \in BOOLEAN : G!RemovedInPart(known)
  BY <1>4, RemovedInPartTypes
<1>. QED
  BY <1>2, <1>3, <1>4 DEF G!CleansUp

\* A pruner that has begun has the worktree for itself, and the server has not.
LEMMA Alone ==
  ASSUME G!PruneInv, G!Apart, NEW p \in Pruners, prune[p] # G!Idle
  PROVE  /\ row.status = "active" /\ server = G!Idle /\ server.step = "idle"
         /\ \A q \in Pruners : q # p => prune[q] = G!Idle /\ prune[q].step = "idle"
BY IdleIsARecord DEF G!PruneInv, G!OnePruner

LEMMA PrunerActs ==
  ASSUME G!PruneInv, NEW p \in Pruners, prune[p] # G!Idle,
         \A q \in Pruners : q # p => prune'[q] = prune[q],
         UNCHANGED server, mishaps \subseteq mishaps', G!TypeOK',
         prune'[p] = G!Idle \/ row' = row,
         G!Uncut' => /\ row'.status # "gone" /\ prune'[p].step # "missing"
                     /\ row'.status = "active" => tree'.there \/ prune'[p].step \in {"removed", "restore"}
                     /\ prune'[p].step \in {"listed", "looked", "snapped", "saved", "apply"} => tree'.there,
         G!Quiet' => G!DirectoryKnown' /\ G!PrunerKnows(p)'
  PROVE  G!PruneInv'
<1>1. G!OnePruner'
  <2>. SUFFICES ASSUME G!Apart' PROVE G!OnePruner'
    BY DEF G!OnePruner
  <2>1. G!Apart
    BY MishapsStay
  <2>2. /\ row.status = "active" /\ server = G!Idle
        /\ \A q \in Pruners : q # p => prune[q] = G!Idle
    BY <2>1, Alone
  <2>3. \A q \in Pruners : q # p => prune'[q] = G!Idle
    BY <2>2
  <2>. QED
    BY <2>2, <2>3 DEF G!OnePruner
<1>2. G!InUseIsThere'
  <2>. SUFFICES ASSUME G!Uncut' PROVE G!InUseIsThere'
    BY DEF G!InUseIsThere
  <2>1. G!Apart
    BY MishapsStay
  <2>2. server'.step = "idle" /\ \A q \in Pruners : q # p => prune'[q].step = "idle"
    BY <2>1, Alone
  <2>. QED
    BY <2>2 DEF G!InUseIsThere
<1>3. G!ContentIsKnown'
  <2>. SUFFICES ASSUME G!Quiet' PROVE G!ContentIsKnown'
    BY DEF G!ContentIsKnown
  <2>1. G!Apart
    BY MishapsStay
  <2>2. server'.step = "idle" /\ \A q \in Pruners : q # p => prune'[q].step = "idle"
    BY <2>1, Alone
  <2>3. G!ServerKnows'
    BY <2>2 DEF G!ServerKnows
  <2>4. ASSUME NEW q \in Pruners, q # p PROVE G!PrunerKnows(q)'
    BY <2>2, <2>4 DEF G!PrunerKnows
  <2>. QED
    BY <2>3, <2>4 DEF G!ContentIsKnown
<1>. QED
  BY <1>1, <1>2, <1>3 DEF G!PruneInv

\* The server works on the worktree while no pruner does.
LEMMA ServerActs ==
  ASSUME G!PruneInv, G!Apart => row.status # "active", UNCHANGED prune,
         mishaps \subseteq mishaps', G!TypeOK',
         G!Apart' => (server' # G!Idle => row'.status = IF server'.step = "created" THEN "none" ELSE "pruned"),
         G!Uncut' => /\ row'.status # "gone" /\ (row'.status = "active" => tree'.there)
                     /\ server'.step \in {"created", "apply", "restored"} => tree'.there,
         G!Quiet' => G!DirectoryKnown' /\ G!ServerKnows'
  PROVE  G!PruneInv'
<1>1. ASSUME G!Apart PROVE \A q \in Pruners : prune'[q] = G!Idle /\ prune'[q].step = "idle"
  BY <1>1, IdleIsARecord DEF G!PruneInv, G!OnePruner
<1>2. G!OnePruner'
  <2>. SUFFICES ASSUME G!Apart' PROVE G!OnePruner'
    BY DEF G!OnePruner
  <2>. QED
    BY <1>1, MishapsStay DEF G!OnePruner
<1>3. G!InUseIsThere'
  <2>. SUFFICES ASSUME G!Uncut' PROVE G!InUseIsThere'
    BY DEF G!InUseIsThere
  <2>. QED
    BY <1>1, MishapsStay DEF G!InUseIsThere
<1>4. G!ContentIsKnown'
  <2>. SUFFICES ASSUME G!Quiet' PROVE G!ContentIsKnown'
    BY DEF G!ContentIsKnown
  <2>1. ASSUME NEW q \in Pruners PROVE G!PrunerKnows(q)'
    BY <1>1, MishapsStay DEF G!PrunerKnows
  <2>. QED
    BY <2>1 DEF G!ContentIsKnown
<1>. QED
  BY <1>2, <1>3, <1>4 DEF G!PruneInv

LEMMA DeleteSessionKeeps ==
  ASSUME G!PruneInv, NEW p \in Pruners, G!DeleteSession(p)
  PROVE  G!PruneInv'
<1>1. G!TypeOK /\ G!InUseIsThere /\ G!ContentIsKnown
  BY DEF G!PruneInv
<1>2. prune[p] \in G!Records /\ prune[p].step = "missing"
  BY <1>1 DEF G!TypeOK, G!DeleteSession
<1>3. /\ G!TypeOK'
      /\ (\A q \in Pruners : q # p => prune'[q] = prune[q]) /\ UNCHANGED server
      /\ mishaps \subseteq mishaps'
      /\ prune'[p] = G!Idle /\ prune'[p].step = "idle"
      /\ UNCHANGED <<tree, ref, latest, written, mishaps>>
      /\ row'.status = "gone"
  <2>1. G!Ends(p)
    BY DEF G!DeleteSession
  <2>2. /\ prune' \in [Pruners -> G!Records]
        /\ prune'[p] = G!Idle /\ prune'[p].step = "idle"
        /\ \A q \in Pruners : q # p => prune'[q] = prune[q]
    BY <1>1, <2>1, PrunerEnds DEF G!TypeOK
  <2>3. row' \in G!Rows /\ row'.status = "gone"
    BY <1>1 DEF G!DeleteSession, G!TypeOK, G!Rows
  <2>. QED
    BY <1>1, <2>2, <2>3 DEF G!DeleteSession, G!TypeOK
<1>. QED
  <2>1. prune[p] # G!Idle
    BY <1>2, IdleIsARecord
  <2>2. ASSUME G!Uncut'
        PROVE  /\ row'.status # "gone" /\ prune'[p].step # "missing"
               /\ row'.status = "active" => tree'.there \/ prune'[p].step \in {"removed", "restore"}
               /\ prune'[p].step \in {"listed", "looked", "snapped", "saved", "apply"} => tree'.there
    <3>1. G!Uncut /\ G!Apart
      BY <1>3, <2>2, MishapsStay
    <3>2. row.status = "active" /\ \A q \in Pruners : q # p => prune[q].step = "idle"
      BY <2>1, <3>1, Alone
    <3>. QED
      BY <1>1, <1>2, <1>3, <2>2, <3>1, <3>2 DEF G!InUseIsThere
  <2>3. ASSUME G!Quiet'
        PROVE  G!DirectoryKnown' /\ G!PrunerKnows(p)'
    <3>1. G!Quiet /\ G!Apart
      BY <1>3, <2>3, MishapsStay
    <3>2. row.status = "active" /\ \A q \in Pruners : q # p => prune[q].step = "idle"
      BY <2>1, <3>1, Alone
    <3>3. \A q \in Pruners : q # p => prune'[q].step = "idle"
      BY <1>3, <3>2
    <3>4. G!DirectoryKnown /\ G!PrunerKnows(p)
      BY <1>1, <3>1 DEF G!ContentIsKnown
    <3>5. G!DirectoryKnown'
      BY <1>1, <1>2, <1>3, <2>3, <3>2, <3>3, <3>4 DEF G!DirectoryKnown, G!InDirectory, G!Whole, G!Saved, G!Kept, G!Holds, G!Base, G!NoTree, G!PrunerKnows, G!TypeOK, G!Contents
    <3>6. G!PrunerKnows(p)'
      BY <1>1, <1>2, <1>3, <2>3, <3>2, <3>3, <3>4 DEF G!DirectoryKnown, G!InDirectory, G!Whole, G!Saved, G!Kept, G!Holds, G!Base, G!NoTree, G!PrunerKnows
    <3>. QED
      BY <3>5, <3>6
  <2>. QED
    BY <1>1, <1>3, <2>1, <2>2, <2>3, PrunerActs

LEMMA UpdateRefKeeps ==
  ASSUME G!PruneInv, NEW p \in Pruners, G!UpdateRef(p)
  PROVE  G!PruneInv'
<1>1. G!TypeOK /\ G!InUseIsThere /\ G!ContentIsKnown
  BY DEF G!PruneInv
<1>2. prune[p] \in G!Records /\ prune[p].step = "snapped"
  BY <1>1 DEF G!TypeOK, G!UpdateRef
<1>3. /\ G!TypeOK'
      /\ (\A q \in Pruners : q # p => prune'[q] = prune[q]) /\ UNCHANGED server
      /\ mishaps \subseteq mishaps'
      /\ prune'[p].step = "saved" /\ prune'[p].kind = prune[p].kind
      /\ prune'[p].head = prune[p].head /\ prune'[p].tracked = prune[p].tracked
      /\ UNCHANGED <<row, tree, latest, written, mishaps>>
      /\ IF prune[p].kind = "none" THEN ref' = ref ELSE ref' = prune[p]
  <2>1. G!Goes(p, "saved") /\ "saved" \in G!Steps
    BY DEF G!UpdateRef, G!Steps
  <2>2. /\ prune' \in [Pruners -> G!Records]
        /\ prune'[p].step = "saved" /\ prune'[p].kind = prune[p].kind
        /\ prune'[p].head = prune[p].head /\ prune'[p].tracked = prune[p].tracked
        /\ \A q \in Pruners : q # p => prune'[q] = prune[q]
    BY <1>1, <2>1, PrunerGoes DEF G!TypeOK
  <2>3. ref' \in G!Records
    BY <1>1, <1>2 DEF G!UpdateRef, G!TypeOK
  <2>. QED
    BY <1>1, <2>2, <2>3 DEF G!UpdateRef, G!TypeOK
<1>. QED
  <2>1. prune[p] # G!Idle
    BY <1>2, IdleIsARecord
  <2>2. ASSUME G!Uncut'
        PROVE  /\ row'.status # "gone" /\ prune'[p].step # "missing"
               /\ row'.status = "active" => tree'.there \/ prune'[p].step \in {"removed", "restore"}
               /\ prune'[p].step \in {"listed", "looked", "snapped", "saved", "apply"} => tree'.there
    <3>1. G!Uncut /\ G!Apart
      BY <1>3, <2>2, MishapsStay
    <3>2. row.status = "active" /\ \A q \in Pruners : q # p => prune[q].step = "idle"
      BY <2>1, <3>1, Alone
    <3>. QED
      BY <1>1, <1>2, <1>3, <2>2, <3>1, <3>2 DEF G!InUseIsThere
  <2>3. ASSUME G!Quiet'
        PROVE  G!DirectoryKnown' /\ G!PrunerKnows(p)'
    <3>1. G!Quiet /\ G!Apart
      BY <1>3, <2>3, MishapsStay
    <3>2. row.status = "active" /\ \A q \in Pruners : q # p => prune[q].step = "idle"
      BY <2>1, <3>1, Alone
    <3>3. \A q \in Pruners : q # p => prune'[q].step = "idle"
      BY <1>3, <3>2
    <3>4. G!DirectoryKnown /\ G!PrunerKnows(p)
      BY <1>1, <3>1 DEF G!ContentIsKnown
    <3>5. G!DirectoryKnown'
      BY <1>1, <1>2, <1>3, <2>3, <3>2, <3>3, <3>4 DEF G!DirectoryKnown, G!InDirectory, G!Whole, G!Saved, G!Kept, G!Holds, G!Base, G!NoTree, G!PrunerKnows, G!TypeOK, G!Contents
    <3>6. G!PrunerKnows(p)'
      BY <1>1, <1>2, <1>3, <2>3, <3>2, <3>3, <3>4 DEF G!DirectoryKnown, G!InDirectory, G!Whole, G!Saved, G!Kept, G!Holds, G!Base, G!NoTree, G!PrunerKnows
    <3>. QED
      BY <3>5, <3>6
  <2>. QED
    BY <1>1, <1>3, <2>1, <2>2, <2>3, PrunerActs

LEMMA RemoveKeeps ==
  ASSUME G!PruneInv, NEW p \in Pruners, G!Remove(p)
  PROVE  G!PruneInv'
<1>1. G!TypeOK /\ G!InUseIsThere /\ G!ContentIsKnown
  BY DEF G!PruneInv
<1>2. prune[p] \in G!Records /\ prune[p].step = "saved"
  BY <1>1 DEF G!TypeOK, G!Remove
<1>3. /\ G!TypeOK'
      /\ (\A q \in Pruners : q # p => prune'[q] = prune[q]) /\ UNCHANGED server
      /\ mishaps \subseteq mishaps'
      /\ prune'[p].step = "removed" /\ prune'[p].kind = prune[p].kind
      /\ prune'[p].head = prune[p].head /\ prune'[p].tracked = prune[p].tracked
      /\ UNCHANGED <<row, ref, latest, written, mishaps>>
      /\ ~tree'.there /\ ~tree'.git
  <2>1. G!Goes(p, "removed") /\ "removed" \in G!Steps
    BY DEF G!Remove, G!Steps
  <2>2. /\ prune' \in [Pruners -> G!Records]
        /\ prune'[p].step = "removed" /\ prune'[p].kind = prune[p].kind
        /\ prune'[p].head = prune[p].head /\ prune'[p].tracked = prune[p].tracked
        /\ \A q \in Pruners : q # p => prune'[q] = prune[q]
    BY <1>1, <2>1, PrunerGoes DEF G!TypeOK
  <2>3. tree' \in G!Contents /\ ~tree'.there /\ ~tree'.git
    BY DEF G!Remove, G!NoTree, G!Contents
  <2>. QED
    BY <1>1, <2>2, <2>3 DEF G!Remove, G!TypeOK
<1>. QED
  <2>1. prune[p] # G!Idle
    BY <1>2, IdleIsARecord
  <2>2. ASSUME G!Uncut'
        PROVE  /\ row'.status # "gone" /\ prune'[p].step # "missing"
               /\ row'.status = "active" => tree'.there \/ prune'[p].step \in {"removed", "restore"}
               /\ prune'[p].step \in {"listed", "looked", "snapped", "saved", "apply"} => tree'.there
    <3>1. G!Uncut /\ G!Apart
      BY <1>3, <2>2, MishapsStay
    <3>2. row.status = "active" /\ \A q \in Pruners : q # p => prune[q].step = "idle"
      BY <2>1, <3>1, Alone
    <3>. QED
      BY <1>1, <1>2, <1>3, <2>2, <3>1, <3>2 DEF G!InUseIsThere
  <2>3. ASSUME G!Quiet'
        PROVE  G!DirectoryKnown' /\ G!PrunerKnows(p)'
    <3>1. G!Quiet /\ G!Apart
      BY <1>3, <2>3, MishapsStay
    <3>2. row.status = "active" /\ \A q \in Pruners : q # p => prune[q].step = "idle"
      BY <2>1, <3>1, Alone
    <3>3. \A q \in Pruners : q # p => prune'[q].step = "idle"
      BY <1>3, <3>2
    <3>4. G!DirectoryKnown /\ G!PrunerKnows(p)
      BY <1>1, <3>1 DEF G!ContentIsKnown
    <3>5. G!DirectoryKnown'
      BY <1>1, <1>2, <1>3, <2>3, <3>2, <3>3, <3>4 DEF G!DirectoryKnown, G!InDirectory, G!Whole, G!Saved, G!Kept, G!Holds, G!Base, G!NoTree, G!PrunerKnows, G!TypeOK, G!Contents
    <3>6. G!PrunerKnows(p)'
      BY <1>1, <1>2, <1>3, <2>3, <3>2, <3>3, <3>4 DEF G!DirectoryKnown, G!InDirectory, G!Whole, G!Saved, G!Kept, G!Holds, G!Base, G!NoTree, G!PrunerKnows
    <3>. QED
      BY <3>5, <3>6
  <2>. QED
    BY <1>1, <1>3, <2>1, <2>2, <2>3, PrunerActs

LEMMA RemoveStopsKeeps ==
  ASSUME G!PruneInv, NEW p \in Pruners, G!RemoveStops(p)
  PROVE  G!PruneInv'
<1>1. G!TypeOK /\ G!InUseIsThere /\ G!ContentIsKnown
  BY DEF G!PruneInv
<1>2. prune[p] \in G!Records /\ prune[p].step = "saved"
  BY <1>1 DEF G!TypeOK, G!RemoveStops
<1>3. /\ G!TypeOK'
      /\ (\A q \in Pruners : q # p => prune'[q] = prune[q]) /\ UNCHANGED server
      /\ mishaps \subseteq mishaps'
      /\ prune'[p] = G!Idle /\ prune'[p].step = "idle"
      /\ UNCHANGED <<row, ref, latest>>
      /\ (G!Uncut' => tree'.there) /\ (G!Whole' => ~tree'.there) /\ (G!Quiet' => ~tree'.git)
  <2>1. G!Ends(p)
    BY DEF G!RemoveStops
  <2>2. /\ prune' \in [Pruners -> G!Records]
        /\ prune'[p] = G!Idle /\ prune'[p].step = "idle"
        /\ \A q \in Pruners : q # p => prune'[q] = prune[q]
    BY <1>1, <2>1, PrunerEnds DEF G!TypeOK
  <2>3. /\ tree' \in G!Contents /\ written' \in Nat /\ mishaps \subseteq mishaps'
        /\ (G!Uncut' => tree'.there) /\ (G!Whole' => ~tree'.there) /\ (G!Quiet' => ~tree'.git)
    <3>1. CASE G!RemovedInPart(FALSE) /\ G!Mishap("half removed")
      <4>1. tree' \in G!Contents /\ written' \in Nat /\ tree'.there /\ ~tree'.git
        BY <1>1, <3>1, RemovedInPartTypes
      <4>2. mishaps \subseteq mishaps' /\ ~G!Whole'
        BY <3>1 DEF G!Mishap, G!Uncut, G!Quiet, G!Whole
      <4>. QED
        BY ONLY <4>1, <4>2
    <3>2. CASE G!RemovedInPart(TRUE) /\ G!Mishap("git killed")
      <4>1. tree' \in G!Contents /\ written' \in Nat /\ tree'.there
        BY <1>1, <3>2, RemovedInPartTypes
      <4>2. mishaps \subseteq mishaps' /\ ~G!Whole' /\ ~G!Quiet'
        BY <3>2 DEF G!Mishap, G!Uncut, G!Quiet, G!Whole
      <4>. QED
        BY ONLY <4>1, <4>2
    <3>3. CASE tree' = G!NoTree /\ UNCHANGED written /\ G!Mishap("interrupted")
      <4>1. tree' \in G!Contents /\ written' \in Nat /\ ~tree'.there /\ ~tree'.git
        BY <1>1, <3>3, NoTreeIsEmpty DEF G!TypeOK
      <4>2. mishaps \subseteq mishaps' /\ ~G!Uncut'
        BY <3>3 DEF G!Mishap, G!Uncut, G!Quiet, G!Whole
      <4>. QED
        BY ONLY <4>1, <4>2
    <3>. QED
      BY <3>1, <3>2, <3>3 DEF G!RemoveStops
  <2>. QED
    BY <1>1, <2>2, <2>3 DEF G!RemoveStops, G!TypeOK
<1>. QED
  <2>1. prune[p] # G!Idle
    BY <1>2, IdleIsARecord
  <2>2. ASSUME G!Uncut'
        PROVE  /\ row'.status # "gone" /\ prune'[p].step # "missing"
               /\ row'.status = "active" => tree'.there \/ prune'[p].step \in {"removed", "restore"}
               /\ prune'[p].step \in {"listed", "looked", "snapped", "saved", "apply"} => tree'.there
    <3>1. G!Uncut /\ G!Apart
      BY <1>3, <2>2, MishapsStay
    <3>2. row.status = "active" /\ \A q \in Pruners : q # p => prune[q].step = "idle"
      BY <2>1, <3>1, Alone
    <3>. QED
      BY <1>1, <1>2, <1>3, <2>2, <3>1, <3>2 DEF G!InUseIsThere
  <2>3. ASSUME G!Quiet'
        PROVE  G!DirectoryKnown' /\ G!PrunerKnows(p)'
    <3>1. G!Quiet /\ G!Apart
      BY <1>3, <2>3, MishapsStay
    <3>2. row.status = "active" /\ \A q \in Pruners : q # p => prune[q].step = "idle"
      BY <2>1, <3>1, Alone
    <3>3. \A q \in Pruners : q # p => prune'[q].step = "idle"
      BY <1>3, <3>2
    <3>4. G!DirectoryKnown /\ G!PrunerKnows(p)
      BY <1>1, <3>1 DEF G!ContentIsKnown
    <3>5. G!DirectoryKnown'
      BY <1>1, <1>2, <1>3, <2>3, <3>2, <3>3, <3>4 DEF G!DirectoryKnown, G!InDirectory, G!Whole, G!Saved, G!Kept, G!Holds, G!Base, G!NoTree, G!PrunerKnows, G!TypeOK, G!Contents
    <3>6. G!PrunerKnows(p)'
      BY <1>1, <1>2, <1>3, <2>3, <3>2, <3>3, <3>4 DEF G!DirectoryKnown, G!InDirectory, G!Whole, G!Saved, G!Kept, G!Holds, G!Base, G!NoTree, G!PrunerKnows
    <3>. QED
      BY <3>5, <3>6
  <2>. QED
    BY <1>1, <1>3, <2>1, <2>2, <2>3, PrunerActs

LEMMA GitFailsKeeps ==
  ASSUME G!PruneInv, NEW p \in Pruners, G!GitFails(p)
  PROVE  G!PruneInv'
<1>1. G!TypeOK /\ G!InUseIsThere /\ G!ContentIsKnown
  BY DEF G!PruneInv
<1>2. prune[p] \in G!Records /\ prune[p].step \in {"listed", "looked", "snapped", "saved"}
  BY <1>1 DEF G!TypeOK, G!GitFails
<1>3. /\ G!TypeOK'
      /\ (\A q \in Pruners : q # p => prune'[q] = prune[q]) /\ UNCHANGED server
      /\ mishaps \subseteq mishaps'
      /\ prune'[p] = G!Idle /\ prune'[p].step = "idle"
      /\ UNCHANGED <<row, tree, ref, latest, written, mishaps>>
  <2>1. G!Ends(p)
    BY DEF G!GitFails
  <2>2. /\ prune' \in [Pruners -> G!Records]
        /\ prune'[p] = G!Idle /\ prune'[p].step = "idle"
        /\ \A q \in Pruners : q # p => prune'[q] = prune[q]
    BY <1>1, <2>1, PrunerEnds DEF G!TypeOK
  <2>. QED
    BY <1>1, <2>2 DEF G!GitFails, G!TypeOK
<1>. QED
  <2>1. prune[p] # G!Idle
    BY <1>2, IdleIsARecord
  <2>2. ASSUME G!Uncut'
        PROVE  /\ row'.status # "gone" /\ prune'[p].step # "missing"
               /\ row'.status = "active" => tree'.there \/ prune'[p].step \in {"removed", "restore"}
               /\ prune'[p].step \in {"listed", "looked", "snapped", "saved", "apply"} => tree'.there
    <3>1. G!Uncut /\ G!Apart
      BY <1>3, <2>2, MishapsStay
    <3>2. row.status = "active" /\ \A q \in Pruners : q # p => prune[q].step = "idle"
      BY <2>1, <3>1, Alone
    <3>. QED
      BY <1>1, <1>2, <1>3, <2>2, <3>1, <3>2 DEF G!InUseIsThere
  <2>3. ASSUME G!Quiet'
        PROVE  G!DirectoryKnown' /\ G!PrunerKnows(p)'
    <3>1. G!Quiet /\ G!Apart
      BY <1>3, <2>3, MishapsStay
    <3>2. row.status = "active" /\ \A q \in Pruners : q # p => prune[q].step = "idle"
      BY <2>1, <3>1, Alone
    <3>3. \A q \in Pruners : q # p => prune'[q].step = "idle"
      BY <1>3, <3>2
    <3>4. G!DirectoryKnown /\ G!PrunerKnows(p)
      BY <1>1, <3>1 DEF G!ContentIsKnown
    <3>5. G!DirectoryKnown'
      BY <1>1, <1>2, <1>3, <2>3, <3>2, <3>3, <3>4 DEF G!DirectoryKnown, G!InDirectory, G!Whole, G!Saved, G!Kept, G!Holds, G!Base, G!NoTree, G!PrunerKnows, G!TypeOK, G!Contents
    <3>6. G!PrunerKnows(p)'
      BY <1>1, <1>2, <1>3, <2>3, <3>2, <3>3, <3>4 DEF G!DirectoryKnown, G!InDirectory, G!Whole, G!Saved, G!Kept, G!Holds, G!Base, G!NoTree, G!PrunerKnows
    <3>. QED
      BY <3>5, <3>6
  <2>. QED
    BY <1>1, <1>3, <2>1, <2>2, <2>3, PrunerActs

LEMMA MarkPrunedKeeps ==
  ASSUME G!PruneInv, NEW p \in Pruners, G!MarkPruned(p)
  PROVE  G!PruneInv'
<1>1. G!TypeOK /\ G!InUseIsThere /\ G!ContentIsKnown
  BY DEF G!PruneInv
<1>2. prune[p] \in G!Records /\ prune[p].step = "removed"
  BY <1>1 DEF G!TypeOK, G!MarkPruned
<1>3. /\ G!TypeOK'
      /\ (\A q \in Pruners : q # p => prune'[q] = prune[q]) /\ UNCHANGED server
      /\ mishaps \subseteq mishaps'
      /\ prune'[p] = G!Idle /\ prune'[p].step = "idle"
      /\ UNCHANGED <<tree, ref, latest, written, mishaps>>
      /\ row.status = "active" => row'.status = "pruned" /\ row'.kind = prune[p].kind
      /\ row'.status # "gone" \/ row.status = "gone"
  <2>1. G!Ends(p)
    BY DEF G!MarkPruned
  <2>2. /\ prune' \in [Pruners -> G!Records]
        /\ prune'[p] = G!Idle /\ prune'[p].step = "idle"
        /\ \A q \in Pruners : q # p => prune'[q] = prune[q]
    BY <1>1, <2>1, PrunerEnds DEF G!TypeOK
  <2>3. /\ row' \in G!Rows /\ (row.status = "active" => row'.status = "pruned" /\ row'.kind = prune[p].kind)
        /\ row'.status # "gone" \/ row.status = "gone"
    BY <1>1, <1>2 DEF G!MarkPruned, G!Marked, G!TypeOK, G!Rows, G!Records
  <2>. QED
    BY <1>1, <2>2, <2>3 DEF G!MarkPruned, G!TypeOK
<1>. QED
  <2>1. prune[p] # G!Idle
    BY <1>2, IdleIsARecord
  <2>2. ASSUME G!Uncut'
        PROVE  /\ row'.status # "gone" /\ prune'[p].step # "missing"
               /\ row'.status = "active" => tree'.there \/ prune'[p].step \in {"removed", "restore"}
               /\ prune'[p].step \in {"listed", "looked", "snapped", "saved", "apply"} => tree'.there
    <3>1. G!Uncut /\ G!Apart
      BY <1>3, <2>2, MishapsStay
    <3>2. row.status = "active" /\ \A q \in Pruners : q # p => prune[q].step = "idle"
      BY <2>1, <3>1, Alone
    <3>. QED
      BY <1>1, <1>2, <1>3, <2>2, <3>1, <3>2 DEF G!InUseIsThere
  <2>3. ASSUME G!Quiet'
        PROVE  G!DirectoryKnown' /\ G!PrunerKnows(p)'
    <3>1. G!Quiet /\ G!Apart
      BY <1>3, <2>3, MishapsStay
    <3>2. row.status = "active" /\ \A q \in Pruners : q # p => prune[q].step = "idle"
      BY <2>1, <3>1, Alone
    <3>3. \A q \in Pruners : q # p => prune'[q].step = "idle"
      BY <1>3, <3>2
    <3>4. G!DirectoryKnown /\ G!PrunerKnows(p)
      BY <1>1, <3>1 DEF G!ContentIsKnown
    <3>5. G!DirectoryKnown'
      BY <1>1, <1>2, <1>3, <2>3, <3>2, <3>3, <3>4 DEF G!DirectoryKnown, G!InDirectory, G!Whole, G!Saved, G!Kept, G!Holds, G!Base, G!NoTree, G!PrunerKnows, G!TypeOK, G!Contents
    <3>6. G!PrunerKnows(p)'
      BY <1>1, <1>2, <1>3, <2>3, <3>2, <3>3, <3>4 DEF G!DirectoryKnown, G!InDirectory, G!Whole, G!Saved, G!Kept, G!Holds, G!Base, G!NoTree, G!PrunerKnows
    <3>. QED
      BY <3>5, <3>6
  <2>. QED
    BY <1>1, <1>3, <2>1, <2>2, <2>3, PrunerActs

LEMMA MarkFailsKeeps ==
  ASSUME G!PruneInv, NEW p \in Pruners, G!MarkFails(p)
  PROVE  G!PruneInv'
<1>1. G!TypeOK /\ G!InUseIsThere /\ G!ContentIsKnown
  BY DEF G!PruneInv
<1>2. prune[p] \in G!Records /\ prune[p].step = "removed"
  BY <1>1 DEF G!TypeOK, G!MarkFails
<1>3. /\ G!TypeOK'
      /\ (\A q \in Pruners : q # p => prune'[q] = prune[q]) /\ UNCHANGED server
      /\ mishaps \subseteq mishaps'
      /\ prune'[p].step = "restore" /\ prune'[p].kind = prune[p].kind
      /\ prune'[p].head = prune[p].head /\ prune'[p].tracked = prune[p].tracked
      /\ UNCHANGED <<row, tree, ref, latest, written, mishaps>>
  <2>1. G!Goes(p, "restore") /\ "restore" \in G!Steps
    BY DEF G!MarkFails, G!Steps
  <2>2. /\ prune' \in [Pruners -> G!Records]
        /\ prune'[p].step = "restore" /\ prune'[p].kind = prune[p].kind
        /\ prune'[p].head = prune[p].head /\ prune'[p].tracked = prune[p].tracked
        /\ \A q \in Pruners : q # p => prune'[q] = prune[q]
    BY <1>1, <2>1, PrunerGoes DEF G!TypeOK
  <2>. QED
    BY <1>1, <2>2 DEF G!MarkFails, G!TypeOK
<1>. QED
  <2>1. prune[p] # G!Idle
    BY <1>2, IdleIsARecord
  <2>2. ASSUME G!Uncut'
        PROVE  /\ row'.status # "gone" /\ prune'[p].step # "missing"
               /\ row'.status = "active" => tree'.there \/ prune'[p].step \in {"removed", "restore"}
               /\ prune'[p].step \in {"listed", "looked", "snapped", "saved", "apply"} => tree'.there
    <3>1. G!Uncut /\ G!Apart
      BY <1>3, <2>2, MishapsStay
    <3>2. row.status = "active" /\ \A q \in Pruners : q # p => prune[q].step = "idle"
      BY <2>1, <3>1, Alone
    <3>. QED
      BY <1>1, <1>2, <1>3, <2>2, <3>1, <3>2 DEF G!InUseIsThere
  <2>3. ASSUME G!Quiet'
        PROVE  G!DirectoryKnown' /\ G!PrunerKnows(p)'
    <3>1. G!Quiet /\ G!Apart
      BY <1>3, <2>3, MishapsStay
    <3>2. row.status = "active" /\ \A q \in Pruners : q # p => prune[q].step = "idle"
      BY <2>1, <3>1, Alone
    <3>3. \A q \in Pruners : q # p => prune'[q].step = "idle"
      BY <1>3, <3>2
    <3>4. G!DirectoryKnown /\ G!PrunerKnows(p)
      BY <1>1, <3>1 DEF G!ContentIsKnown
    <3>5. G!DirectoryKnown'
      BY <1>1, <1>2, <1>3, <2>3, <3>2, <3>3, <3>4 DEF G!DirectoryKnown, G!InDirectory, G!Whole, G!Saved, G!Kept, G!Holds, G!Base, G!NoTree, G!PrunerKnows, G!TypeOK, G!Contents
    <3>6. G!PrunerKnows(p)'
      BY <1>1, <1>2, <1>3, <2>3, <3>2, <3>3, <3>4 DEF G!DirectoryKnown, G!InDirectory, G!Whole, G!Saved, G!Kept, G!Holds, G!Base, G!NoTree, G!PrunerKnows
    <3>. QED
      BY <3>5, <3>6
  <2>. QED
    BY <1>1, <1>3, <2>1, <2>2, <2>3, PrunerActs

LEMMA ApplyRemovedKeeps ==
  ASSUME G!PruneInv, NEW p \in Pruners, G!ApplyRemoved(p)
  PROVE  G!PruneInv'
<1>1. G!TypeOK /\ G!InUseIsThere /\ G!ContentIsKnown
  BY DEF G!PruneInv
<1>2. prune[p] \in G!Records /\ prune[p].step = "apply"
  BY <1>1 DEF G!TypeOK, G!ApplyRemoved
<1>3. /\ G!TypeOK'
      /\ (\A q \in Pruners : q # p => prune'[q] = prune[q]) /\ UNCHANGED server
      /\ mishaps \subseteq mishaps'
      /\ prune'[p] = G!Idle /\ prune'[p].step = "idle"
      /\ UNCHANGED <<row, ref, latest, written, mishaps>>
      /\ tree.there /\ tree'.there /\ tree'.head = tree.head /\ tree'.tracked = ref.tracked
      /\ tree'.untracked = tree.untracked /\ tree'.git = tree.git
  <2>1. G!Ends(p)
    BY DEF G!ApplyRemoved
  <2>2. /\ prune' \in [Pruners -> G!Records]
        /\ prune'[p] = G!Idle /\ prune'[p].step = "idle"
        /\ \A q \in Pruners : q # p => prune'[q] = prune[q]
    BY <1>1, <2>1, PrunerEnds DEF G!TypeOK
  <2>3. /\ tree' \in G!Contents /\ tree.there /\ tree'.there /\ tree'.head = tree.head
        /\ tree'.tracked = ref.tracked /\ tree'.untracked = tree.untracked /\ tree'.git = tree.git
    BY <1>1 DEF G!ApplyRemoved, G!TypeOK, G!Contents, G!Records
  <2>. QED
    BY <1>1, <2>2, <2>3 DEF G!ApplyRemoved, G!TypeOK
<1>. QED
  <2>1. prune[p] # G!Idle
    BY <1>2, IdleIsARecord
  <2>2. ASSUME G!Uncut'
        PROVE  /\ row'.status # "gone" /\ prune'[p].step # "missing"
               /\ row'.status = "active" => tree'.there \/ prune'[p].step \in {"removed", "restore"}
               /\ prune'[p].step \in {"listed", "looked", "snapped", "saved", "apply"} => tree'.there
    <3>1. G!Uncut /\ G!Apart
      BY <1>3, <2>2, MishapsStay
    <3>2. row.status = "active" /\ \A q \in Pruners : q # p => prune[q].step = "idle"
      BY <2>1, <3>1, Alone
    <3>. QED
      BY <1>1, <1>2, <1>3, <2>2, <3>1, <3>2 DEF G!InUseIsThere
  <2>3. ASSUME G!Quiet'
        PROVE  G!DirectoryKnown' /\ G!PrunerKnows(p)'
    <3>1. G!Quiet /\ G!Apart
      BY <1>3, <2>3, MishapsStay
    <3>2. row.status = "active" /\ \A q \in Pruners : q # p => prune[q].step = "idle"
      BY <2>1, <3>1, Alone
    <3>3. \A q \in Pruners : q # p => prune'[q].step = "idle"
      BY <1>3, <3>2
    <3>4. G!DirectoryKnown /\ G!PrunerKnows(p)
      BY <1>1, <3>1 DEF G!ContentIsKnown
    <3>5. G!DirectoryKnown'
      BY <1>1, <1>2, <1>3, <2>3, <3>2, <3>3, <3>4 DEF G!DirectoryKnown, G!InDirectory, G!Whole, G!Saved, G!Kept, G!Holds, G!Base, G!NoTree, G!PrunerKnows, G!TypeOK, G!Contents
    <3>6. G!PrunerKnows(p)'
      BY <1>1, <1>2, <1>3, <2>3, <3>2, <3>3, <3>4 DEF G!DirectoryKnown, G!InDirectory, G!Whole, G!Saved, G!Kept, G!Holds, G!Base, G!NoTree, G!PrunerKnows
    <3>. QED
      BY <3>5, <3>6
  <2>. QED
    BY <1>1, <1>3, <2>1, <2>2, <2>3, PrunerActs

LEMMA LookKeeps ==
  ASSUME G!PruneInv, NEW p \in Pruners, G!Look(p)
  PROVE  G!PruneInv'
<1>1. G!TypeOK /\ G!InUseIsThere /\ G!ContentIsKnown
  BY DEF G!PruneInv
<1>2. prune[p] \in G!Records /\ prune[p].step = "listed"
  BY <1>1 DEF G!TypeOK, G!Look
<1>3. /\ G!TypeOK'
      /\ (\A q \in Pruners : q # p => prune'[q] = prune[q]) /\ UNCHANGED server
      /\ UNCHANGED <<row, tree, ref, latest, written, mishaps>>
      /\ mishaps \subseteq mishaps'
      /\ \/ ~tree.there /\ prune'[p].step = "missing"
         \/ prune'[p] = G!Idle /\ prune'[p].step = "idle"
         \/ /\ tree.there /\ tree.git /\ ~tree.untracked /\ prune'[p].step = "looked"
            /\ (prune'[p].kind = "stash" <=> tree.tracked # tree.head)
  <2>1. CASE ~tree.there
    <3>1. G!Goes(p, "missing") /\ "missing" \in G!Steps
      BY <2>1 DEF G!Look, G!Steps
    <3>2. /\ prune' \in [Pruners -> G!Records] /\ prune'[p].step = "missing"
          /\ \A q \in Pruners : q # p => prune'[q] = prune[q]
      BY <1>1, <3>1, PrunerGoes DEF G!TypeOK
    <3>. QED
      BY <1>1, <2>1, <3>2 DEF G!Look, G!TypeOK
  <2>2. CASE tree.there /\ (tree.untracked \/ ~tree.git)
    <3>1. G!Ends(p)
      BY <2>2 DEF G!Look
    <3>2. /\ prune' \in [Pruners -> G!Records] /\ prune'[p] = G!Idle /\ prune'[p].step = "idle"
          /\ \A q \in Pruners : q # p => prune'[q] = prune[q]
      BY <1>1, <3>1, PrunerEnds DEF G!TypeOK
    <3>. QED
      BY <1>1, <2>2, <3>2 DEF G!Look, G!TypeOK
  <2>3. CASE tree.there /\ ~(tree.untracked \/ ~tree.git)
    <3>. DEFINE k == IF tree.tracked # tree.head THEN "stash" ELSE "none"
    <3>1. prune' = [prune EXCEPT ![p].step = "looked", ![p].kind = k]
      BY <2>3 DEF G!Look
    <3>2. k \in G!Kinds /\ (k = "stash" <=> tree.tracked # tree.head)
      BY DEF G!Kinds
    <3>. HIDE DEF k
    <3>3. /\ prune' \in [Pruners -> G!Records] /\ prune'[p].step = "looked" /\ prune'[p].kind = k
          /\ \A q \in Pruners : q # p => prune'[q] = prune[q]
      BY <1>1, <3>1, <3>2 DEF G!TypeOK, G!Records, G!Steps
    <3>. QED
      BY <1>1, <2>3, <3>2, <3>3 DEF G!Look, G!TypeOK
  <2>. QED
    BY <2>1, <2>2, <2>3
<1>. QED
  <2>1. prune[p] # G!Idle
    BY <1>2, IdleIsARecord
  <2>2. ASSUME G!Uncut'
        PROVE  /\ row'.status # "gone" /\ prune'[p].step # "missing"
               /\ row'.status = "active" => tree'.there \/ prune'[p].step \in {"removed", "restore"}
               /\ prune'[p].step \in {"listed", "looked", "snapped", "saved", "apply"} => tree'.there
    <3>1. G!Uncut /\ G!Apart
      BY <1>3, <2>2, MishapsStay
    <3>2. row.status = "active" /\ \A q \in Pruners : q # p => prune[q].step = "idle"
      BY <2>1, <3>1, Alone
    <3>. QED
      BY <1>1, <1>2, <1>3, <2>2, <3>1, <3>2 DEF G!InUseIsThere
  <2>3. ASSUME G!Quiet'
        PROVE  G!DirectoryKnown' /\ G!PrunerKnows(p)'
    <3>1. G!Quiet /\ G!Apart
      BY <1>3, <2>3, MishapsStay
    <3>2. row.status = "active" /\ \A q \in Pruners : q # p => prune[q].step = "idle"
      BY <2>1, <3>1, Alone
    <3>3. \A q \in Pruners : q # p => prune'[q].step = "idle"
      BY <1>3, <3>2
    <3>4. G!DirectoryKnown /\ G!PrunerKnows(p)
      BY <1>1, <3>1 DEF G!ContentIsKnown
    <3>5. G!DirectoryKnown'
      BY <1>1, <1>2, <1>3, <2>3, <3>2, <3>3, <3>4 DEF G!DirectoryKnown, G!InDirectory, G!Whole, G!Saved, G!Kept, G!Holds, G!Base, G!NoTree, G!PrunerKnows, G!TypeOK, G!Contents
    <3>6. G!PrunerKnows(p)'
      BY <1>1, <1>2, <1>3, <2>3, <3>2, <3>3, <3>4 DEF G!DirectoryKnown, G!InDirectory, G!Whole, G!Saved, G!Kept, G!Holds, G!Base, G!NoTree, G!PrunerKnows
    <3>. QED
      BY <3>5, <3>6
  <2>. QED
    BY <1>1, <1>3, <2>1, <2>2, <2>3, PrunerActs

LEMMA SnapshotKeeps ==
  ASSUME G!PruneInv, NEW p \in Pruners, G!Snapshot(p)
  PROVE  G!PruneInv'
<1>1. G!TypeOK /\ G!InUseIsThere /\ G!ContentIsKnown
  BY DEF G!PruneInv
<1>2. prune[p] \in G!Records /\ prune[p].step = "looked"
  BY <1>1 DEF G!TypeOK, G!Snapshot
<1>3. /\ G!TypeOK'
      /\ (\A q \in Pruners : q # p => prune'[q] = prune[q]) /\ UNCHANGED server
      /\ UNCHANGED <<row, tree, ref, latest, written, mishaps>>
      /\ mishaps \subseteq mishaps'
      /\ tree.there
      /\ \/ prune'[p] = G!Idle /\ prune'[p].step = "idle"
         \/ /\ prune'[p].step = "snapped" /\ prune'[p].head = tree.head
            /\ \/ prune'[p].kind = "stash" /\ prune[p].kind = "stash" /\ prune'[p].tracked = tree.tracked
               \/ /\ prune'[p].kind = IF tree.head # 0 THEN "head" ELSE "none"
                  /\ prune'[p].tracked = tree.head /\ prune[p].kind # "stash"
  <2>0. tree.head \in Nat /\ tree.tracked \in Nat
    BY <1>1 DEF G!TypeOK, G!Contents
  <2>1. CASE prune[p].kind = "stash" /\ tree.tracked = tree.head
    <3>1. G!Ends(p)
      BY <2>1 DEF G!Snapshot
    <3>2. /\ prune' \in [Pruners -> G!Records] /\ prune'[p] = G!Idle /\ prune'[p].step = "idle"
          /\ \A q \in Pruners : q # p => prune'[q] = prune[q]
      BY <1>1, <3>1, PrunerEnds DEF G!TypeOK
    <3>. QED
      BY <1>1, <2>1, <3>2 DEF G!Snapshot, G!TypeOK
  <2>2. CASE prune[p].kind = "stash" /\ tree.tracked # tree.head
    <3>. DEFINE r == [step |-> "snapped", head |-> tree.head, tracked |-> tree.tracked, kind |-> "stash"]
    <3>1. prune' = [prune EXCEPT ![p] = r]
      BY <2>2 DEF G!Snapshot
    <3>2. r \in G!Records
      BY <2>0 DEF G!Records, G!Steps, G!Kinds
    <3>3. /\ prune' \in [Pruners -> G!Records] /\ prune'[p] = r
          /\ \A q \in Pruners : q # p => prune'[q] = prune[q]
      <4>. HIDE DEF r
      <4>. QED
        BY <1>1, <3>1, <3>2 DEF G!TypeOK
    <3>. QED
      BY <1>1, <2>2, <3>3 DEF G!Snapshot, G!TypeOK
  <2>3. CASE prune[p].kind # "stash"
    <3>. DEFINE r == [step |-> "snapped", head |-> tree.head, tracked |-> tree.head,
                      kind |-> IF tree.head # 0 THEN "head" ELSE "none"]
    <3>1. prune' = [prune EXCEPT ![p] = r]
      BY <2>3 DEF G!Snapshot
    <3>2. r \in G!Records
      BY <2>0 DEF G!Records, G!Steps, G!Kinds
    <3>3. /\ prune' \in [Pruners -> G!Records] /\ prune'[p] = r
          /\ \A q \in Pruners : q # p => prune'[q] = prune[q]
      <4>. HIDE DEF r
      <4>. QED
        BY <1>1, <3>1, <3>2 DEF G!TypeOK
    <3>. QED
      BY <1>1, <2>3, <3>3 DEF G!Snapshot, G!TypeOK
  <2>. QED
    BY <2>1, <2>2, <2>3
<1>. QED
  <2>1. prune[p] # G!Idle
    BY <1>2, IdleIsARecord
  <2>2. ASSUME G!Uncut'
        PROVE  /\ row'.status # "gone" /\ prune'[p].step # "missing"
               /\ row'.status = "active" => tree'.there \/ prune'[p].step \in {"removed", "restore"}
               /\ prune'[p].step \in {"listed", "looked", "snapped", "saved", "apply"} => tree'.there
    <3>1. G!Uncut /\ G!Apart
      BY <1>3, <2>2, MishapsStay
    <3>2. row.status = "active" /\ \A q \in Pruners : q # p => prune[q].step = "idle"
      BY <2>1, <3>1, Alone
    <3>. QED
      BY <1>1, <1>2, <1>3, <2>2, <3>1, <3>2 DEF G!InUseIsThere
  <2>3. ASSUME G!Quiet'
        PROVE  G!DirectoryKnown' /\ G!PrunerKnows(p)'
    <3>1. G!Quiet /\ G!Apart
      BY <1>3, <2>3, MishapsStay
    <3>2. row.status = "active" /\ \A q \in Pruners : q # p => prune[q].step = "idle"
      BY <2>1, <3>1, Alone
    <3>3. \A q \in Pruners : q # p => prune'[q].step = "idle"
      BY <1>3, <3>2
    <3>4. G!DirectoryKnown /\ G!PrunerKnows(p)
      BY <1>1, <3>1 DEF G!ContentIsKnown
    <3>5. G!DirectoryKnown'
      BY <1>1, <1>2, <1>3, <2>3, <3>2, <3>3, <3>4 DEF G!DirectoryKnown, G!InDirectory, G!Whole, G!Saved, G!Kept, G!Holds, G!Base, G!NoTree, G!PrunerKnows, G!TypeOK, G!Contents
    <3>6. G!PrunerKnows(p)'
      BY <1>1, <1>2, <1>3, <2>3, <3>2, <3>3, <3>4 DEF G!DirectoryKnown, G!InDirectory, G!Whole, G!Saved, G!Kept, G!Holds, G!Base, G!NoTree, G!PrunerKnows
    <3>. QED
      BY <3>5, <3>6
  <2>. QED
    BY <1>1, <1>3, <2>1, <2>2, <2>3, PrunerActs

\* A worktree that is added holds the base or the commit behind the ref.
LEMMA AddedIsThere ==
  ASSUME NEW k \in G!Kinds, ref \in G!Records
  PROVE  /\ G!Added(k) \in G!Contents /\ G!Added(k).there /\ G!Added(k).git /\ ~G!Added(k).untracked
         /\ G!Added(k).head = (IF k = "none" THEN 0 ELSE ref.head)
         /\ G!Added(k).tracked = G!Added(k).head
BY DEF G!Added, G!Base, G!NoTree, G!Contents, G!Records

LEMMA RestoreRemovedKeeps ==
  ASSUME G!PruneInv, NEW p \in Pruners, G!RestoreRemoved(p)
  PROVE  G!PruneInv'
<1>1. G!TypeOK /\ G!InUseIsThere /\ G!ContentIsKnown
  BY DEF G!PruneInv
<1>2. prune[p] \in G!Records /\ prune[p].step = "restore" /\ prune[p].kind \in G!Kinds
  BY <1>1 DEF G!TypeOK, G!RestoreRemoved, G!Records
<1>3. /\ G!TypeOK'
      /\ (\A q \in Pruners : q # p => prune'[q] = prune[q]) /\ UNCHANGED server
      /\ UNCHANGED <<row, ref, latest, written, mishaps>>
      /\ mishaps \subseteq mishaps'
      /\ tree'.there /\ tree'.git /\ ~tree'.untracked /\ tree'.head = (IF prune[p].kind = "none" THEN 0 ELSE ref.head)
      /\ tree'.tracked = tree'.head
      /\ \/ prune[p].kind = "stash" /\ prune'[p].step = "apply" /\ prune'[p].kind = "stash"
         \/ prune[p].kind # "stash" /\ prune'[p] = G!Idle /\ prune'[p].step = "idle"
  <2>1. /\ tree' = G!Added(prune[p].kind) /\ tree' \in G!Contents /\ tree'.there /\ tree'.git /\ ~tree'.untracked
        /\ tree'.head = (IF prune[p].kind = "none" THEN 0 ELSE ref.head) /\ tree'.tracked = tree'.head
    BY <1>1, <1>2, AddedIsThere DEF G!RestoreRemoved, G!TypeOK
  <2>2. CASE prune[p].kind = "stash"
    <3>1. G!Goes(p, "apply") /\ "apply" \in G!Steps
      BY <2>2 DEF G!RestoreRemoved, G!Steps
    <3>2. /\ prune' \in [Pruners -> G!Records] /\ prune'[p].step = "apply" /\ prune'[p].kind = prune[p].kind
          /\ \A q \in Pruners : q # p => prune'[q] = prune[q]
      BY <1>1, <3>1, PrunerGoes DEF G!TypeOK
    <3>. QED
      BY <1>1, <2>1, <2>2, <3>2 DEF G!RestoreRemoved, G!TypeOK
  <2>3. CASE prune[p].kind # "stash"
    <3>1. G!Ends(p)
      BY <2>3 DEF G!RestoreRemoved
    <3>2. /\ prune' \in [Pruners -> G!Records] /\ prune'[p] = G!Idle /\ prune'[p].step = "idle"
          /\ \A q \in Pruners : q # p => prune'[q] = prune[q]
      BY <1>1, <3>1, PrunerEnds DEF G!TypeOK
    <3>. QED
      BY <1>1, <2>1, <2>3, <3>2 DEF G!RestoreRemoved, G!TypeOK
  <2>. QED
    BY <2>2, <2>3
<1>. QED
  <2>1. prune[p] # G!Idle
    BY <1>2, IdleIsARecord
  <2>2. ASSUME G!Uncut'
        PROVE  /\ row'.status # "gone" /\ prune'[p].step # "missing"
               /\ row'.status = "active" => tree'.there \/ prune'[p].step \in {"removed", "restore"}
               /\ prune'[p].step \in {"listed", "looked", "snapped", "saved", "apply"} => tree'.there
    <3>1. G!Uncut /\ G!Apart
      BY <1>3, <2>2, MishapsStay
    <3>2. row.status = "active" /\ \A q \in Pruners : q # p => prune[q].step = "idle"
      BY <2>1, <3>1, Alone
    <3>. QED
      BY <1>1, <1>2, <1>3, <2>2, <3>1, <3>2 DEF G!InUseIsThere
  <2>3. ASSUME G!Quiet'
        PROVE  G!DirectoryKnown' /\ G!PrunerKnows(p)'
    <3>1. G!Quiet /\ G!Apart
      BY <1>3, <2>3, MishapsStay
    <3>2. row.status = "active" /\ \A q \in Pruners : q # p => prune[q].step = "idle"
      BY <2>1, <3>1, Alone
    <3>3. \A q \in Pruners : q # p => prune'[q].step = "idle"
      BY <1>3, <3>2
    <3>4. G!DirectoryKnown /\ G!PrunerKnows(p)
      BY <1>1, <3>1 DEF G!ContentIsKnown
    <3>5. G!DirectoryKnown'
      <4>1. G!Kept(prune[p].kind)
        BY <1>2, <3>4 DEF G!PrunerKnows
      <4>2. CASE prune[p].kind = "stash"
        BY <1>3, <3>2, <4>2 DEF G!DirectoryKnown, G!Whole
      <4>3. CASE prune[p].kind # "stash"
        <5>1. G!Holds(tree', latest') /\ tree'.untracked = latest'.untracked
          BY <1>1, <1>2, <1>3, <4>1, <4>3 DEF G!Kept, G!Holds, G!Base, G!NoTree, G!Kinds, G!TypeOK, G!Contents
        <5>. QED
          BY <1>3, <3>2, <5>1 DEF G!DirectoryKnown, G!InDirectory, G!Whole
      <4>. QED
        BY <4>2, <4>3
    <3>6. G!PrunerKnows(p)'
      BY <1>1, <1>2, <1>3, <2>3, <3>2, <3>3, <3>4 DEF G!DirectoryKnown, G!InDirectory, G!Whole, G!Saved, G!Kept, G!Holds, G!Base, G!NoTree, G!PrunerKnows
    <3>. QED
      BY <3>5, <3>6
  <2>. QED
    BY <1>1, <1>3, <2>1, <2>2, <2>3, PrunerActs

LEMMA RestoreFailsKeeps ==
  ASSUME G!PruneInv, NEW p \in Pruners, G!RestoreFails(p)
  PROVE  G!PruneInv'
<1>1. G!TypeOK /\ G!InUseIsThere /\ G!ContentIsKnown
  BY DEF G!PruneInv
<1>2. prune[p] \in G!Records /\ prune[p].step \in {"restore", "apply"}
  BY <1>1 DEF G!TypeOK, G!RestoreFails
<1>3. /\ G!TypeOK'
      /\ (\A q \in Pruners : q # p => prune'[q] = prune[q]) /\ UNCHANGED server
      /\ UNCHANGED <<ref, latest>>
      /\ mishaps \subseteq mishaps'
      /\ prune'[p] = G!Idle /\ prune'[p].step = "idle"
      /\ \/ /\ row.status = "active" => row'.status = "pruned" /\ row'.kind = prune[p].kind
            /\ row'.status # "gone" \/ row.status = "gone"
         \/ row' = row /\ ~G!Uncut' /\ (G!Quiet' => ~tree'.there)
      /\ tree' = tree \/ (~tree'.there /\ ~tree'.git) \/ (tree'.there /\ tree.there)
  <2>1. G!Ends(p)
    BY DEF G!RestoreFails
  <2>2. /\ prune' \in [Pruners -> G!Records] /\ prune'[p] = G!Idle /\ prune'[p].step = "idle"
        /\ \A q \in Pruners : q # p => prune'[q] = prune[q]
    BY <1>1, <2>1, PrunerEnds DEF G!TypeOK
  <2>3. /\ tree' \in G!Contents /\ written' \in Nat
        /\ tree' = tree \/ (~tree'.there /\ ~tree'.git) \/ (tree'.there /\ tree.there)
    <3>1. G!CleansUp \/ UNCHANGED <<tree, written>>
      BY DEF G!RestoreFails
    <3>. QED
      BY <1>1, <3>1, CleansUpTypes DEF G!TypeOK
  <2>4. CASE row' = G!Marked(p) /\ UNCHANGED mishaps
    <3>1. /\ row' \in G!Rows /\ (row.status = "active" => row'.status = "pruned" /\ row'.kind = prune[p].kind)
          /\ row'.status # "gone" \/ row.status = "gone"
      BY <1>1, <1>2, <2>4 DEF G!Marked, G!TypeOK, G!Rows, G!Records
    <3>. QED
      BY <1>1, <2>2, <2>3, <2>4, <3>1 DEF G!RestoreFails, G!TypeOK
  <2>5. CASE G!Mishap(IF tree'.there THEN "half restored" ELSE "interrupted") /\ UNCHANGED row
    <3>1. mishaps \subseteq mishaps' /\ ~G!Uncut' /\ (G!Quiet' => ~tree'.there)
      <4>1. CASE tree'.there
        <5>1. G!Mishap("half restored")
          BY <2>5, <4>1
        <5>2. mishaps \subseteq mishaps' /\ ~G!Uncut' /\ ~G!Quiet'
          BY <5>1 DEF G!Mishap, G!Uncut, G!Quiet, G!Whole
        <5>. QED
          BY ONLY <5>2
      <4>2. CASE ~tree'.there
        <5>1. G!Mishap("interrupted")
          BY <2>5, <4>2
        <5>2. mishaps \subseteq mishaps' /\ ~G!Uncut'
          BY <5>1 DEF G!Mishap, G!Uncut, G!Quiet, G!Whole
        <5>. QED
          BY ONLY <4>2, <5>2
      <4>. QED
        BY <4>1, <4>2
    <3>. QED
      BY <1>1, <2>2, <2>3, <2>5, <3>1 DEF G!RestoreFails, G!TypeOK
  <2>. QED
    BY <2>4, <2>5 DEF G!RestoreFails
<1>. QED
  <2>1. prune[p] # G!Idle
    BY <1>2, IdleIsARecord
  <2>2. ASSUME G!Uncut'
        PROVE  /\ row'.status # "gone" /\ prune'[p].step # "missing"
               /\ row'.status = "active" => tree'.there \/ prune'[p].step \in {"removed", "restore"}
               /\ prune'[p].step \in {"listed", "looked", "snapped", "saved", "apply"} => tree'.there
    <3>1. G!Uncut /\ G!Apart
      BY <1>3, <2>2, MishapsStay
    <3>2. row.status = "active" /\ \A q \in Pruners : q # p => prune[q].step = "idle"
      BY <2>1, <3>1, Alone
    <3>. QED
      BY <1>1, <1>2, <1>3, <2>2, <3>1, <3>2 DEF G!InUseIsThere
  <2>3. ASSUME G!Quiet'
        PROVE  G!DirectoryKnown' /\ G!PrunerKnows(p)'
    <3>1. G!Quiet /\ G!Apart
      BY <1>3, <2>3, MishapsStay
    <3>2. row.status = "active" /\ \A q \in Pruners : q # p => prune[q].step = "idle"
      BY <2>1, <3>1, Alone
    <3>3. \A q \in Pruners : q # p => prune'[q].step = "idle"
      BY <1>3, <3>2
    <3>4. G!DirectoryKnown /\ G!PrunerKnows(p)
      BY <1>1, <3>1 DEF G!ContentIsKnown
    <3>5. G!DirectoryKnown'
      BY <1>1, <1>2, <1>3, <2>3, <3>2, <3>3, <3>4 DEF G!DirectoryKnown, G!InDirectory, G!Whole, G!Saved, G!Kept, G!Holds, G!Base, G!NoTree, G!PrunerKnows, G!TypeOK, G!Contents
    <3>6. G!PrunerKnows(p)'
      BY <1>1, <1>2, <1>3, <2>3, <3>2, <3>3, <3>4 DEF G!DirectoryKnown, G!InDirectory, G!Whole, G!Saved, G!Kept, G!Holds, G!Base, G!NoTree, G!PrunerKnows
    <3>. QED
      BY <3>5, <3>6
  <2>. QED
    BY <1>1, <1>3, <2>1, <2>2, <2>3, PrunerActs

LEMMA CrashPrunerKeeps ==
  ASSUME G!PruneInv, NEW p \in Pruners, G!CrashPruner(p)
  PROVE  G!PruneInv'
<1>1. G!TypeOK /\ G!InUseIsThere /\ G!ContentIsKnown
  BY DEF G!PruneInv
<1>2. prune[p] \in G!Records /\ prune[p] # G!Idle
  BY <1>1 DEF G!TypeOK, G!CrashPruner, G!Idle
<1>3. /\ G!TypeOK'
      /\ (\A q \in Pruners : q # p => prune'[q] = prune[q]) /\ UNCHANGED server
      /\ UNCHANGED <<row, tree, ref, latest, written>>
      /\ mishaps \subseteq mishaps'
      /\ prune'[p] = G!Idle /\ prune'[p].step = "idle"
      /\ ~G!Uncut' /\ (prune[p].step = "apply" => ~G!Quiet')
  <2>1. G!Ends(p)
    BY DEF G!CrashPruner
  <2>2. /\ prune' \in [Pruners -> G!Records] /\ prune'[p] = G!Idle /\ prune'[p].step = "idle"
        /\ \A q \in Pruners : q # p => prune'[q] = prune[q]
    BY <1>1, <2>1, PrunerEnds DEF G!TypeOK
  <2>3. mishaps \subseteq mishaps' /\ ~G!Uncut' /\ (prune[p].step = "apply" => ~G!Quiet')
    <3>1. CASE prune[p].step = "apply"
      <4>1. G!Mishap("half restored")
        BY <3>1 DEF G!CrashPruner
      <4>. QED
        BY <4>1 DEF G!Mishap, G!Uncut, G!Quiet
    <3>2. CASE prune[p].step # "apply"
      <4>1. G!Mishap("interrupted")
        BY <3>2 DEF G!CrashPruner
      <4>. QED
        BY <3>2, <4>1 DEF G!Mishap, G!Uncut
    <3>. QED
      BY <3>1, <3>2
  <2>. QED
    BY <1>1, <2>2, <2>3 DEF G!CrashPruner, G!TypeOK
<1>. QED
  <2>1. prune[p] # G!Idle
    BY <1>2, IdleIsARecord
  <2>2. ASSUME G!Uncut'
        PROVE  /\ row'.status # "gone" /\ prune'[p].step # "missing"
               /\ row'.status = "active" => tree'.there \/ prune'[p].step \in {"removed", "restore"}
               /\ prune'[p].step \in {"listed", "looked", "snapped", "saved", "apply"} => tree'.there
    <3>1. G!Uncut /\ G!Apart
      BY <1>3, <2>2, MishapsStay
    <3>2. row.status = "active" /\ \A q \in Pruners : q # p => prune[q].step = "idle"
      BY <2>1, <3>1, Alone
    <3>. QED
      BY <1>1, <1>2, <1>3, <2>2, <3>1, <3>2 DEF G!InUseIsThere
  <2>3. ASSUME G!Quiet'
        PROVE  G!DirectoryKnown' /\ G!PrunerKnows(p)'
    <3>1. G!Quiet /\ G!Apart
      BY <1>3, <2>3, MishapsStay
    <3>2. row.status = "active" /\ \A q \in Pruners : q # p => prune[q].step = "idle"
      BY <2>1, <3>1, Alone
    <3>3. \A q \in Pruners : q # p => prune'[q].step = "idle"
      BY <1>3, <3>2
    <3>4. G!DirectoryKnown /\ G!PrunerKnows(p)
      BY <1>1, <3>1 DEF G!ContentIsKnown
    <3>5. G!DirectoryKnown'
      BY <1>1, <1>2, <1>3, <2>3, <3>2, <3>3, <3>4 DEF G!DirectoryKnown, G!InDirectory, G!Whole, G!Saved, G!Kept, G!Holds, G!Base, G!NoTree, G!PrunerKnows, G!TypeOK, G!Contents
    <3>6. G!PrunerKnows(p)'
      BY <1>1, <1>2, <1>3, <2>3, <3>2, <3>3, <3>4 DEF G!DirectoryKnown, G!InDirectory, G!Whole, G!Saved, G!Kept, G!Holds, G!Base, G!NoTree, G!PrunerKnows
    <3>. QED
      BY <3>5, <3>6
  <2>. QED
    BY <1>1, <1>3, <2>1, <2>2, <2>3, PrunerActs

\* The server goes on with what it has under way.
LEMMA ServerGoes ==
  ASSUME server \in G!Records, NEW x \in G!Steps
  PROVE  /\ [server EXCEPT !.step = x] \in G!Records
         /\ [server EXCEPT !.step = x].step = x /\ [server EXCEPT !.step = x].kind = server.kind
BY DEF G!Records

LEMMA CreateKeeps ==
  ASSUME G!PruneInv, G!Create
  PROVE  G!PruneInv'
<1>1. G!TypeOK /\ G!OnePruner /\ G!InUseIsThere /\ G!ContentIsKnown
  BY DEF G!PruneInv
<1>2. row.status = "none" /\ server = G!Idle
  BY DEF G!Create
<1>3. /\ G!TypeOK' /\ UNCHANGED prune /\ mishaps \subseteq mishaps' /\ UNCHANGED <<ref, latest>>
      /\ UNCHANGED row /\ server'.step = "created"
      /\ tree'.there /\ tree'.git /\ tree'.head = 0 /\ tree'.tracked = 0 /\ ~tree'.untracked
  <2>1. server' \in G!Records /\ server'.step = "created"
    BY DEF G!Create, G!Records, G!Steps, G!Kinds, G!Idle
  <2>2. tree' \in G!Contents /\ tree'.there /\ tree'.git /\ tree'.head = 0 /\ tree'.tracked = 0 /\ ~tree'.untracked
    BY DEF G!Create, G!Contents, G!Base, G!NoTree
  <2>. QED
    BY <1>1, <2>1, <2>2 DEF G!Create, G!TypeOK
<1>4. ASSUME G!Apart PROVE server # G!Idle => row.status = IF server.step = "created" THEN "none" ELSE "pruned"
  BY <1>1, <1>4 DEF G!OnePruner
<1>5. G!Apart => row.status # "active"
  BY <1>2, <1>4, IdleIsARecord
<1>6. G!Uncut' => G!Apart /\ G!InUseIsThere /\ G!Uncut
  BY <1>1, <1>3, MishapsStay
<1>7. G!Quiet' => G!Apart /\ G!DirectoryKnown /\ G!ServerKnows
  BY <1>1, <1>3, MishapsStay DEF G!ContentIsKnown
<1>8. ASSUME G!Apart' PROVE server' # G!Idle => row'.status = IF server'.step = "created" THEN "none" ELSE "pruned"
  <2>1. G!Apart
    BY <1>3, <1>8, MishapsStay
  <2>. QED
    BY <1>2, <1>3, <1>4, <2>1, IdleIsARecord
<1>9. ASSUME G!Uncut'
      PROVE  /\ row'.status # "gone" /\ (row'.status = "active" => tree'.there)
             /\ server'.step \in {"created", "apply", "restored"} => tree'.there
  BY <1>2, <1>3, <1>4, <1>6, <1>9, IdleIsARecord DEF G!InUseIsThere
<1>10. ASSUME G!Quiet'
       PROVE  G!DirectoryKnown' /\ G!ServerKnows'
  <2>1. G!DirectoryKnown /\ G!ServerKnows /\ (server # G!Idle => row.status = IF server.step = "created" THEN "none" ELSE "pruned")
    BY <1>4, <1>7, <1>10
  <2>2. G!DirectoryKnown'
    BY <1>1, <1>2, <1>3, <2>1, IdleIsARecord DEF G!DirectoryKnown, G!InDirectory, G!Whole, G!Saved, G!Kept, G!Holds, G!Base, G!NoTree, G!ServerKnows, G!TypeOK, G!Contents, G!Rows
  <2>3. G!ServerKnows'
    BY <1>1, <1>2, <1>3, <2>1, IdleIsARecord DEF G!DirectoryKnown, G!InDirectory, G!Whole, G!Saved, G!Kept, G!Holds, G!Base, G!NoTree, G!ServerKnows, G!TypeOK, G!Contents, G!Rows, G!Kinds
  <2>. QED
    BY <2>2, <2>3
<1>. QED
  BY <1>1, <1>3, <1>5, <1>8, <1>9, <1>10, ServerActs

LEMMA CreateSessionKeeps ==
  ASSUME G!PruneInv, G!CreateSession
  PROVE  G!PruneInv'
<1>1. G!TypeOK /\ G!OnePruner /\ G!InUseIsThere /\ G!ContentIsKnown
  BY DEF G!PruneInv
<1>2. server.step = "created"
  BY DEF G!CreateSession
<1>3. /\ G!TypeOK' /\ UNCHANGED prune /\ mishaps \subseteq mishaps' /\ UNCHANGED <<ref, latest>>
      /\ UNCHANGED tree /\ server' = G!Idle /\ server'.step = "idle" /\ row'.status = "active"
  <2>1. row' \in G!Rows /\ row'.status = "active"
    BY <1>1 DEF G!CreateSession, G!TypeOK, G!Rows
  <2>. QED
    BY <1>1, <2>1, IdleIsARecord DEF G!CreateSession, G!TypeOK
<1>4. ASSUME G!Apart PROVE server # G!Idle => row.status = IF server.step = "created" THEN "none" ELSE "pruned"
  BY <1>1, <1>4 DEF G!OnePruner
<1>5. G!Apart => row.status # "active"
  BY <1>2, <1>4, IdleIsARecord
<1>6. G!Uncut' => G!Apart /\ G!InUseIsThere /\ G!Uncut
  BY <1>1, <1>3, MishapsStay
<1>7. G!Quiet' => G!Apart /\ G!DirectoryKnown /\ G!ServerKnows
  BY <1>1, <1>3, MishapsStay DEF G!ContentIsKnown
<1>8. ASSUME G!Apart' PROVE server' # G!Idle => row'.status = IF server'.step = "created" THEN "none" ELSE "pruned"
  <2>1. G!Apart
    BY <1>3, <1>8, MishapsStay
  <2>. QED
    BY <1>2, <1>3, <1>4, <2>1, IdleIsARecord
<1>9. ASSUME G!Uncut'
      PROVE  /\ row'.status # "gone" /\ (row'.status = "active" => tree'.there)
             /\ server'.step \in {"created", "apply", "restored"} => tree'.there
  BY <1>2, <1>3, <1>4, <1>6, <1>9, IdleIsARecord DEF G!InUseIsThere
<1>10. ASSUME G!Quiet'
       PROVE  G!DirectoryKnown' /\ G!ServerKnows'
  <2>1. G!DirectoryKnown /\ G!ServerKnows /\ (server # G!Idle => row.status = IF server.step = "created" THEN "none" ELSE "pruned")
    BY <1>4, <1>7, <1>10
  <2>2. G!DirectoryKnown'
    BY <1>1, <1>2, <1>3, <2>1, IdleIsARecord DEF G!DirectoryKnown, G!InDirectory, G!Whole, G!Saved, G!Kept, G!Holds, G!Base, G!NoTree, G!ServerKnows, G!TypeOK, G!Contents, G!Rows
  <2>3. G!ServerKnows'
    BY <1>1, <1>2, <1>3, <2>1, IdleIsARecord DEF G!DirectoryKnown, G!InDirectory, G!Whole, G!Saved, G!Kept, G!Holds, G!Base, G!NoTree, G!ServerKnows, G!TypeOK, G!Contents, G!Rows, G!Kinds
  <2>. QED
    BY <2>2, <2>3
<1>. QED
  BY <1>1, <1>3, <1>5, <1>8, <1>9, <1>10, ServerActs

LEMMA RestoreKeeps ==
  ASSUME G!PruneInv, G!Restore
  PROVE  G!PruneInv'
<1>1. G!TypeOK /\ G!OnePruner /\ G!InUseIsThere /\ G!ContentIsKnown
  BY DEF G!PruneInv
<1>2. row.status = "pruned" /\ server = G!Idle
  BY DEF G!Restore
<1>3. /\ G!TypeOK' /\ UNCHANGED prune /\ mishaps \subseteq mishaps' /\ UNCHANGED <<ref, latest>>
      /\ UNCHANGED <<row, tree>> /\ server'.step = "restore" /\ server'.kind = row.kind
  <2>1. row.kind \in G!Kinds
    BY <1>1 DEF G!TypeOK, G!Rows
  <2>2. server' \in G!Records /\ server'.step = "restore" /\ server'.kind = row.kind
    BY <2>1 DEF G!Restore, G!Records, G!Steps, G!Kinds, G!Idle
  <2>. QED
    BY <1>1, <2>2 DEF G!Restore, G!TypeOK
<1>4. ASSUME G!Apart PROVE server # G!Idle => row.status = IF server.step = "created" THEN "none" ELSE "pruned"
  BY <1>1, <1>4 DEF G!OnePruner
<1>5. G!Apart => row.status # "active"
  BY <1>2, <1>4, IdleIsARecord
<1>6. G!Uncut' => G!Apart /\ G!InUseIsThere /\ G!Uncut
  BY <1>1, <1>3, MishapsStay
<1>7. G!Quiet' => G!Apart /\ G!DirectoryKnown /\ G!ServerKnows
  BY <1>1, <1>3, MishapsStay DEF G!ContentIsKnown
<1>8. ASSUME G!Apart' PROVE server' # G!Idle => row'.status = IF server'.step = "created" THEN "none" ELSE "pruned"
  <2>1. G!Apart
    BY <1>3, <1>8, MishapsStay
  <2>. QED
    BY <1>2, <1>3, <1>4, <2>1, IdleIsARecord
<1>9. ASSUME G!Uncut'
      PROVE  /\ row'.status # "gone" /\ (row'.status = "active" => tree'.there)
             /\ server'.step \in {"created", "apply", "restored"} => tree'.there
  BY <1>2, <1>3, <1>4, <1>6, <1>9, IdleIsARecord DEF G!InUseIsThere
<1>10. ASSUME G!Quiet'
       PROVE  G!DirectoryKnown' /\ G!ServerKnows'
  <2>1. G!DirectoryKnown /\ G!ServerKnows /\ (server # G!Idle => row.status = IF server.step = "created" THEN "none" ELSE "pruned")
    BY <1>4, <1>7, <1>10
  <2>2. G!DirectoryKnown'
    BY <1>1, <1>2, <1>3, <2>1, IdleIsARecord DEF G!DirectoryKnown, G!InDirectory, G!Whole, G!Saved, G!Kept, G!Holds, G!Base, G!NoTree, G!ServerKnows, G!TypeOK, G!Contents, G!Rows
  <2>3. G!ServerKnows'
    BY <1>1, <1>2, <1>3, <2>1, IdleIsARecord DEF G!DirectoryKnown, G!InDirectory, G!Whole, G!Saved, G!Kept, G!Holds, G!Base, G!NoTree, G!ServerKnows, G!TypeOK, G!Contents, G!Rows, G!Kinds
  <2>. QED
    BY <2>2, <2>3
<1>. QED
  BY <1>1, <1>3, <1>5, <1>8, <1>9, <1>10, ServerActs

LEMMA AddWorktreeKeeps ==
  ASSUME G!PruneInv, G!AddWorktree
  PROVE  G!PruneInv'
<1>1. G!TypeOK /\ G!OnePruner /\ G!InUseIsThere /\ G!ContentIsKnown
  BY DEF G!PruneInv
<1>2. server.step = "restore"
  BY DEF G!AddWorktree
<1>3. /\ G!TypeOK' /\ UNCHANGED prune /\ mishaps \subseteq mishaps' /\ UNCHANGED <<ref, latest>>
      /\ UNCHANGED row
      /\ \/ UNCHANGED tree /\ server' = G!Idle /\ server'.step = "idle"
         \/ /\ tree'.there /\ tree'.git /\ ~tree'.untracked /\ tree'.head = (IF server.kind = "none" THEN 0 ELSE ref.head)
            /\ tree'.tracked = tree'.head /\ server'.kind = server.kind
            /\ server'.step = IF server.kind = "stash" THEN "apply" ELSE "restored"
  <2>1. CASE server' = G!Idle /\ UNCHANGED tree
    BY <1>1, <2>1, IdleIsARecord DEF G!AddWorktree, G!TypeOK
  <2>2. CASE /\ ~tree.there /\ tree' = G!Added(server.kind)
             /\ server' = [server EXCEPT !.step = IF server.kind = "stash" THEN "apply" ELSE "restored"]
    <3>1. server \in G!Records /\ server.kind \in G!Kinds /\ ref \in G!Records
      BY <1>1 DEF G!TypeOK, G!Records
    <3>2. /\ tree' = G!Added(server.kind)
          /\ server' = [server EXCEPT !.step = IF server.kind = "stash" THEN "apply" ELSE "restored"]
      BY <2>2
    <3>3. (IF server.kind = "stash" THEN "apply" ELSE "restored") \in G!Steps
      BY DEF G!Steps
    <3>4. /\ server' \in G!Records /\ server'.kind = server.kind
          /\ server'.step = IF server.kind = "stash" THEN "apply" ELSE "restored"
      BY <3>1, <3>2, <3>3, ServerGoes
    <3>5. /\ tree' \in G!Contents /\ tree'.there /\ tree'.git /\ ~tree'.untracked
          /\ tree'.head = (IF server.kind = "none" THEN 0 ELSE ref.head) /\ tree'.tracked = tree'.head
      BY <3>1, <3>2, AddedIsThere
    <3>. QED
      BY <1>1, <3>4, <3>5 DEF G!AddWorktree, G!TypeOK
  <2>. QED
    BY <2>1, <2>2 DEF G!AddWorktree
<1>4. ASSUME G!Apart PROVE server # G!Idle => row.status = IF server.step = "created" THEN "none" ELSE "pruned"
  BY <1>1, <1>4 DEF G!OnePruner
<1>5. G!Apart => row.status # "active"
  BY <1>2, <1>4, IdleIsARecord
<1>6. G!Uncut' => G!Apart /\ G!InUseIsThere /\ G!Uncut
  BY <1>1, <1>3, MishapsStay
<1>7. G!Quiet' => G!Apart /\ G!DirectoryKnown /\ G!ServerKnows
  BY <1>1, <1>3, MishapsStay DEF G!ContentIsKnown
<1>8. ASSUME G!Apart' PROVE server' # G!Idle => row'.status = IF server'.step = "created" THEN "none" ELSE "pruned"
  <2>1. G!Apart
    BY <1>3, <1>8, MishapsStay
  <2>. QED
    BY <1>2, <1>3, <1>4, <2>1, IdleIsARecord
<1>9. ASSUME G!Uncut'
      PROVE  /\ row'.status # "gone" /\ (row'.status = "active" => tree'.there)
             /\ server'.step \in {"created", "apply", "restored"} => tree'.there
  BY <1>2, <1>3, <1>4, <1>6, <1>9, IdleIsARecord DEF G!InUseIsThere
<1>10. ASSUME G!Quiet'
       PROVE  G!DirectoryKnown' /\ G!ServerKnows'
  <2>1. G!DirectoryKnown /\ G!ServerKnows /\ (server # G!Idle => row.status = IF server.step = "created" THEN "none" ELSE "pruned")
    BY <1>4, <1>7, <1>10
  <2>2. G!DirectoryKnown'
    BY <1>1, <1>2, <1>3, <2>1, IdleIsARecord DEF G!DirectoryKnown, G!InDirectory, G!Whole, G!Saved, G!Kept, G!Holds, G!Base, G!NoTree, G!ServerKnows, G!TypeOK, G!Contents, G!Rows
  <2>3. G!ServerKnows'
    BY <1>1, <1>2, <1>3, <2>1, IdleIsARecord DEF G!DirectoryKnown, G!InDirectory, G!Whole, G!Saved, G!Kept, G!Holds, G!Base, G!NoTree, G!ServerKnows, G!TypeOK, G!Contents, G!Rows, G!Kinds
  <2>. QED
    BY <2>2, <2>3
<1>. QED
  BY <1>1, <1>3, <1>5, <1>8, <1>9, <1>10, ServerActs

LEMMA ApplyStashKeeps ==
  ASSUME G!PruneInv, G!ApplyStash
  PROVE  G!PruneInv'
<1>1. G!TypeOK /\ G!OnePruner /\ G!InUseIsThere /\ G!ContentIsKnown
  BY DEF G!PruneInv
<1>2. server.step = "apply"
  BY DEF G!ApplyStash
<1>3. /\ G!TypeOK' /\ UNCHANGED prune /\ mishaps \subseteq mishaps' /\ UNCHANGED <<ref, latest>>
      /\ UNCHANGED row
      /\ \/ /\ server' = G!Idle /\ server'.step = "idle"
            /\ tree' = tree \/ (~tree'.there /\ ~tree'.git) \/ (tree'.there /\ tree.there)
         \/ /\ tree.there /\ tree'.there /\ tree'.git /\ tree'.untracked = tree.untracked /\ tree'.head = tree.head
            /\ tree'.tracked = ref.tracked /\ server'.kind = server.kind /\ server'.step = "restored"
  <2>1. CASE G!CleansUp /\ server' = G!Idle
    <3>1. /\ tree' \in G!Contents /\ written' \in Nat
          /\ tree' = tree \/ (~tree'.there /\ ~tree'.git) \/ (tree'.there /\ tree.there)
      BY <1>1, <2>1, CleansUpTypes
    <3>. QED
      BY <1>1, <2>1, <3>1, IdleIsARecord DEF G!ApplyStash, G!TypeOK
  <2>2. CASE /\ tree.there /\ tree.git /\ tree' = [tree EXCEPT !.tracked = ref.tracked]
             /\ server' = [server EXCEPT !.step = "restored"] /\ UNCHANGED written
    <3>1. /\ server' \in G!Records /\ server'.kind = server.kind /\ server'.step = "restored"
      BY <1>1, <2>2, ServerGoes DEF G!Steps, G!TypeOK
    <3>2. /\ tree' \in G!Contents /\ tree'.there /\ tree'.git /\ tree'.untracked = tree.untracked
          /\ tree'.head = tree.head /\ tree'.tracked = ref.tracked
      BY <1>1, <2>2 DEF G!TypeOK, G!Contents, G!Records
    <3>. QED
      BY <1>1, <2>2, <3>1, <3>2 DEF G!ApplyStash, G!TypeOK
  <2>. QED
    BY <2>1, <2>2 DEF G!ApplyStash
<1>4. ASSUME G!Apart PROVE server # G!Idle => row.status = IF server.step = "created" THEN "none" ELSE "pruned"
  BY <1>1, <1>4 DEF G!OnePruner
<1>5. G!Apart => row.status # "active"
  BY <1>2, <1>4, IdleIsARecord
<1>6. G!Uncut' => G!Apart /\ G!InUseIsThere /\ G!Uncut
  BY <1>1, <1>3, MishapsStay
<1>7. G!Quiet' => G!Apart /\ G!DirectoryKnown /\ G!ServerKnows
  BY <1>1, <1>3, MishapsStay DEF G!ContentIsKnown
<1>8. ASSUME G!Apart' PROVE server' # G!Idle => row'.status = IF server'.step = "created" THEN "none" ELSE "pruned"
  <2>1. G!Apart
    BY <1>3, <1>8, MishapsStay
  <2>. QED
    BY <1>2, <1>3, <1>4, <2>1, IdleIsARecord
<1>9. ASSUME G!Uncut'
      PROVE  /\ row'.status # "gone" /\ (row'.status = "active" => tree'.there)
             /\ server'.step \in {"created", "apply", "restored"} => tree'.there
  BY <1>2, <1>3, <1>4, <1>6, <1>9, IdleIsARecord DEF G!InUseIsThere
<1>10. ASSUME G!Quiet'
       PROVE  G!DirectoryKnown' /\ G!ServerKnows'
  <2>1. G!DirectoryKnown /\ G!ServerKnows /\ (server # G!Idle => row.status = IF server.step = "created" THEN "none" ELSE "pruned")
    BY <1>4, <1>7, <1>10
  <2>2. G!DirectoryKnown'
    BY <1>1, <1>2, <1>3, <2>1, IdleIsARecord DEF G!DirectoryKnown, G!InDirectory, G!Whole, G!Saved, G!Kept, G!Holds, G!Base, G!NoTree, G!ServerKnows, G!TypeOK, G!Contents, G!Rows
  <2>3. G!ServerKnows'
    BY <1>1, <1>2, <1>3, <2>1, IdleIsARecord DEF G!DirectoryKnown, G!InDirectory, G!Whole, G!Saved, G!Kept, G!Holds, G!Base, G!NoTree, G!ServerKnows, G!TypeOK, G!Contents, G!Rows, G!Kinds
  <2>. QED
    BY <2>2, <2>3
<1>. QED
  BY <1>1, <1>3, <1>5, <1>8, <1>9, <1>10, ServerActs

LEMMA ReactivateKeeps ==
  ASSUME G!PruneInv, G!Reactivate
  PROVE  G!PruneInv'
<1>1. G!TypeOK /\ G!OnePruner /\ G!InUseIsThere /\ G!ContentIsKnown
  BY DEF G!PruneInv
<1>2. server.step = "restored"
  BY DEF G!Reactivate
<1>3. /\ G!TypeOK' /\ UNCHANGED prune /\ mishaps \subseteq mishaps' /\ UNCHANGED <<ref, latest>>
      /\ UNCHANGED tree
      /\ \/ row.status = "pruned" /\ row'.status = "active" /\ server' = G!Idle /\ server'.step = "idle"
         \/ row.status # "pruned" /\ UNCHANGED row /\ server'.step = "discard"
  <2>1. CASE row.status = "pruned"
    <3>1. row' \in G!Rows /\ row'.status = "active"
      <4>1. row' = [status |-> "active", kind |-> "none", stale |-> FALSE]
        BY <2>1 DEF G!Reactivate
      <4>. QED
        BY <4>1 DEF G!Rows, G!Kinds
    <3>. QED
      BY <1>1, <2>1, <3>1, IdleIsARecord DEF G!Reactivate, G!TypeOK
  <2>2. CASE row.status # "pruned"
    <3>1. server' \in G!Records /\ server'.step = "discard"
      BY <1>1, <2>2, ServerGoes DEF G!Steps, G!TypeOK, G!Reactivate
    <3>. QED
      BY <1>1, <2>2, <3>1 DEF G!Reactivate, G!TypeOK
  <2>. QED
    BY <2>1, <2>2
<1>4. ASSUME G!Apart PROVE server # G!Idle => row.status = IF server.step = "created" THEN "none" ELSE "pruned"
  BY <1>1, <1>4 DEF G!OnePruner
<1>5. G!Apart => row.status # "active"
  BY <1>2, <1>4, IdleIsARecord
<1>6. G!Uncut' => G!Apart /\ G!InUseIsThere /\ G!Uncut
  BY <1>1, <1>3, MishapsStay
<1>7. G!Quiet' => G!Apart /\ G!DirectoryKnown /\ G!ServerKnows
  BY <1>1, <1>3, MishapsStay DEF G!ContentIsKnown
<1>8. ASSUME G!Apart' PROVE server' # G!Idle => row'.status = IF server'.step = "created" THEN "none" ELSE "pruned"
  <2>1. G!Apart
    BY <1>3, <1>8, MishapsStay
  <2>. QED
    BY <1>2, <1>3, <1>4, <2>1, IdleIsARecord
<1>9. ASSUME G!Uncut'
      PROVE  /\ row'.status # "gone" /\ (row'.status = "active" => tree'.there)
             /\ server'.step \in {"created", "apply", "restored"} => tree'.there
  BY <1>2, <1>3, <1>4, <1>6, <1>9, IdleIsARecord DEF G!InUseIsThere
<1>10. ASSUME G!Quiet'
       PROVE  G!DirectoryKnown' /\ G!ServerKnows'
  <2>1. G!DirectoryKnown /\ G!ServerKnows /\ (server # G!Idle => row.status = IF server.step = "created" THEN "none" ELSE "pruned")
    BY <1>4, <1>7, <1>10
  <2>2. G!DirectoryKnown'
    BY <1>1, <1>2, <1>3, <2>1, IdleIsARecord DEF G!DirectoryKnown, G!InDirectory, G!Whole, G!Saved, G!Kept, G!Holds, G!Base, G!NoTree, G!ServerKnows, G!TypeOK, G!Contents, G!Rows
  <2>3. G!ServerKnows'
    BY <1>1, <1>2, <1>3, <2>1, IdleIsARecord DEF G!DirectoryKnown, G!InDirectory, G!Whole, G!Saved, G!Kept, G!Holds, G!Base, G!NoTree, G!ServerKnows, G!TypeOK, G!Contents, G!Rows, G!Kinds
  <2>. QED
    BY <2>2, <2>3
<1>. QED
  BY <1>1, <1>3, <1>5, <1>8, <1>9, <1>10, ServerActs

LEMMA ReactivateFailsKeeps ==
  ASSUME G!PruneInv, G!ReactivateFails
  PROVE  G!PruneInv'
<1>1. G!TypeOK /\ G!OnePruner /\ G!InUseIsThere /\ G!ContentIsKnown
  BY DEF G!PruneInv
<1>2. server.step = "restored"
  BY DEF G!ReactivateFails
<1>3. /\ G!TypeOK' /\ UNCHANGED prune /\ mishaps \subseteq mishaps' /\ UNCHANGED <<ref, latest>>
      /\ UNCHANGED <<row, tree>> /\ server'.step = "discard"
  <2>1. server' \in G!Records /\ server'.step = "discard"
    BY <1>1, ServerGoes DEF G!Steps, G!TypeOK, G!ReactivateFails
  <2>. QED
    BY <1>1, <2>1 DEF G!ReactivateFails, G!TypeOK
<1>4. ASSUME G!Apart PROVE server # G!Idle => row.status = IF server.step = "created" THEN "none" ELSE "pruned"
  BY <1>1, <1>4 DEF G!OnePruner
<1>5. G!Apart => row.status # "active"
  BY <1>2, <1>4, IdleIsARecord
<1>6. G!Uncut' => G!Apart /\ G!InUseIsThere /\ G!Uncut
  BY <1>1, <1>3, MishapsStay
<1>7. G!Quiet' => G!Apart /\ G!DirectoryKnown /\ G!ServerKnows
  BY <1>1, <1>3, MishapsStay DEF G!ContentIsKnown
<1>8. ASSUME G!Apart' PROVE server' # G!Idle => row'.status = IF server'.step = "created" THEN "none" ELSE "pruned"
  <2>1. G!Apart
    BY <1>3, <1>8, MishapsStay
  <2>. QED
    BY <1>2, <1>3, <1>4, <2>1, IdleIsARecord
<1>9. ASSUME G!Uncut'
      PROVE  /\ row'.status # "gone" /\ (row'.status = "active" => tree'.there)
             /\ server'.step \in {"created", "apply", "restored"} => tree'.there
  BY <1>2, <1>3, <1>4, <1>6, <1>9, IdleIsARecord DEF G!InUseIsThere
<1>10. ASSUME G!Quiet'
       PROVE  G!DirectoryKnown' /\ G!ServerKnows'
  <2>1. G!DirectoryKnown /\ G!ServerKnows /\ (server # G!Idle => row.status = IF server.step = "created" THEN "none" ELSE "pruned")
    BY <1>4, <1>7, <1>10
  <2>2. G!DirectoryKnown'
    BY <1>1, <1>2, <1>3, <2>1, IdleIsARecord DEF G!DirectoryKnown, G!InDirectory, G!Whole, G!Saved, G!Kept, G!Holds, G!Base, G!NoTree, G!ServerKnows, G!TypeOK, G!Contents, G!Rows
  <2>3. G!ServerKnows'
    BY <1>1, <1>2, <1>3, <2>1, IdleIsARecord DEF G!DirectoryKnown, G!InDirectory, G!Whole, G!Saved, G!Kept, G!Holds, G!Base, G!NoTree, G!ServerKnows, G!TypeOK, G!Contents, G!Rows, G!Kinds
  <2>. QED
    BY <2>2, <2>3
<1>. QED
  BY <1>1, <1>3, <1>5, <1>8, <1>9, <1>10, ServerActs

LEMMA DiscardKeeps ==
  ASSUME G!PruneInv, G!Discard
  PROVE  G!PruneInv'
<1>1. G!TypeOK /\ G!OnePruner /\ G!InUseIsThere /\ G!ContentIsKnown
  BY DEF G!PruneInv
<1>2. server.step = "discard"
  BY DEF G!Discard
<1>3. /\ G!TypeOK' /\ UNCHANGED prune /\ mishaps \subseteq mishaps' /\ UNCHANGED <<ref, latest>>
      /\ UNCHANGED row /\ server' = G!Idle /\ server'.step = "idle"
      /\ tree' = tree \/ (~tree'.there /\ ~tree'.git) \/ (tree'.there /\ tree.there)
  <2>1. /\ tree' \in G!Contents /\ written' \in Nat
        /\ tree' = tree \/ (~tree'.there /\ ~tree'.git) \/ (tree'.there /\ tree.there)
    BY <1>1, CleansUpTypes DEF G!Discard
  <2>. QED
    BY <1>1, <2>1, IdleIsARecord DEF G!Discard, G!TypeOK
<1>4. ASSUME G!Apart PROVE server # G!Idle => row.status = IF server.step = "created" THEN "none" ELSE "pruned"
  BY <1>1, <1>4 DEF G!OnePruner
<1>5. G!Apart => row.status # "active"
  BY <1>2, <1>4, IdleIsARecord
<1>6. G!Uncut' => G!Apart /\ G!InUseIsThere /\ G!Uncut
  BY <1>1, <1>3, MishapsStay
<1>7. G!Quiet' => G!Apart /\ G!DirectoryKnown /\ G!ServerKnows
  BY <1>1, <1>3, MishapsStay DEF G!ContentIsKnown
<1>8. ASSUME G!Apart' PROVE server' # G!Idle => row'.status = IF server'.step = "created" THEN "none" ELSE "pruned"
  <2>1. G!Apart
    BY <1>3, <1>8, MishapsStay
  <2>. QED
    BY <1>2, <1>3, <1>4, <2>1, IdleIsARecord
<1>9. ASSUME G!Uncut'
      PROVE  /\ row'.status # "gone" /\ (row'.status = "active" => tree'.there)
             /\ server'.step \in {"created", "apply", "restored"} => tree'.there
  BY <1>2, <1>3, <1>4, <1>6, <1>9, IdleIsARecord DEF G!InUseIsThere
<1>10. ASSUME G!Quiet'
       PROVE  G!DirectoryKnown' /\ G!ServerKnows'
  <2>1. G!DirectoryKnown /\ G!ServerKnows /\ (server # G!Idle => row.status = IF server.step = "created" THEN "none" ELSE "pruned")
    BY <1>4, <1>7, <1>10
  <2>2. G!DirectoryKnown'
    BY <1>1, <1>2, <1>3, <2>1, IdleIsARecord DEF G!DirectoryKnown, G!InDirectory, G!Whole, G!Saved, G!Kept, G!Holds, G!Base, G!NoTree, G!ServerKnows, G!TypeOK, G!Contents, G!Rows
  <2>3. G!ServerKnows'
    BY <1>1, <1>2, <1>3, <2>1, IdleIsARecord DEF G!DirectoryKnown, G!InDirectory, G!Whole, G!Saved, G!Kept, G!Holds, G!Base, G!NoTree, G!ServerKnows, G!TypeOK, G!Contents, G!Rows, G!Kinds
  <2>. QED
    BY <2>2, <2>3
<1>. QED
  BY <1>1, <1>3, <1>5, <1>8, <1>9, <1>10, ServerActs

LEMMA CrashServerKeeps ==
  ASSUME G!PruneInv, G!CrashServer
  PROVE  G!PruneInv'
<1>1. G!TypeOK /\ G!OnePruner /\ G!InUseIsThere /\ G!ContentIsKnown
  BY DEF G!PruneInv
<1>2. server # G!Idle
  BY DEF G!CrashServer
<1>3. /\ G!TypeOK' /\ UNCHANGED prune /\ mishaps \subseteq mishaps' /\ UNCHANGED <<ref, latest>>
      /\ UNCHANGED <<row, tree>> /\ server' = G!Idle /\ server'.step = "idle"
  <2>. QED
    BY <1>1, IdleIsARecord DEF G!CrashServer, G!TypeOK
<1>4. ASSUME G!Apart PROVE server # G!Idle => row.status = IF server.step = "created" THEN "none" ELSE "pruned"
  BY <1>1, <1>4 DEF G!OnePruner
<1>5. G!Apart => row.status # "active"
  BY <1>2, <1>4, IdleIsARecord
<1>6. G!Uncut' => G!Apart /\ G!InUseIsThere /\ G!Uncut
  BY <1>1, <1>3, MishapsStay
<1>7. G!Quiet' => G!Apart /\ G!DirectoryKnown /\ G!ServerKnows
  BY <1>1, <1>3, MishapsStay DEF G!ContentIsKnown
<1>8. ASSUME G!Apart' PROVE server' # G!Idle => row'.status = IF server'.step = "created" THEN "none" ELSE "pruned"
  <2>1. G!Apart
    BY <1>3, <1>8, MishapsStay
  <2>. QED
    BY <1>2, <1>3, <1>4, <2>1, IdleIsARecord
<1>9. ASSUME G!Uncut'
      PROVE  /\ row'.status # "gone" /\ (row'.status = "active" => tree'.there)
             /\ server'.step \in {"created", "apply", "restored"} => tree'.there
  BY <1>2, <1>3, <1>4, <1>6, <1>9, IdleIsARecord DEF G!InUseIsThere
<1>10. ASSUME G!Quiet'
       PROVE  G!DirectoryKnown' /\ G!ServerKnows'
  <2>1. G!DirectoryKnown /\ G!ServerKnows /\ (server # G!Idle => row.status = IF server.step = "created" THEN "none" ELSE "pruned")
    BY <1>4, <1>7, <1>10
  <2>2. G!DirectoryKnown'
    BY <1>1, <1>2, <1>3, <2>1, IdleIsARecord DEF G!DirectoryKnown, G!InDirectory, G!Whole, G!Saved, G!Kept, G!Holds, G!Base, G!NoTree, G!ServerKnows, G!TypeOK, G!Contents, G!Rows
  <2>3. G!ServerKnows'
    BY <1>1, <1>2, <1>3, <2>1, IdleIsARecord DEF G!DirectoryKnown, G!InDirectory, G!Whole, G!Saved, G!Kept, G!Holds, G!Base, G!NoTree, G!ServerKnows, G!TypeOK, G!Contents, G!Rows, G!Kinds
  <2>. QED
    BY <2>2, <2>3
<1>. QED
  BY <1>1, <1>3, <1>5, <1>8, <1>9, <1>10, ServerActs

\* The row is used or grows stale.
LEMMA StaleOrNot ==
  ASSUME G!PruneInv, G!TypeOK', row'.status = row.status, row'.kind = row.kind,
         UNCHANGED <<tree, ref, prune, server, latest, mishaps>>
  PROVE  G!PruneInv'
<1>1. G!OnePruner'
  BY DEF G!PruneInv, G!OnePruner, G!Apart
<1>2. G!InUseIsThere'
  BY DEF G!PruneInv, G!InUseIsThere, G!Uncut
<1>3. G!DirectoryKnown => G!DirectoryKnown'
  BY DEF G!DirectoryKnown, G!InDirectory, G!Whole, G!Saved, G!Kept, G!Holds
<1>4. G!ServerKnows => G!ServerKnows'
  BY DEF G!ServerKnows, G!InDirectory, G!Holds
<1>5. ASSUME NEW p \in Pruners, G!PrunerKnows(p) PROVE G!PrunerKnows(p)'
  BY <1>5 DEF G!PrunerKnows, G!Kept, G!Holds
<1>. QED
  BY <1>1, <1>2, <1>3, <1>4, <1>5 DEF G!PruneInv, G!ContentIsKnown, G!Quiet

LEMMA TouchKeeps ==
  ASSUME G!PruneInv, G!Touch
  PROVE  G!PruneInv'
<1>1. G!TypeOK
  BY DEF G!PruneInv
<1>2. row' \in G!Rows /\ row'.status = row.status /\ row'.kind = row.kind
  BY <1>1 DEF G!Touch, G!TypeOK, G!Rows
<1>3. G!TypeOK'
  BY <1>1, <1>2 DEF G!Touch, G!TypeOK
<1>. QED
  BY <1>2, <1>3, StaleOrNot DEF G!Touch

LEMMA ThreeDaysPassKeeps ==
  ASSUME G!PruneInv, G!ThreeDaysPass
  PROVE  G!PruneInv'
<1>1. G!TypeOK
  BY DEF G!PruneInv
<1>2. row' \in G!Rows /\ row'.status = row.status /\ row'.kind = row.kind
  BY <1>1 DEF G!ThreeDaysPass, G!TypeOK, G!Rows
<1>3. G!TypeOK'
  BY <1>1, <1>2 DEF G!ThreeDaysPass, G!TypeOK
<1>. QED
  BY <1>2, <1>3, StaleOrNot DEF G!ThreeDaysPass

\* Whoever removes the directory leaves no promise about it.
LEMMA RemoveByHandKeeps ==
  ASSUME G!PruneInv, G!RemoveByHand
  PROVE  G!PruneInv'
<1>1. G!Mishap("removed by hand") /\ tree' = G!NoTree /\ UNCHANGED <<row, ref, prune, server, latest, written>>
  BY DEF G!RemoveByHand
<1>2. mishaps \subseteq mishaps' /\ ~G!Uncut' /\ ~G!Quiet'
  BY <1>1 DEF G!Mishap, G!Uncut, G!Quiet
<1>3. G!TypeOK'
  BY <1>1 DEF G!PruneInv, G!TypeOK, G!NoTree, G!Contents
<1>4. G!OnePruner'
  BY <1>1, <1>2, MishapsStay DEF G!PruneInv, G!OnePruner
<1>. QED
  BY <1>2, <1>3, <1>4 DEF G!PruneInv, G!InUseIsThere, G!ContentIsKnown

\* Whoever writes moves what the directory holds and what it held last together.
LEMMA WorksKeeps ==
  ASSUME G!PruneInv, NEW t \in G!Contents, G!Works(t), t.there, t.git = tree.git, written' \in Nat
  PROVE  G!PruneInv'
<1>1. /\ row.status = "active" /\ tree.there /\ tree' = t /\ latest' = t
      /\ UNCHANGED <<row, ref, prune, server>>
  BY DEF G!Works
<1>2. /\ mishaps \subseteq mishaps'
      /\ (\E p \in Pruners : prune[p].step \in G!Deciding) => ~G!Quiet'
  <2>1. CASE \E p \in Pruners : prune[p].step \in G!Deciding
    <3>1. G!Mishap("written while pruned")
      BY <2>1 DEF G!Works
    <3>. QED
      BY <3>1 DEF G!Mishap, G!Quiet
  <2>2. CASE ~ \E p \in Pruners : prune[p].step \in G!Deciding
    BY <2>2 DEF G!Works
  <2>. QED
    BY <2>1, <2>2
<1>3. G!TypeOK'
  BY <1>1 DEF G!PruneInv, G!TypeOK
<1>4. G!OnePruner'
  BY <1>1, <1>2, MishapsStay DEF G!PruneInv, G!OnePruner
<1>5. G!InUseIsThere'
  BY <1>1, <1>2, MishapsStay DEF G!PruneInv, G!InUseIsThere
<1>6. ASSUME G!Quiet' PROVE G!DirectoryKnown' /\ G!ServerKnows' /\ \A p \in Pruners : G!PrunerKnows(p)'
  <2>1. G!Apart /\ G!ContentIsKnown /\ G!Quiet
    BY <1>2, <1>6, MishapsStay DEF G!PruneInv
  <2>2. server'.step = "idle"
    BY <1>1, <2>1, IdleIsARecord DEF G!PruneInv, G!OnePruner
  <2>3. G!DirectoryKnown'
    <3>1. mishaps \subseteq mishaps' /\ G!DirectoryKnown
      BY <1>2, <2>1 DEF G!ContentIsKnown
    <3>2. G!Whole' => tree.there = tree.git
      BY <1>1, <3>1 DEF G!DirectoryKnown, G!Whole
    <3>. QED
      BY <1>1, <3>2 DEF G!DirectoryKnown, G!InDirectory, G!Holds
  <2>4. G!ServerKnows'
    BY <2>2 DEF G!ServerKnows
  <2>5. ASSUME NEW p \in Pruners PROVE G!PrunerKnows(p)'
    <3>1. prune'[p].step \notin {"looked", "snapped", "saved", "restore", "apply"} /\ prune' = prune
      BY <1>1, <1>2, <1>6 DEF G!Deciding
    <3>2. prune[p].step \notin {"missing", "removed"}
      BY <1>1, <2>1 DEF G!ContentIsKnown, G!PrunerKnows
    <3>. QED
      BY <3>1, <3>2 DEF G!PrunerKnows
  <2>. QED
    BY <2>3, <2>4, <2>5
<1>. QED
  BY <1>3, <1>4, <1>5, <1>6 DEF G!PruneInv, G!ContentIsKnown

LEMMA WorkKeeps ==
  ASSUME G!PruneInv, G!Work
  PROVE  G!PruneInv'
<1>1. tree \in G!Contents /\ written \in Nat /\ tree.tracked \in Nat
  BY DEF G!PruneInv, G!TypeOK, G!Contents
<1>2. CASE written' = written + 1 /\ G!Works([tree EXCEPT !.tracked = written + 1])
  <2>1. tree.there
    BY <1>2 DEF G!Works
  <2>2. /\ [tree EXCEPT !.tracked = written + 1] \in G!Contents
        /\ [tree EXCEPT !.tracked = written + 1].there /\ [tree EXCEPT !.tracked = written + 1].git = tree.git
    BY <1>1, <2>1 DEF G!Contents
  <2>3. written' \in Nat
    BY <1>1, <1>2
  <2>. QED
    BY <1>2, <2>2, <2>3, WorksKeeps
<1>3. CASE G!Works([tree EXCEPT !.head = tree.tracked]) /\ UNCHANGED written
  <2>1. tree.there
    BY <1>3 DEF G!Works
  <2>2. /\ [tree EXCEPT !.head = tree.tracked] \in G!Contents
        /\ [tree EXCEPT !.head = tree.tracked].there /\ [tree EXCEPT !.head = tree.tracked].git = tree.git
    BY <1>1, <2>1 DEF G!Contents
  <2>. QED
    BY <1>1, <1>3, <2>2, WorksKeeps
<1>4. CASE G!Works([tree EXCEPT !.untracked = ~tree.untracked]) /\ UNCHANGED written
  <2>1. tree.there
    BY <1>4 DEF G!Works
  <2>2. /\ [tree EXCEPT !.untracked = ~tree.untracked] \in G!Contents
        /\ [tree EXCEPT !.untracked = ~tree.untracked].there /\ [tree EXCEPT !.untracked = ~tree.untracked].git = tree.git
    BY <1>1, <2>1 DEF G!Contents
  <2>. QED
    BY <1>1, <1>4, <2>2, WorksKeeps
<1>. QED
  BY <1>2, <1>3, <1>4 DEF G!Work

\* A pruner that begins while none is at work finds the worktree as it is known.
LEMMA ListKeeps ==
  ASSUME G!PruneInv, NEW p \in Pruners, G!List(p)
  PROVE  G!PruneInv'
<1>1. prune[p] = G!Idle /\ row.status = "active" /\ UNCHANGED <<row, tree, ref, server, latest, written>>
  BY DEF G!List
<1>2. /\ prune' \in [Pruners -> G!Records] /\ prune'[p].step = "listed"
      /\ \A q \in Pruners : q # p => prune'[q] = prune[q]
  <2>1. G!Goes(p, "listed") /\ "listed" \in G!Steps
    BY DEF G!List, G!Steps
  <2>. QED
    BY <2>1, PrunerGoes DEF G!PruneInv, G!TypeOK
<1>3. mishaps \subseteq mishaps' /\ (G!Apart' => \A q \in Pruners : prune[q] = G!Idle)
  <2>1. CASE \E q \in Pruners : prune[q] # G!Idle
    <3>1. G!Mishap("overlap")
      BY <2>1 DEF G!List
    <3>. QED
      BY <3>1 DEF G!Mishap, G!Apart
  <2>2. CASE ~ \E q \in Pruners : prune[q] # G!Idle
    BY <2>2 DEF G!List
  <2>. QED
    BY <2>1, <2>2
<1>4. G!TypeOK'
  BY <1>1, <1>2 DEF G!PruneInv, G!TypeOK
<1>5. (G!Uncut' => G!Apart') /\ (G!Quiet' => G!Apart')
  BY DEF G!Uncut, G!Quiet, G!Whole, G!Apart
<1>6. ASSUME G!Apart'
      PROVE  /\ G!Apart /\ server = G!Idle /\ server'.step = "idle"
             /\ \A q \in Pruners : prune[q].step = "idle"
             /\ \A q \in Pruners : q # p => prune'[q] = G!Idle /\ prune'[q].step = "idle"
  BY <1>1, <1>2, <1>3, <1>6, MishapsStay, IdleIsARecord DEF G!PruneInv, G!OnePruner
<1>7. G!OnePruner'
  BY <1>1, <1>6 DEF G!OnePruner
<1>8. G!InUseIsThere'
  <2>. SUFFICES ASSUME G!Uncut' PROVE G!InUseIsThere'
    BY DEF G!InUseIsThere
  <2>1. G!Uncut
    BY <1>3, MishapsStay
  <2>2. tree.there
    BY <1>1, <1>5, <1>6, <2>1 DEF G!PruneInv, G!InUseIsThere
  <2>. QED
    BY <1>1, <1>2, <1>5, <1>6, <2>2 DEF G!InUseIsThere
<1>9. ASSUME G!Quiet' PROVE G!DirectoryKnown' /\ G!ServerKnows' /\ \A q \in Pruners : G!PrunerKnows(q)'
  <2>1. G!DirectoryKnown
    BY <1>3, <1>9, MishapsStay DEF G!PruneInv, G!ContentIsKnown
  <2>2. \A q \in Pruners : prune[q].step # "apply" /\ prune'[q].step \in {"idle", "listed"}
    BY <1>2, <1>5, <1>6, <1>9
  <2>3. G!DirectoryKnown'
    <3>1. G!Whole' => G!Whole
      BY <1>3, MishapsStay
    <3>. QED
      BY <1>1, <2>1, <2>2, <3>1 DEF G!DirectoryKnown, G!InDirectory, G!Saved, G!Kept, G!Holds
  <2>4. G!ServerKnows'
    BY <1>5, <1>6, <1>9 DEF G!ServerKnows
  <2>5. ASSUME NEW q \in Pruners PROVE G!PrunerKnows(q)'
    BY <2>2, <2>5 DEF G!PrunerKnows
  <2>. QED
    BY <2>3, <2>4, <2>5
<1>. QED
  BY <1>4, <1>7, <1>8, <1>9 DEF G!PruneInv, G!ContentIsKnown

LEMMA PruneStep ==
  ASSUME G!PruneInv, [G!Next]_(G!vars)
  PROVE  G!PruneInv'
<1>1. ASSUME NEW p \in Pruners,
             \/ G!List(p) \/ G!Look(p) \/ G!DeleteSession(p) \/ G!Snapshot(p) \/ G!UpdateRef(p)
             \/ G!Remove(p) \/ G!RemoveStops(p) \/ G!GitFails(p) \/ G!MarkPruned(p) \/ G!MarkFails(p)
             \/ G!RestoreRemoved(p) \/ G!ApplyRemoved(p) \/ G!RestoreFails(p) \/ G!CrashPruner(p)
      PROVE  G!PruneInv'
  BY <1>1, ListKeeps, LookKeeps, DeleteSessionKeeps, SnapshotKeeps, UpdateRefKeeps, RemoveKeeps, RemoveStopsKeeps,
     GitFailsKeeps, MarkPrunedKeeps, MarkFailsKeeps, RestoreRemovedKeeps, ApplyRemovedKeeps,
     RestoreFailsKeeps, CrashPrunerKeeps
<1>2. CASE UNCHANGED G!vars
  <2>1. row' = row /\ row'.status = row.status /\ row'.kind = row.kind /\ G!TypeOK'
    BY <1>2 DEF G!vars, G!PruneInv, G!TypeOK
  <2>. QED
    BY <1>2, <2>1, StaleOrNot DEF G!vars
<1>. QED
  BY <1>1, <1>2, CreateKeeps, CreateSessionKeeps, TouchKeeps, WorkKeeps, RemoveByHandKeeps,
     ThreeDaysPassKeeps, RestoreKeeps, AddWorktreeKeeps, ApplyStashKeeps, ReactivateKeeps,
     ReactivateFailsKeeps, DiscardKeeps, CrashServerKeeps DEF G!Next

\* THEOREM.  In every reachable state, whatever pruners, server and owners of a worktree
\* do and whatever fails, crashes or is removed by hand, the server and a pruner that does
\* not overlap another know where the content of the worktree is (git-worktrees.ts and
\* worktree-prune.ts).
THEOREM PruningIsKnown == G!Spec => []G!PruneInv
<1>1. G!Init => G!PruneInv
  <2>. SUFFICES ASSUME G!Init PROVE G!PruneInv
    OBVIOUS
  <2>1. /\ \A p \in Pruners : prune[p] = G!Idle
        /\ server = G!Idle /\ server.step = "idle" /\ row.status = "none" /\ row.kind = "none"
    BY IdleIsARecord DEF G!Init
  <2>2. G!TypeOK
    <3>1. G!Base \in G!Contents /\ G!NoTree \in G!Contents
      BY DEF G!Base, G!NoTree, G!Contents
    <3>2. row \in G!Rows
      BY DEF G!Init, G!Rows, G!Kinds
    <3>. QED
      BY <3>1, <3>2, IdleIsARecord DEF G!Init, G!TypeOK
  <2>3. G!OnePruner
    BY <2>1 DEF G!OnePruner
  <2>4. G!InUseIsThere
    BY <2>1, IdleIsARecord DEF G!InUseIsThere
  <2>5. G!DirectoryKnown
    BY <2>1 DEF G!Init, G!DirectoryKnown, G!InDirectory, G!Saved, G!Holds, G!Base, G!NoTree
  <2>6. G!ServerKnows
    BY <2>1 DEF G!ServerKnows
  <2>7. \A p \in Pruners : G!PrunerKnows(p)
    BY <2>1, IdleIsARecord DEF G!PrunerKnows
  <2>. QED
    BY <2>2, <2>3, <2>4, <2>5, <2>6, <2>7 DEF G!PruneInv, G!ContentIsKnown
<1>2. G!PruneInv /\ [G!Next]_(G!vars) => G!PruneInv'
  BY PruneStep
<1>. QED
  BY <1>1, <1>2, PTL DEF G!Spec

\* THEOREM.  What was committed or changed in a worktree is in its directory or behind its
\* recovery ref, and its session is forgotten only after a mishap: for any number of
\* pruners, versions written and mishaps.
THEOREM PruningLosesNothing == G!Spec => []G!PrunedIsKept
<1>1. G!PruneInv => G!PrunedIsKept
  <2>. SUFFICES ASSUME G!PruneInv PROVE G!PrunedIsKept
    OBVIOUS
  <2>1. row \in G!Rows
    BY DEF G!PruneInv, G!TypeOK
  <2>2. ASSUME G!Quiet
        PROVE  /\ G!InDirectory \/ G!Saved
               /\ G!Whole => (row.status = "active" /\ tree.there /\ (\A p \in Pruners : prune[p].step # "apply")
                                => G!Holds(tree, latest))
    <3>1. G!DirectoryKnown /\ \A p \in Pruners : G!PrunerKnows(p)
      BY <2>2 DEF G!PruneInv, G!ContentIsKnown
    <3>2. ASSUME NEW k, G!Kept(k) PROVE G!Saved
      BY <3>2 DEF G!Kept, G!Saved
    <3>3. ASSUME NEW p \in Pruners, prune[p].step = "apply" PROVE G!Saved
      BY <3>1, <3>2, <3>3 DEF G!PrunerKnows
    <3>4. row.status \in {"none", "active", "pruned", "gone"}
      BY <2>1 DEF G!Rows
    <3>5. G!InDirectory \/ G!Saved
      BY <3>1, <3>2, <3>3, <3>4 DEF G!DirectoryKnown
    <3>6. G!Whole => (row.status = "active" /\ tree.there /\ (\A p \in Pruners : prune[p].step # "apply")
                        => G!Holds(tree, latest))
      BY <3>1 DEF G!DirectoryKnown, G!InDirectory
    <3>. QED
      BY <3>5, <3>6
  <2>3. G!NothingIsLost
    BY <2>2 DEF G!NothingIsLost, G!Quiet, G!Whole
  <2>4. G!OnlyMishapsForget
    BY DEF G!OnlyMishapsForget, G!PruneInv, G!InUseIsThere, G!Uncut
  <2>. QED
    BY <2>3, <2>4 DEF G!PrunedIsKept
<1>. QED
  BY <1>1, PruningIsKnown, PTL

-------------------------------------------------------------------------------
(***************************************************************************)
(* Checkouts: the part that moves behaves as its own specification says.   *)
(***************************************************************************)
\* Opens of one conversation agree, in Checkouts as in Workspaces alone.
THEOREM CheckoutsOpenAlike == ASSUME Nameless PROVE CheckoutsSpec => []OpensAreStable
<1>1. CheckoutsInit /\ part = "opens" => W!Init
  BY DEF CheckoutsInit
<1>2. [CheckoutsNext]_checkoutsVars => ((part = "opens")' <=> part = "opens") /\ (part = "opens" => [W!Next]_(W!vars))
  <2>. SUFFICES ASSUME [CheckoutsNext]_checkoutsVars PROVE part' = part /\ (part = "opens" => [W!Next]_(W!vars))
    OBVIOUS
  <2>1. part' = part /\ ((part = "opens" /\ W!Next) \/ part # "opens" \/ UNCHANGED directory)
    BY DEF CheckoutsNext, checkoutsVars
  <2>2. UNCHANGED directory => UNCHANGED W!vars
    BY DEF directory, W!vars
  <2>. QED
    BY <2>1, <2>2
<1>. QED
  BY <1>1, <1>2, OpensAgree, PTL DEF CheckoutsSpec, OpensAreStable, W!Spec

\* What is in a managed worktree of Checkouts is there or can be restored.
THEOREM CheckoutsKeepWhatIsPruned == CheckoutsSpec => []PrunedIsKept
<1>1. CheckoutsInit /\ part = "worktree" => G!Init
  BY DEF CheckoutsInit
<1>2. [CheckoutsNext]_checkoutsVars => ((part = "worktree")' <=> part = "worktree") /\ (part = "worktree" => [G!Next]_(G!vars))
  <2>. SUFFICES ASSUME [CheckoutsNext]_checkoutsVars PROVE part' = part /\ (part = "worktree" => [G!Next]_(G!vars))
    OBVIOUS
  <2>1. part' = part /\ ((part = "worktree" /\ G!Next) \/ part # "worktree" \/ UNCHANGED worktree)
    BY DEF CheckoutsNext, checkoutsVars
  <2>2. UNCHANGED worktree => UNCHANGED G!vars
    BY DEF worktree, G!vars
  <2>. QED
    BY <2>1, <2>2
<1>. QED
  BY <1>1, <1>2, PruningLosesNothing, PTL DEF CheckoutsSpec, PrunedIsKept, G!Spec
===============================================================================
