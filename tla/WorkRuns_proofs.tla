---------------------------- MODULE WorkRuns_proofs ----------------------------
(***************************************************************************)
(* The truth of work runs for any number of runs, commands, tools, turns   *)
(* and agents, with any faults; of what the turns of a Codex thread are    *)
(* billed, for any number of turns and tokens; and of the reviews of a     *)
(* workspace, for any number of reviews, commits and edits.  The last two  *)
(* are proved by themselves, and then as the parts of Work that they are.  *)
(***************************************************************************)
EXTENDS Work, FiniteSetTheorems, TLAPS

\* The three kinds of steps beside those of the runs themselves.
CommandStep(c) == StartCommand(c) \/ PtyStarts(c) \/ PtyFails(c) \/ CommandExits(c)
ToolStep(c) == StartTool(c) \/ ToolReturns(c) \/ ToolAccounts(c)
CallStep(c) == (c \in Commands /\ CommandStep(c)) \/ (c \in Tools /\ ToolStep(c))
TurnStep(e) ==
    \/ BeginTurn(e) \/ AdmitTurn(e) \/ LeavesQueue(e) \/ Expire(e)
    \/ TurnWorks(e) \/ TurnGivesUp(e) \/ EndTurn(e) \/ ReleaseTurn(e)

\* A unit that acquires its checkout, or gives it back, leaves the tables well formed.
LEMMA AdmissionKeepsType ==
  ASSUME TypeOK, NEW u \in Units,
         \/ Acquire(u) \/ ReleaseClaim(u) \/ UNCHANGED admission
         \/ u \in Turns /\ claims' \subseteq claims /\ waiters' \subseteq waiters \union {u}
                      /\ UNCHANGED before
  PROVE  claims' \subseteq Units /\ waiters' \subseteq Turns /\ before' \in [Units -> SUBSET Turns]
<1>1. CASE Acquire(u)
  <2>1. {e \in Turns : execution[e] # "none"} \in SUBSET Turns
    OBVIOUS
  <2>. QED
    BY <1>1, <2>1 DEF Acquire, TypeOK
<1>2. CASE ~Acquire(u)
  BY <1>2 DEF ReleaseClaim, admission, TypeOK
<1>. QED
  BY <1>1, <1>2

LEMMA MovingKeepsType ==
  ASSUME TypeOK, NEW u \in Units,
         NEW place \in {"idle", "importing", "working", "returned", "begun", "waiting",
                       "claimed", "leaving", "ended", "refused", "done", "lost"},
         Goes(u, place)
  PROVE  at' \in [Units -> {"idle", "importing", "working", "returned", "begun", "waiting",
                           "claimed", "leaving", "ended", "refused", "done", "lost"}]
BY DEF TypeOK, Goes

LEMMA TypeIsInductive == TypeOK /\ [Next]_vars => TypeOK'
<1>. SUFFICES ASSUME TypeOK, [Next]_vars PROVE TypeOK'
  OBVIOUS
<1>. USE DEF TypeOK, ledger, admission, processes, Units, Calls
<1>1. ASSUME NEW r \in Runs, Begin(r) PROVE TypeOK'
  BY <1>1 DEF Begin
<1>2. ASSUME NEW r \in Runs, NEW p \in Reports, Finish(r, p) PROVE TypeOK'
  BY <1>2, UnitsAssumption DEF Finish, ReportType, Finished
<1>3. ASSUME NEW c \in Commands, CommandStep(c) PROVE TypeOK'
  <2>1. \/ Goes(c, "refused") \/ Goes(c, "importing") \/ Goes(c, "working") \/ Goes(c, "done")
    BY <1>3 DEF CommandStep, StartCommand, PtyStarts, PtyFails, CommandExits
  <2>2. Acquire(c) \/ ReleaseClaim(c) \/ UNCHANGED admission
    BY <1>3 DEF CommandStep, StartCommand, PtyStarts, PtyFails, CommandExits
  <2>3. op' \in [Calls -> {"none", "running", "ended"}] /\ faulted' \in BOOLEAN
    BY <1>3 DEF CommandStep, StartCommand, PtyStarts, PtyFails, CommandExits, OpensRow, EndOperation
  <2>4. c \in Units
    OBVIOUS
  <2>5. UNCHANGED <<run, receipt, execution, latest, alive>>
    BY <1>3 DEF CommandStep, StartCommand, PtyStarts, PtyFails, CommandExits
  <2>. HIDE DEF Units, Calls
  <2>6. claims' \subseteq Units /\ waiters' \subseteq Turns /\ before' \in [Units -> SUBSET Turns]
    BY <2>2, <2>4, AdmissionKeepsType
  <2>. QED
    BY <2>1, <2>3, <2>4, <2>5, <2>6, MovingKeepsType
<1>4. ASSUME NEW c \in Tools, ToolStep(c) PROVE TypeOK'
  <2>1. Goes(c, "refused") \/ Goes(c, "working") \/ Goes(c, "returned") \/ Goes(c, "done")
    BY <1>4 DEF ToolStep, StartTool, ToolReturns, ToolAccounts
  <2>2. Acquire(c) \/ ReleaseClaim(c) \/ UNCHANGED admission
    BY <1>4 DEF ToolStep, StartTool, ToolReturns, ToolAccounts
  <2>3. op' \in [Calls -> {"none", "running", "ended"}] /\ faulted' \in BOOLEAN
    BY <1>4 DEF ToolStep, StartTool, ToolReturns, ToolAccounts, OpensRow, EndOperation
  <2>4. c \in Units
    OBVIOUS
  <2>5. UNCHANGED <<run, receipt, execution, latest, alive>>
    BY <1>4 DEF ToolStep, StartTool, ToolReturns, ToolAccounts
  <2>. HIDE DEF Units, Calls
  <2>6. claims' \subseteq Units /\ waiters' \subseteq Turns /\ before' \in [Units -> SUBSET Turns]
    BY <2>2, <2>4, AdmissionKeepsType
  <2>. QED
    BY <2>1, <2>3, <2>4, <2>5, <2>6, MovingKeepsType
<1>5. ASSUME NEW e \in Turns, BeginTurn(e) PROVE TypeOK'
  BY <1>5, UnitsAssumption DEF BeginTurn, Goes
<1>6. ASSUME NEW e \in Turns,
             \/ AdmitTurn(e) \/ LeavesQueue(e) \/ Expire(e)
             \/ TurnWorks(e) \/ TurnGivesUp(e) \/ EndTurn(e) \/ ReleaseTurn(e)
      PROVE  TypeOK'
  <2>1. \/ Goes(e, "claimed") \/ Goes(e, "waiting") \/ Goes(e, "leaving") \/ Goes(e, "working")
        \/ Goes(e, "ended") \/ Goes(e, "done") \/ UNCHANGED at
    BY <1>6 DEF AdmitTurn, LeavesQueue, Expire, TurnWorks, TurnGivesUp, EndTurn, ReleaseTurn
  <2>2. \/ Acquire(e) \/ UNCHANGED admission
        \/ claims' \subseteq claims /\ waiters' \subseteq waiters \union {e} /\ UNCHANGED before
    BY <1>6 DEF AdmitTurn, LeavesQueue, Expire, TurnWorks, TurnGivesUp, EndTurn, ReleaseTurn
  <2>3. execution' \in [Turns -> {"none", "active", "ended", "reconcile"}]
    BY <1>6 DEF AdmitTurn, LeavesQueue, Expire, TurnWorks, TurnGivesUp, EndTurn, ReleaseTurn
  <2>4. e \in Units
    OBVIOUS
  <2>5. UNCHANGED <<run, receipt, op, latest, alive, faulted>>
    BY <1>6 DEF AdmitTurn, LeavesQueue, Expire, TurnWorks, TurnGivesUp, EndTurn, ReleaseTurn
  <2>. HIDE DEF Units, Calls
  <2>6. claims' \subseteq Units /\ waiters' \subseteq Turns /\ before' \in [Units -> SUBSET Turns]
    BY <2>2, <2>4, AdmissionKeepsType
  <2>. QED
    BY <2>1, <2>3, <2>4, <2>5, <2>6, MovingKeepsType
<1>7. ASSUME NEW p \in {"server", "daemon"}, Crash(p) PROVE TypeOK'
  BY <1>7 DEF Crash
<1>8. CASE ServerStarts
  BY <1>8 DEF ServerStarts
<1>9. CASE DaemonStarts
  BY <1>9 DEF DaemonStarts, Finished
<1>10. CASE UNCHANGED vars
  BY <1>10 DEF vars
<1>. QED
  BY <1>1, <1>2, <1>3, <1>4, <1>5, <1>6, <1>7, <1>8, <1>9, <1>10
     DEF Next, CommandStep, ToolStep

\* The rows, the claims and the tickets have the shape the code expects.
THEOREM TypeCorrect == Spec => []TypeOK
<1>1. ASSUME Init PROVE TypeOK
  <2>1. run \in [Runs -> Finished \union {"none", "running", "reconcile"}]
        /\ receipt \in [Runs -> Reports \union {None}]
    BY <1>1 DEF Init
  <2>2. /\ op \in [Calls -> {"none", "running", "ended"}]
        /\ execution \in [Turns -> {"none", "active", "ended", "reconcile"}]
        /\ latest \in [Agents -> Turns \union {None}]
    BY <1>1 DEF Init
  <2>3. claims \subseteq Units /\ waiters \subseteq Turns /\ before \in [Units -> SUBSET Turns]
    BY <1>1 DEF Init
  <2>4. at \in [Units -> {"idle", "importing", "working", "returned", "begun", "waiting", "claimed",
                         "leaving", "ended", "refused", "done", "lost"}]
    BY <1>1 DEF Init
  <2>5. alive \subseteq {"server", "daemon"} /\ faulted \in BOOLEAN
    BY <1>1 DEF Init
  <2>. QED
    BY <2>1, <2>2, <2>3, <2>4, <2>5 DEF TypeOK
<1>. QED
  BY <1>1, TypeIsInductive, PTL DEF Spec

(***************************************************************************)
(* What each kind of step leaves alone.                                    *)
(***************************************************************************)
LEMMA StepsByKind ==
  ASSUME [Next]_vars
  PROVE  \/ \E r \in Runs : Begin(r) \/ \E p \in Reports : Finish(r, p)
         \/ \E c \in Calls : CallStep(c)
         \/ \E e \in Turns : TurnStep(e)
         \/ \E p \in {"server", "daemon"} : Crash(p)
         \/ ServerStarts \/ DaemonStarts \/ UNCHANGED vars
<1>1. CASE \E r \in Runs : Begin(r) \/ \E p \in Reports : Finish(r, p)
  BY <1>1
<1>2. CASE \E c \in Commands : CommandStep(c)
  BY <1>2 DEF CallStep, Calls
<1>3. CASE \E c \in Tools : ToolStep(c)
  BY <1>3 DEF CallStep, Calls
<1>4. CASE \E e \in Turns : TurnStep(e)
  BY <1>4
<1>5. CASE (\E p \in {"server", "daemon"} : Crash(p)) \/ ServerStarts \/ DaemonStarts \/ UNCHANGED vars
  BY <1>5
<1>. QED
  BY <1>1, <1>2, <1>3, <1>4, <1>5 DEF Next, CommandStep, ToolStep, TurnStep

LEMMA TurnStepsSpareCalls ==
  ASSUME TypeOK, NEW e \in Turns, TurnStep(e), NEW c \in Calls
  PROVE  at'[c] = at[c] /\ op' = op /\ faulted' = faulted /\ (c \in claims' <=> c \in claims)
BY UnitsAssumption
   DEF TypeOK, TurnStep, BeginTurn, AdmitTurn, LeavesQueue, Expire, TurnWorks, TurnGivesUp, EndTurn,
       ReleaseTurn, Acquire, Goes, ledger, admission, processes, Units

LEMMA CallStepsSpareOthers ==
  ASSUME TypeOK, NEW c \in Calls, CallStep(c), NEW u \in Units, u # c
  PROVE  /\ at'[u] = at[u] /\ (u \in claims' <=> u \in claims)
         /\ u \in Calls => op'[u] = op[u]
         /\ u \in Turns => before'[u] = before[u] /\ (u \in waiters' <=> u \in waiters)
BY DEF TypeOK, CallStep, CommandStep, StartCommand, PtyStarts, PtyFails, CommandExits, ToolStep, StartTool,
       ToolReturns, ToolAccounts, Acquire, ReleaseClaim, OpensRow, EndOperation, Goes, ledger,
       admission, processes, Units

\* A call does not touch the runs and the turns, nor hide a fault.
LEMMA CallStepsSpareTurns ==
  ASSUME TypeOK, NEW c \in Calls, CallStep(c)
  PROVE  UNCHANGED <<run, receipt, execution, latest, alive>> /\ (faulted => faulted')
BY DEF TypeOK, CallStep, CommandStep, StartCommand, PtyStarts, PtyFails, CommandExits, ToolStep, StartTool,
       ToolReturns, ToolAccounts, ledger, processes

(***************************************************************************)
(* The accounts of the calls.                                              *)
(***************************************************************************)
LEMMA CallAccountsItself ==
  ASSUME TypeOK, WorkInv, NEW c \in Calls, CallStep(c)
  PROVE  CallIsAccounted(c)'
<1>. USE DEF TypeOK, WorkInv, CallsAreAccounted, CallIsAccounted, CallPlaces, Started, AtWork, Goes,
             ledger, admission, processes
<1>0. CallIsAccounted(c) /\ c \in Units
  BY DEF Units
<1>1. CASE c \in Commands /\ StartCommand(c)
  BY <1>0, <1>1 DEF StartCommand, Acquire, OpensRow
<1>2. CASE c \in Commands /\ PtyStarts(c)
  BY <1>0, <1>2 DEF PtyStarts
<1>3. CASE c \in Commands /\ PtyFails(c)
  BY <1>0, <1>3 DEF PtyFails, EndOperation, ReleaseClaim
<1>4. CASE c \in Commands /\ CommandExits(c)
  BY <1>0, <1>4 DEF CommandExits, EndOperation, ReleaseClaim
<1>5. CASE c \in Tools /\ StartTool(c)
  BY <1>0, <1>5 DEF StartTool, Acquire, OpensRow
<1>6. CASE c \in Tools /\ ToolReturns(c)
  BY <1>0, <1>6 DEF ToolReturns, ReleaseClaim
<1>7. CASE c \in Tools /\ ToolAccounts(c)
  BY <1>0, <1>7 DEF ToolAccounts, EndOperation
<1>. QED
  BY <1>1, <1>2, <1>3, <1>4, <1>5, <1>6, <1>7 DEF CallStep, CommandStep, ToolStep

LEMMA CallsStayAccounted == TypeOK /\ WorkInv /\ [Next]_vars => CallsAreAccounted'
<1>. SUFFICES ASSUME TypeOK, WorkInv, [Next]_vars, NEW c \in Calls PROVE CallIsAccounted(c)'
  BY DEF CallsAreAccounted
<1>0. CallIsAccounted(c) /\ c \in Units
  BY DEF WorkInv, CallsAreAccounted, Units
<1>1. ASSUME at'[c] = at[c], op'[c] = op[c], faulted => faulted', c \in claims' => c \in claims
      PROVE  CallIsAccounted(c)'
  BY <1>0, <1>1 DEF CallIsAccounted, Started, AtWork
<1>2. ASSUME NEW d \in Calls, CallStep(d) PROVE CallIsAccounted(c)'
  <2>1. CASE d = c
    BY <1>2, <2>1, CallAccountsItself
  <2>2. CASE d # c
    BY <1>0, <1>1, <1>2, <2>2, CallStepsSpareOthers, CallStepsSpareTurns
  <2>. QED
    BY <2>1, <2>2
<1>3. ASSUME NEW e \in Turns, TurnStep(e) PROVE CallIsAccounted(c)'
  BY <1>1, <1>3, TurnStepsSpareCalls
<1>4. ASSUME NEW r \in Runs, Begin(r) \/ \E p \in Reports : Finish(r, p) PROVE CallIsAccounted(c)'
  BY <1>1, <1>4 DEF Begin, Finish, admission, processes
<1>5. ASSUME NEW p \in {"server", "daemon"}, Crash(p) PROVE CallIsAccounted(c)'
  <2>1. /\ UNCHANGED <<op, claims>> /\ faulted'
        /\ \/ at'[c] = at[c]
           \/ at[c] \in {"importing", "working", "returned", "lost"} /\ at'[c] = "lost"
    BY <1>0, <1>5 DEF Crash, CallIsAccounted, CallPlaces, TypeOK, ledger, admission
  <2>. QED
    BY <1>0, <2>1 DEF CallIsAccounted, CallPlaces, Started, AtWork
<1>6. CASE ServerStarts \/ DaemonStarts \/ UNCHANGED vars
  BY <1>1, <1>6 DEF ServerStarts, DaemonStarts, vars, ledger, admission, processes
<1>. QED
  BY <1>2, <1>3, <1>4, <1>5, <1>6, StepsByKind

(***************************************************************************)
(* The accounts of the turns and the dates of their claims.                *)
(***************************************************************************)
LEMMA TurnStepsSpareOthers ==
  ASSUME TypeOK, NEW e \in Turns, TurnStep(e), NEW f \in Turns, f # e
  PROVE  /\ at'[f] = at[f] /\ execution'[f] = execution[f] /\ before'[f] = before[f]
         /\ f \in claims' <=> f \in claims
         /\ f \in waiters' <=> f \in waiters
BY DEF TypeOK, TurnStep, BeginTurn, AdmitTurn, LeavesQueue, Expire, TurnWorks, TurnGivesUp, EndTurn,
       ReleaseTurn, Acquire, Goes, ledger, admission, processes, Units

\* Only a turn that begins becomes its agent's latest, while no other one of it is under way.
LEMMA LatestChangesWhenIdle ==
  ASSUME TypeOK, NEW e \in Turns, TurnStep(e)
  PROVE  /\ UNCHANGED <<run, receipt, op, alive, faulted>>
         /\ \/ latest' = latest
            \/ /\ latest' = [latest EXCEPT ![AgentOf[e]] = e]
               /\ at[e] = "idle" /\ ~Busy(AgentOf[e]) /\ RunIsOpen(e)
BY DEF TypeOK, TurnStep, BeginTurn, AdmitTurn, LeavesQueue, Expire, TurnWorks, TurnGivesUp, EndTurn,
       ReleaseTurn, ledger, admission, processes

LEMMA TurnAccountsItself ==
  ASSUME TypeOK, WorkInv, NEW e \in Turns, TurnStep(e)
  PROVE  TurnIsAccounted(e)'
<1>. USE DEF TypeOK, TurnIsAccounted, TurnPlaces, UnderWay, Goes, ledger, admission, processes
<1>0. TurnIsAccounted(e) /\ e \in Units /\ AgentOf[e] \in Agents
  BY UnitsAssumption DEF WorkInv, TurnsAreAccounted, Units
<1>1. CASE BeginTurn(e)
  BY <1>0, <1>1 DEF BeginTurn
<1>2. CASE AdmitTurn(e)
  BY <1>0, <1>2 DEF AdmitTurn, Acquire
<1>3. CASE LeavesQueue(e)
  BY <1>0, <1>3 DEF LeavesQueue, Acquire
<1>4. CASE Expire(e)
  BY <1>0, <1>4 DEF Expire
<1>5. CASE TurnWorks(e)
  BY <1>0, <1>5 DEF TurnWorks
<1>6. CASE TurnGivesUp(e)
  BY <1>0, <1>6 DEF TurnGivesUp
<1>7. CASE EndTurn(e)
  BY <1>0, <1>7 DEF EndTurn
<1>8. CASE ReleaseTurn(e)
  BY <1>0, <1>8 DEF ReleaseTurn
<1>. QED
  BY <1>1, <1>2, <1>3, <1>4, <1>5, <1>6, <1>7, <1>8 DEF TurnStep

LEMMA TurnDatesItsClaim ==
  ASSUME TypeOK, WorkInv, NEW e \in Turns, TurnStep(e)
  PROVE  ClaimIsDated(e)'
<1>. USE DEF TypeOK, ClaimIsDated, Goes, ledger, admission, processes
<1>0. TurnIsAccounted(e) /\ ClaimIsDated(e) /\ e \in Units /\ AgentOf[e] \in Agents
  BY UnitsAssumption DEF WorkInv, TurnsAreAccounted, ClaimsAreDated, Units
<1>1. CASE BeginTurn(e)
  BY <1>0, <1>1 DEF BeginTurn, TurnIsAccounted
<1>2. CASE Acquire(e) /\ at[e] \in {"begun", "waiting"} /\ UNCHANGED <<execution, latest>>
  BY <1>0, <1>2 DEF Acquire, TurnIsAccounted, UnderWay
<1>3. CASE claims' \subseteq claims /\ UNCHANGED <<before, latest>>
           /\ \A f \in Turns : execution[f] # "none" => execution'[f] # "none"
  BY <1>0, <1>3
<1>4. CASE AdmitTurn(e) \/ LeavesQueue(e)
  <2>1. CASE Acquire(e)
    BY <1>2, <1>4, <2>1 DEF AdmitTurn, LeavesQueue
  <2>2. CASE UNCHANGED <<claims, before>>
    BY <1>3, <1>4, <2>2 DEF AdmitTurn, LeavesQueue
  <2>. QED
    BY <1>4, <2>1, <2>2 DEF AdmitTurn, LeavesQueue
<1>5. CASE Expire(e) \/ TurnWorks(e) \/ TurnGivesUp(e) \/ EndTurn(e) \/ ReleaseTurn(e)
  <2>1. claims' \subseteq claims /\ UNCHANGED <<before, latest>>
    BY <1>5 DEF Expire, TurnWorks, TurnGivesUp, EndTurn, ReleaseTurn
  <2>2. execution' = execution \/ execution' = [execution EXCEPT ![e] = "ended"]
    BY <1>5 DEF Expire, TurnWorks, TurnGivesUp, EndTurn, ReleaseTurn
  <2>. QED
    BY <1>3, <2>1, <2>2
<1>. QED
  BY <1>1, <1>4, <1>5 DEF TurnStep

\* An execution that there was once stays in the table.
LEMMA ExecutionsStay ==
  ASSUME TypeOK, [Next]_vars, NEW f \in Turns, execution[f] # "none"
  PROVE  execution'[f] # "none"
<1>1. ASSUME NEW e \in Turns, TurnStep(e) PROVE execution'[f] # "none"
  BY <1>1 DEF TypeOK, TurnStep, BeginTurn, AdmitTurn, LeavesQueue, Expire, TurnWorks, TurnGivesUp,
              EndTurn, ReleaseTurn, ledger
<1>2. ASSUME NEW c \in Calls, CallStep(c) PROVE execution'[f] # "none"
  BY <1>2, CallStepsSpareTurns
<1>3. CASE DaemonStarts
  BY <1>3 DEF DaemonStarts, TypeOK
<1>4. CASE \E r \in Runs : Begin(r) \/ \E p \in Reports : Finish(r, p)
  BY <1>4 DEF Begin, Finish
<1>5. CASE ServerStarts \/ (\E p \in {"server", "daemon"} : Crash(p)) \/ UNCHANGED vars
  BY <1>5 DEF ServerStarts, Crash, ledger, vars
<1>. QED
  BY <1>1, <1>2, <1>3, <1>4, <1>5, StepsByKind

LEMMA TurnsStayAccounted == TypeOK /\ WorkInv /\ [Next]_vars => TurnsAreAccounted' /\ ClaimsAreDated'
<1>. SUFFICES ASSUME TypeOK, WorkInv, [Next]_vars, NEW f \in Turns
              PROVE  TurnIsAccounted(f)' /\ ClaimIsDated(f)'
  BY DEF TurnsAreAccounted, ClaimsAreDated
<1>0. TurnIsAccounted(f) /\ ClaimIsDated(f) /\ f \in Units /\ AgentOf[f] \in Agents
  BY UnitsAssumption DEF WorkInv, TurnsAreAccounted, ClaimsAreDated, Units
<1>1. ASSUME UNCHANGED <<execution, latest, alive>>, at'[f] = at[f], before'[f] = before[f],
             faulted => faulted', f \in claims' <=> f \in claims, f \in waiters' <=> f \in waiters
      PROVE  TurnIsAccounted(f)' /\ ClaimIsDated(f)'
  BY <1>0, <1>1 DEF TurnIsAccounted, ClaimIsDated
<1>2. ASSUME NEW e \in Turns, TurnStep(e) PROVE TurnIsAccounted(f)' /\ ClaimIsDated(f)'
  <2>1. CASE e = f
    BY <1>2, <2>1, TurnAccountsItself, TurnDatesItsClaim
  <2>2. CASE e # f
    <3>1. /\ at'[f] = at[f] /\ execution'[f] = execution[f] /\ before'[f] = before[f]
          /\ f \in claims' <=> f \in claims
          /\ f \in waiters' <=> f \in waiters
          /\ UNCHANGED <<alive, faulted>>
      BY <1>2, <2>2, TurnStepsSpareOthers, LatestChangesWhenIdle
    <3>2. \/ latest'[AgentOf[f]] = latest[AgentOf[f]]
          \/ latest'[AgentOf[f]] = e /\ at[e] = "idle" /\ ~Busy(AgentOf[f])
      BY <1>0, <1>2, LatestChangesWhenIdle DEF TypeOK
    <3>3. at[e] = "idle" => e \notin before[f]
      BY <1>0 DEF WorkInv, TurnsAreAccounted, TurnIsAccounted, ClaimIsDated
    <3>4. at[f] \in UnderWay \union {"ended"} => Busy(AgentOf[f])
      BY DEF Busy, UnderWay
    <3>5. \A g \in before[f] : execution'[g] # "none"
      BY <1>0, ExecutionsStay DEF ClaimIsDated, TypeOK, Units
    <3>. QED
      BY <1>0, <3>1, <3>2, <3>3, <3>4, <3>5 DEF TurnIsAccounted, ClaimIsDated
  <2>. QED
    BY <2>1, <2>2
<1>3. ASSUME NEW c \in Calls, CallStep(c) PROVE TurnIsAccounted(f)' /\ ClaimIsDated(f)'
  <2>1. f # c
    BY UnitsAssumption
  <2>. QED
    BY <1>0, <1>1, <1>3, <2>1, CallStepsSpareOthers, CallStepsSpareTurns
<1>4. ASSUME NEW r \in Runs, Begin(r) \/ \E p \in Reports : Finish(r, p)
      PROVE  TurnIsAccounted(f)' /\ ClaimIsDated(f)'
  BY <1>1, <1>4 DEF Begin, Finish, admission, processes
<1>5. ASSUME NEW p \in {"server", "daemon"}, Crash(p) PROVE TurnIsAccounted(f)' /\ ClaimIsDated(f)'
  <2>1. UNCHANGED <<execution, latest, claims, waiters, before>> /\ faulted'
    BY <1>5 DEF Crash, ledger, admission
  <2>2. CASE p = "server"
    <3>1. at'[f] = at[f] /\ ("daemon" \in alive' <=> "daemon" \in alive)
      BY <1>0, <1>5, <2>2, UnitsAssumption DEF Crash, UnitsOf
    <3>. QED
      BY <1>0, <2>1, <3>1 DEF TurnIsAccounted, ClaimIsDated
  <2>3. CASE p = "daemon"
    <3>1. \/ at[f] \in {"idle", "refused", "done"} /\ at'[f] = at[f]
          \/ at[f] = "ended" /\ at'[f] = "done"
          \/ at[f] \in UnderWay \union {"lost"} /\ at'[f] = "lost"
      BY <1>0, <1>5, <2>3 DEF Crash, UnitsOf, TurnIsAccounted, TurnPlaces
    <3>. QED
      BY <1>0, <2>1, <3>1 DEF TurnIsAccounted, ClaimIsDated, TurnPlaces, UnderWay
  <2>. QED
    BY <2>2, <2>3
<1>6. CASE DaemonStarts
  <2>1. at[f] \notin UnderWay \union {"ended"}
    BY <1>0, <1>6 DEF DaemonStarts, TurnIsAccounted
  <2>2. /\ UNCHANGED <<latest, claims, waiters, before, at, faulted>>
        /\ execution'[f] = IF execution[f] = "active" THEN "reconcile" ELSE execution[f]
    BY <1>6 DEF DaemonStarts, admission
  <2>3. \A g \in before[f] : execution'[g] # "none"
    BY <1>0, ExecutionsStay DEF ClaimIsDated, TypeOK
  <2>. QED
    BY <1>0, <2>1, <2>2, <2>3 DEF TurnIsAccounted, ClaimIsDated, UnderWay
<1>7. CASE ServerStarts
  BY <1>0, <1>7 DEF ServerStarts, TurnIsAccounted, ClaimIsDated, ledger, admission
<1>8. CASE UNCHANGED vars
  BY <1>1, <1>8 DEF vars, ledger, admission, processes
<1>. QED
  BY <1>2, <1>3, <1>4, <1>5, <1>6, <1>7, <1>8, StepsByKind

(***************************************************************************)
(* The runs: a run that is finished has nothing left, and what is left is  *)
(* there to be found when it is asked to finish.                           *)
(***************************************************************************)

\* A claim that belongs to a run is never taken for another run's.
LEMMA OwnClaimsAreFound ==
  ASSUME TypeOK, WorkInv, NEW r \in Runs, NEW u \in claims, RunOf[u] = r
  PROVE  ~OwnedElsewhere(r, u)
BY DEF OwnedElsewhere, WorkInv, ClaimsAreDated, ClaimIsDated

LEMMA FinishFindsAll ==
  ASSUME TypeOK, WorkInv, NEW r \in Runs, ~FinishBlocked(r), run[r] = "running"
  PROVE  /\ \A e \in Turns : RunOf[e] = r => execution[e] \notin {"active", "reconcile"}
         /\ \A c \in Calls : RunOf[c] = r => op[c] # "running"
         /\ \A u \in Units : RunOf[u] = r => u \notin claims
<1>1. \A e \in Turns : RunOf[e] = r => execution[e] \notin {"active", "reconcile"}
  BY DEF FinishBlocked, WorkInv, InterruptedIsReconciled
<1>2. \A c \in Calls : RunOf[c] = r => op[c] # "running"
  BY DEF FinishBlocked
<1>3. \A u \in Units : RunOf[u] = r => u \notin claims
  BY OwnClaimsAreFound DEF FinishBlocked
<1>. QED
  BY <1>1, <1>2, <1>3

\* The work of a finished run does not come back.
LEMMA FinishedRunsTakeNoWork ==
  ASSUME TypeOK, WorkInv, NEW r \in Runs, run[r] \in Finished, NEW u \in Units, RunOf[u] = r
  PROVE  /\ u \in Calls => ~AtWork(u)
         /\ u \in Turns => at[u] \in {"idle", "ended", "refused", "done"}
         /\ ~RunIsOpen(u)
<1>1. r # None
  BY UnitsAssumption
<1>2. ~RunIsOpen(u)
  BY <1>1 DEF RunIsOpen, Finished
<1>3. ASSUME u \in Calls PROVE ~AtWork(u)
  BY <1>1, <1>3 DEF WorkInv, CallsAreAccounted, CallIsAccounted, RunsAreAccounted, RunIsAccounted
<1>4. ASSUME u \in Turns PROVE at[u] \in {"idle", "ended", "refused", "done"}
  <2>1. TurnIsAccounted(u) /\ execution[u] \notin {"active", "reconcile"}
    BY <1>4 DEF WorkInv, TurnsAreAccounted, RunsAreAccounted, RunIsAccounted
  <2>. QED
    BY <2>1 DEF TurnIsAccounted, TurnPlaces
<1>. QED
  BY <1>2, <1>3, <1>4

LEMMA RunsStayAccounted == TypeOK /\ WorkInv /\ [Next]_vars => RunsAreAccounted'
<1>. SUFFICES ASSUME TypeOK, WorkInv, [Next]_vars, NEW r \in Runs PROVE RunIsAccounted(r)'
  BY DEF RunsAreAccounted
<1>0. RunIsAccounted(r) /\ r # None
  BY UnitsAssumption DEF WorkInv, RunsAreAccounted
<1>1. ASSUME run'[r] \in Finished => run[r] \in Finished,
             run[r] \in Finished =>
                /\ \A e \in Turns : RunOf[e] = r => execution'[e] \in {execution[e], "none", "ended"}
                /\ \A c \in Calls : RunOf[c] = r /\ op'[c] = "running" => op[c] = "running"
                /\ \A u \in Units : RunOf[u] = r /\ u \in claims' => u \in claims
      PROVE  RunIsAccounted(r)'
  BY <1>0, <1>1 DEF RunIsAccounted
<1>2. ASSUME NEW q \in Runs, Begin(q) PROVE RunIsAccounted(r)'
  BY <1>1, <1>2 DEF Begin, admission, Finished, TypeOK
<1>3. ASSUME NEW q \in Runs, NEW p \in Reports, Finish(q, p) PROVE RunIsAccounted(r)'
  <2>1. UNCHANGED <<execution, op, claims>>
    BY <1>3 DEF Finish, admission
  <2>2. CASE q = r
    BY <1>3, <2>1, <2>2, FinishFindsAll DEF Finish, RunIsAccounted
  <2>3. CASE q # r
    BY <1>1, <1>3, <2>1, <2>3 DEF Finish, TypeOK
  <2>. QED
    BY <2>2, <2>3
<1>4. ASSUME NEW c \in Calls, CallStep(c) PROVE RunIsAccounted(r)'
  <2>1. UNCHANGED <<run, execution>>
    BY <1>4, CallStepsSpareTurns
  <2>2. ASSUME run[r] \in Finished, RunOf[c] = r
        PROVE  (op'[c] = "running" => op[c] = "running") /\ (c \in claims' => c \in claims)
    <3>1. ~AtWork(c) /\ ~RunIsOpen(c)
      BY <2>2, FinishedRunsTakeNoWork DEF Units
    <3>2. CASE StartCommand(c)
      BY <3>1, <3>2 DEF StartCommand, admission
    <3>3. CASE StartTool(c)
      BY <3>1, <3>3 DEF StartTool, OpensRow, admission, TypeOK
    <3>4. CASE ~StartCommand(c) /\ ~StartTool(c)
      BY <1>4, <3>1, <3>4
         DEF CallStep, CommandStep, PtyStarts, PtyFails, CommandExits, ToolStep, ToolReturns,
             ToolAccounts, AtWork
    <3>. QED
      BY <3>2, <3>3, <3>4
  <2>3. \A d \in Calls : d # c => op'[d] = op[d]
    BY <1>4, CallStepsSpareOthers DEF Units
  <2>4. \A u \in Units : u # c => (u \in claims' <=> u \in claims)
    BY <1>4, CallStepsSpareOthers
  <2>. QED
    BY <1>1, <2>1, <2>2, <2>3, <2>4
<1>5. ASSUME NEW e \in Turns, TurnStep(e) PROVE RunIsAccounted(r)'
  <2>1. UNCHANGED <<run, op>>
    BY <1>5, LatestChangesWhenIdle
  <2>2. ASSUME run[r] \in Finished, RunOf[e] = r
        PROVE  execution'[e] \in {execution[e], "none", "ended"} /\ (e \in claims' => e \in claims)
    <3>1. at[e] \in {"idle", "ended", "refused", "done"} /\ ~RunIsOpen(e)
      BY <2>2, FinishedRunsTakeNoWork DEF Units
    <3>2. CASE BeginTurn(e)
      BY <3>1, <3>2 DEF BeginTurn, admission
    <3>3. CASE Expire(e) \/ ReleaseTurn(e)
      BY <3>3 DEF Expire, ReleaseTurn, ledger, TypeOK
    <3>4. CASE ~BeginTurn(e) /\ ~Expire(e) /\ ~ReleaseTurn(e)
      BY <1>5, <3>1, <3>4
         DEF TurnStep, AdmitTurn, LeavesQueue, TurnWorks, TurnGivesUp, EndTurn
    <3>. QED
      BY <3>2, <3>3, <3>4
  <2>3. \A f \in Turns : f # e => execution'[f] = execution[f]
    BY <1>5, TurnStepsSpareOthers
  <2>4. \A u \in Units : u # e => (u \in claims' <=> u \in claims)
    BY <1>5, TurnStepsSpareOthers, TurnStepsSpareCalls DEF Units
  <2>. QED
    BY <1>1, <2>1, <2>2, <2>3, <2>4
<1>6. ASSUME NEW p \in {"server", "daemon"}, Crash(p) PROVE RunIsAccounted(r)'
  BY <1>1, <1>6 DEF Crash, ledger, admission
<1>7. CASE DaemonStarts
  <2>1. UNCHANGED <<op, claims>>
    BY <1>7 DEF DaemonStarts, admission
  <2>2. run'[r] \in Finished => run[r] \in Finished
    BY <1>7 DEF DaemonStarts, Finished, TypeOK
  <2>3. ASSUME run[r] \in Finished, NEW e \in Turns, RunOf[e] = r PROVE execution'[e] = execution[e]
    BY <1>0, <1>7, <2>3 DEF DaemonStarts, RunIsAccounted
  <2>. QED
    BY <1>1, <2>1, <2>2, <2>3
<1>8. CASE ServerStarts \/ UNCHANGED vars
  BY <1>1, <1>8 DEF ServerStarts, vars, ledger, admission
<1>. QED
  BY <1>2, <1>3, <1>4, <1>5, <1>6, <1>7, <1>8, StepsByKind

(***************************************************************************)
(* What else the invariant keeps: faults are remembered, interrupted work  *)
(* is never taken for done, and a request key is used once.                *)
(***************************************************************************)
LEMMA LostStayFaults == TypeOK /\ WorkInv /\ [Next]_vars => LostAreFaults'
<1>. SUFFICES ASSUME TypeOK, WorkInv, [Next]_vars, NEW u \in Units, at'[u] = "lost" PROVE faulted'
  BY DEF LostAreFaults
<1>1. CASE at'[u] = at[u] /\ (faulted => faulted')
  BY <1>1 DEF WorkInv, LostAreFaults
<1>2. ASSUME NEW c \in Calls, CallStep(c) PROVE faulted'
  <2>1. u # c
    BY <1>2 DEF CallStep, CommandStep, StartCommand, PtyStarts, PtyFails, CommandExits, ToolStep,
                StartTool, ToolReturns, ToolAccounts, Goes, TypeOK
  <2>. QED
    BY <1>1, <1>2, <2>1, CallStepsSpareOthers, CallStepsSpareTurns
<1>3. ASSUME NEW e \in Turns, TurnStep(e) PROVE faulted'
  <2>1. at'[u] = at[u] \/ (u = e /\ at'[u] # "lost")
    BY <1>3 DEF TurnStep, BeginTurn, AdmitTurn, LeavesQueue, Expire, TurnWorks, TurnGivesUp, EndTurn,
                ReleaseTurn, Goes, TypeOK
  <2>. QED
    BY <1>1, <1>3, <2>1, LatestChangesWhenIdle
<1>4. ASSUME NEW p \in {"server", "daemon"}, Crash(p) PROVE faulted'
  BY <1>4 DEF Crash
<1>5. CASE \E r \in Runs : Begin(r) \/ \E p \in Reports : Finish(r, p)
  BY <1>1, <1>5 DEF Begin, Finish, processes
<1>6. CASE ServerStarts \/ DaemonStarts \/ UNCHANGED vars
  BY <1>1, <1>6 DEF ServerStarts, DaemonStarts, vars, processes
<1>. QED
  BY <1>2, <1>3, <1>4, <1>5, <1>6, StepsByKind

LEMMA InterruptedStayReconciled == TypeOK /\ WorkInv /\ [Next]_vars => InterruptedIsReconciled'
<1>. SUFFICES ASSUME TypeOK, WorkInv, [Next]_vars, NEW f \in Turns, execution'[f] = "reconcile"
              PROVE  run'[RunOf[f]] = "reconcile"
  BY DEF InterruptedIsReconciled
<1>0. RunOf[f] \in Runs
  BY UnitsAssumption DEF Units
<1>1. CASE execution[f] = "reconcile" /\ run'[RunOf[f]] = run[RunOf[f]]
  BY <1>1 DEF WorkInv, InterruptedIsReconciled
<1>2. ASSUME NEW c \in Calls, CallStep(c) PROVE run'[RunOf[f]] = "reconcile"
  BY <1>1, <1>2, CallStepsSpareTurns
<1>3. ASSUME NEW e \in Turns, TurnStep(e) PROVE run'[RunOf[f]] = "reconcile"
  <2>1. execution[f] = "reconcile"
    BY <1>3 DEF TurnStep, BeginTurn, AdmitTurn, LeavesQueue, Expire, TurnWorks, TurnGivesUp, EndTurn,
                ReleaseTurn, ledger, TypeOK
  <2>. QED
    BY <1>1, <1>3, <2>1, LatestChangesWhenIdle
<1>4. ASSUME NEW r \in Runs, Begin(r) \/ \E p \in Reports : Finish(r, p)
      PROVE  run'[RunOf[f]] = "reconcile"
  <2>1. execution[f] = "reconcile"
    BY <1>4 DEF Begin, Finish
  <2>2. run[RunOf[f]] = "reconcile"
    BY <2>1 DEF WorkInv, InterruptedIsReconciled
  <2>. QED
    BY <1>0, <1>4, <2>2 DEF Begin, Finish, TypeOK
<1>5. CASE DaemonStarts
  BY <1>0, <1>5 DEF DaemonStarts, WorkInv, InterruptedIsReconciled
<1>6. CASE ServerStarts \/ (\E p \in {"server", "daemon"} : Crash(p)) \/ UNCHANGED vars
  BY <1>1, <1>6 DEF ServerStarts, Crash, ledger, vars
<1>. QED
  BY <1>2, <1>3, <1>4, <1>5, <1>6, StepsByKind

\* A call that starts found no row under its key; one that did not start and has no row starts later.
LEMMA CallsStartUnreplayed ==
  ASSUME TypeOK, WorkInv, NEW c \in Calls, CallStep(c), ~Started(c), Started(c)'
  PROVE  ~Replay(c)
BY DEF CallStep, CommandStep, StartCommand, PtyStarts, PtyFails, CommandExits, ToolStep, StartTool,
       ToolReturns, ToolAccounts, Started, Goes, TypeOK, Units

LEMMA KeysStayUsedOnce == TypeOK /\ WorkInv /\ [Next]_vars => KeyedWorkRunsOnce'
<1>. SUFFICES ASSUME TypeOK, WorkInv, [Next]_vars, NEW c \in Calls, NEW d \in Calls,
                     Started(c)', Started(d)', SameCall(c, d), RunOf[c] = RunOf[d], RunOf[c] # None,
                     KeyOf[c] = KeyOf[d], KeyOf[c] # None
              PROVE  c = d
  BY DEF KeyedWorkRunsOnce, SameCall
<1>1. CASE Started(c) /\ Started(d)
  BY <1>1 DEF WorkInv, KeyedWorkRunsOnce
<1>2. ASSUME NEW x \in Calls, ~Started(x), Started(x)' PROVE CallStep(x)
  <2>1. ASSUME NEW y \in Calls, CallStep(y) PROVE x = y
    BY <1>2, <2>1, CallStepsSpareOthers DEF Started, Units
  <2>2. ASSUME NEW e \in Turns, TurnStep(e) PROVE FALSE
    BY <1>2, <2>2, TurnStepsSpareCalls DEF Started
  <2>3. ASSUME NEW p \in {"server", "daemon"}, Crash(p) PROVE FALSE
    BY <1>2, <2>3 DEF Crash, Started, Units
  <2>4. CASE \E r \in Runs : Begin(r) \/ \E p \in Reports : Finish(r, p)
    BY <1>2, <2>4 DEF Begin, Finish, Started
  <2>5. CASE ServerStarts \/ DaemonStarts \/ UNCHANGED vars
    BY <1>2, <2>5 DEF ServerStarts, DaemonStarts, vars, Started
  <2>. QED
    BY <2>1, <2>2, <2>3, <2>4, <2>5, StepsByKind
<1>3. ASSUME NEW x \in Calls, NEW y \in Calls, ~Started(x), Started(x)', Started(y)', x # y,
             SameCall(x, y), RunOf[x] = RunOf[y], RunOf[x] # None, KeyOf[x] = KeyOf[y], KeyOf[x] # None
      PROVE  FALSE
  <2>1. CallStep(x) /\ ~Replay(x)
    BY <1>2, <1>3, CallsStartUnreplayed
  <2>2. Started(y)
    BY <1>3, <2>1, CallStepsSpareOthers DEF Started, Units
  <2>3. op[y] # "none"
    BY <1>3, <2>2 DEF WorkInv, CallsAreAccounted, CallIsAccounted
  <2>. QED
    BY <1>3, <2>1, <2>3 DEF Replay
<1>4. SameCall(d, c)
  BY DEF SameCall
<1>. QED
  BY <1>1, <1>3, <1>4

(***************************************************************************)
(* The theorems.                                                           *)
(***************************************************************************)
LEMMA WorkIsSound == Spec => []WorkInv
<1>1. ASSUME Init PROVE WorkInv
  <2>. USE <1>1 DEF Init, WorkInv
  <2>1. CallsAreAccounted
    BY DEF CallsAreAccounted, CallIsAccounted, CallPlaces, Started, AtWork, Units
  <2>2. TurnsAreAccounted /\ ClaimsAreDated
    BY DEF TurnsAreAccounted, ClaimsAreDated, TurnIsAccounted, ClaimIsDated, TurnPlaces, UnderWay, Units
  <2>3. RunsAreAccounted /\ LostAreFaults /\ InterruptedIsReconciled /\ KeyedWorkRunsOnce
    BY DEF RunsAreAccounted, RunIsAccounted, Finished, LostAreFaults, InterruptedIsReconciled,
           KeyedWorkRunsOnce, Started, Units
  <2>. QED
    BY <2>1, <2>2, <2>3
<1>2. TypeOK /\ WorkInv /\ [Next]_vars => WorkInv'
  BY CallsStayAccounted, TurnsStayAccounted, RunsStayAccounted, LostStayFaults,
     InterruptedStayReconciled, KeysStayUsedOnce
     DEF WorkInv
<1>. QED
  BY <1>1, <1>2, TypeCorrect, PTL DEF Spec

\* Whatever commands, tools, turns, crashes and restarts there are: a finished run has no work left
\* that could still change its checkout; a run with nothing under way can be finished unless
\* something broke; and one request key starts work at most once.
THEOREM RunsTellTheTruth == Spec => []RunsAreTruthful
<1>1. ASSUME TypeOK, WorkInv PROVE FinishedRunIsQuiet
  <2>1. SUFFICES ASSUME NEW r \in Runs, run[r] \in Finished, NEW u \in Units, RunOf[u] = r
                 PROVE  ~AtWork(u) /\ u \notin claims
    BY DEF FinishedRunIsQuiet
  <2>2. u \notin claims
    BY <1>1, <2>1 DEF WorkInv, RunsAreAccounted, RunIsAccounted
  <2>. QED
    BY <1>1, <2>1, <2>2, FinishedRunsTakeNoWork DEF Units, AtWork
<1>2. ASSUME TypeOK, WorkInv PROVE QuietRunCanFinish
  <2>1. SUFFICES ASSUME ~faulted, \A u \in Units : at[u] \in {"idle", "refused", "done"},
                        NEW r \in Runs, run[r] = "running"
                 PROVE  ~FinishBlocked(r)
    BY DEF QuietRunCanFinish
  <2>2. \A c \in Calls : op[c] # "running" /\ c \notin claims
    BY <1>2, <2>1 DEF WorkInv, CallsAreAccounted, CallIsAccounted, AtWork, Units
  <2>3. \A e \in Turns : execution[e] # "active" /\ e \notin claims \union waiters
    BY <1>2, <2>1 DEF WorkInv, TurnsAreAccounted, TurnIsAccounted, UnderWay, Units
  <2>4. claims \union waiters = {}
    BY <1>2, <2>2, <2>3 DEF TypeOK, Units
  <2>. QED
    BY <2>2, <2>3, <2>4 DEF FinishBlocked
<1>3. WorkInv => KeyedWorkRunsOnce
  BY DEF WorkInv
<1>. QED
  BY <1>1, <1>2, <1>3, WorkIsSound, TypeCorrect, PTL DEF RunsAreTruthful

\* No later report and no restarted daemon rewrites the receipt of a finished run.
THEOREM ReceiptsAreFinal == Spec => ReceiptIsFinal
<1>1. ASSUME TypeOK, WorkInv, [Next]_vars
      PROVE  [\A r \in Runs : run[r] \in Finished => run'[r] = run[r] /\ receipt'[r] = receipt[r]]_vars
  <2>1. SUFFICES ASSUME NEW r \in Runs, run[r] \in Finished
                 PROVE  run'[r] = run[r] /\ receipt'[r] = receipt[r]
    OBVIOUS
  <2>2. ASSUME NEW q \in Runs, Begin(q) \/ \E p \in Reports : Finish(q, p)
        PROVE  run'[r] = run[r] /\ receipt'[r] = receipt[r]
    BY <1>1, <2>1, <2>2 DEF Begin, Finish, Finished, TypeOK
  <2>3. CASE DaemonStarts
    BY <1>1, <2>1, <2>3 DEF DaemonStarts, WorkInv, RunsAreAccounted, RunIsAccounted
  <2>4. CASE \E c \in Calls : CallStep(c)
    BY <1>1, <2>4, CallStepsSpareTurns
  <2>5. CASE \E e \in Turns : TurnStep(e)
    BY <1>1, <2>5, LatestChangesWhenIdle
  <2>6. CASE ServerStarts \/ (\E p \in {"server", "daemon"} : Crash(p)) \/ UNCHANGED vars
    BY <2>6 DEF ServerStarts, Crash, ledger, vars
  <2>. QED
    BY <1>1, <2>2, <2>3, <2>4, <2>5, <2>6, StepsByKind
<1>. QED
  BY <1>1, WorkIsSound, TypeCorrect, PTL DEF Spec, ReceiptIsFinal

-------------------------------------------------------------------------------
(***************************************************************************)
(* What the turns of a Codex thread are billed (CodexTurns).               *)
(***************************************************************************)
\* Induction over the numbers: a set that has zero, and with every number the
\* next, has them all.  If it lacked one, predecessors would map the numbers
\* it lacks up to that one to fewer of them without a clash.
LEMMA Induction ==
  ASSUME NEW S, 0 \in S, \A n \in Nat : n \in S => n + 1 \in S
  PROVE  \A n \in Nat : n \in S
<1>. SUFFICES ASSUME NEW n \in Nat, n \notin S PROVE FALSE
  OBVIOUS
<1>. DEFINE Missing == {k \in 0..n : k \notin S}
            Down == [k \in Missing |-> k - 1]
<1>1. IsFiniteSet(Missing) /\ IsFiniteSet(Missing \ {n})
      /\ Cardinality(Missing) \in Nat /\ Cardinality(Missing \ {n}) = Cardinality(Missing) - 1
  <2>1. IsFiniteSet(0..n)
    BY FS_Interval
  <2>2. IsFiniteSet(Missing)
    <3>1. Missing \in SUBSET (0..n)
      OBVIOUS
    <3>. QED
      BY ONLY <2>1, <3>1, FS_Subset
  <2>3. n \in Missing
    OBVIOUS
  <2>. QED
    BY ONLY <2>2, <2>3, FS_RemoveElement, FS_CardinalityType
<1>2. Down \in [Missing -> Missing \ {n}]
  <2>1. ASSUME NEW k \in Missing PROVE k - 1 \in Missing \ {n}
    <3>1. k \in Nat /\ k # 0 /\ k <= n
      OBVIOUS
    <3>2. k - 1 \in Nat /\ (k - 1) + 1 = k
      BY <3>1
    <3>3. k - 1 \notin S
      BY <3>2
    <3>. QED
      BY <3>1, <3>2, <3>3
  <2>. QED
    BY <2>1
<1>3. \E x, y \in Missing : x # y /\ Down[x] = Down[y]
  <2>. HIDE DEF Missing, Down
  <2>. QED
    BY <1>1, <1>2, FS_PigeonHole
<1>. QED
  BY <1>3

\* A set of numbers with a bound has a largest one.
LEMMA LargestExists ==
  ASSUME NEW n \in Nat, NEW S \in SUBSET (0..n), S # {}
  PROVE  U!Max(S) \in S /\ \A y \in S : y <= U!Max(S)
<1>. DEFINE HasLargest(T) == \E x \in T : \A y \in T : x >= y
            B == {m \in Nat : \A T \in SUBSET (0..m) : T # {} => HasLargest(T)}
<1>1. 0 \in B
  <2>1. \A y \in 0..0 : y = 0 /\ 0 >= y
    OBVIOUS
  <2>2. ASSUME NEW T \in SUBSET (0..0), T # {} PROVE HasLargest(T)
    <3>1. PICK z \in T : TRUE
      BY <2>2
    <3>2. z = 0 /\ \A y \in T : 0 >= y
      BY <2>1
    <3>. QED
      BY <3>1, <3>2
  <2>. QED
    BY <2>2
<1>2. ASSUME NEW m \in Nat, m \in B PROVE m + 1 \in B
  <2>1. SUFFICES ASSUME NEW T \in SUBSET (0..(m + 1)), T # {} PROVE HasLargest(T)
    OBVIOUS
  <2>2. CASE m + 1 \in T
    BY <2>2
  <2>3. CASE m + 1 \notin T
    <3>1. T \in SUBSET (0..m)
      BY <2>3
    <3>. HIDE DEF HasLargest
    <3>. QED
      BY <3>1, <1>2, <2>1
  <2>. QED
    BY <2>2, <2>3
<1>3. n \in B
  <2>. HIDE DEF B
  <2>. QED
    BY <1>1, <1>2, Induction
<1>4. PICK x \in S : \A y \in S : x >= y
  BY <1>3
<1>5. U!Max(S) \in S /\ \A y \in S : U!Max(S) >= y
  BY <1>4 DEF U!Max
<1>. QED
  BY <1>5

LEMMA ElementsOfASequence ==
  ASSUME NEW T, NEW s \in Seq(T)
  PROVE  /\ U!Elements(s) \subseteq T
         /\ U!Elements(<<>>) = {}
         /\ \A x \in T : Append(s, x) \in Seq(T) /\ U!Elements(Append(s, x)) = U!Elements(s) \union {x}
         /\ s # <<>> => /\ Head(s) \in T /\ Tail(s) \in Seq(T)
                        /\ U!Elements(s) = U!Elements(Tail(s)) \union {Head(s)}
<1>1. U!Elements(s) \subseteq T /\ U!Elements(<<>>) = {}
  BY DEF U!Elements
<1>2. ASSUME NEW x \in T PROVE Append(s, x) \in Seq(T) /\ U!Elements(Append(s, x)) = U!Elements(s) \union {x}
  <2>1. Append(s, x) \in Seq(T) /\ Append(s, x)[Len(s) + 1] = x /\ Len(s) + 1 \in DOMAIN Append(s, x)
    OBVIOUS
  <2>2. \A i \in DOMAIN s : i \in DOMAIN Append(s, x) /\ Append(s, x)[i] = s[i]
    OBVIOUS
  <2>3. \A i \in DOMAIN Append(s, x) : i \in DOMAIN s \/ i = Len(s) + 1
    OBVIOUS
  <2>. QED
    BY <2>1, <2>2, <2>3 DEF U!Elements
<1>3. ASSUME s # <<>>
      PROVE  /\ Head(s) \in T /\ Tail(s) \in Seq(T)
             /\ U!Elements(s) = U!Elements(Tail(s)) \union {Head(s)}
  <2>1. Head(s) = s[1] /\ 1 \in DOMAIN s /\ Head(s) \in T /\ Tail(s) \in Seq(T)
    BY <1>3
  <2>2. \A i \in DOMAIN Tail(s) : i + 1 \in DOMAIN s /\ Tail(s)[i] = s[i + 1]
    BY <1>3
  <2>3. \A i \in DOMAIN s : i = 1 \/ (i - 1 \in DOMAIN Tail(s) /\ Tail(s)[i - 1] = s[i])
    BY <1>3
  <2>4. ASSUME NEW i \in DOMAIN s PROVE s[i] \in U!Elements(Tail(s)) \union {Head(s)}
    BY <2>1, <2>3 DEF U!Elements
  <2>5. ASSUME NEW i \in DOMAIN Tail(s) PROVE Tail(s)[i] \in U!Elements(s)
    BY <2>2 DEF U!Elements
  <2>6. Head(s) \in U!Elements(s)
    BY <2>1 DEF U!Elements
  <2>. QED
    BY <2>1, <2>4, <2>5, <2>6 DEF U!Elements
<1>. QED
  BY <1>1, <1>2, <1>3

\* The sum of the shares is what the recursion says.
LEMMA SumExists ==
  ASSUME NEW N \in Nat, NEW v \in [1..N -> Nat]
  PROVE  \E g : g = [n \in 0..N |-> IF n = 0 THEN 0 ELSE g[n - 1] + v[n]]
<1>. DEFINE Sums(m, g) == g \in [0..m -> Nat] /\ g[0] = 0 /\ \A i \in 1..m : g[i] = g[i - 1] + v[i]
            S == {m \in 0..N : \E g : Sums(m, g)} \union {m \in Nat : m > N}
<1>1. 0 \in S
  <2>1. Sums(0, [i \in 0..0 |-> 0])
    OBVIOUS
  <2>2. \E g : Sums(0, g)
    <3>. HIDE DEF Sums
    <3>. QED
      BY <2>1
  <2>. HIDE DEF Sums
  <2>. QED
    BY <2>2
<1>2. ASSUME NEW m \in Nat, m \in S PROVE m + 1 \in S
  <2>1. CASE m + 1 > N
    BY <2>1
  <2>2. CASE m + 1 <= N
    <3>1. PICK g : Sums(m, g)
      BY <1>2, <2>2
    <3>2. v[m + 1] \in Nat
      BY <2>2
    <3>. DEFINE h == [i \in 0..(m + 1) |-> IF i = m + 1 THEN g[m] + v[m + 1] ELSE g[i]]
    <3>3. g[m] \in Nat
      BY <3>1
    <3>4. h \in [0..(m + 1) -> Nat] /\ h[0] = 0
      BY <3>1, <3>2, <3>3
    <3>5. ASSUME NEW i \in 1..(m + 1) PROVE h[i] = h[i - 1] + v[i]
      <4>1. CASE i = m + 1
        <5>1. i - 1 = m /\ i \in 0..(m + 1) /\ m \in 0..(m + 1) /\ m # m + 1
          BY <4>1
        <5>. QED
          BY <4>1, <5>1
      <4>2. CASE i # m + 1
        <5>1. i \in 1..m /\ i - 1 \in 0..(m + 1) /\ i \in 0..(m + 1) /\ i - 1 # m + 1
          BY <4>2
        <5>2. g[i] = g[i - 1] + v[i]
          BY <3>1, <5>1
        <5>. QED
          BY <4>2, <5>1, <5>2
      <4>. QED
        BY <4>1, <4>2
    <3>6. Sums(m + 1, h)
      BY <3>4, <3>5
    <3>. HIDE DEF Sums, h
    <3>. QED
      BY <2>2, <3>6
  <2>3. m + 1 > N \/ m + 1 <= N
    OBVIOUS
  <2>. HIDE DEF S
  <2>. QED
    BY <2>1, <2>2, <2>3
<1>3. N \in S
  <2>. HIDE DEF S
  <2>. QED
    BY <1>1, <1>2, Induction
<1>4. \E g : Sums(N, g)
  BY <1>3
<1>5. PICK g : Sums(N, g)
  BY <1>4
<1>6. \A n \in 0..N : g[n] = IF n = 0 THEN 0 ELSE g[n - 1] + v[n]
  BY <1>5
<1>7. g = [n \in 0..N |-> g[n]]
  BY <1>5
<1>8. g = [n \in 0..N |-> IF n = 0 THEN 0 ELSE g[n - 1] + v[n]]
  BY <1>6, <1>7
<1>. QED
  BY <1>8

LEMMA SharesAddUp ==
  ASSUME NumTurns \in Nat, NEW v \in [U!Numbers -> Nat],
         \A n \in U!Numbers : v[n] = IF n \in U!Contributing THEN row[n].delta ELSE 0
  PROVE  U!Billed[0] = 0 /\ \A n \in U!Numbers : U!Billed[n] = U!Billed[n - 1] + v[n]
<1>. DEFINE Shares(g) == [n \in 0..NumTurns |-> IF n = 0 THEN 0
                             ELSE g[n - 1] + (IF n \in U!Contributing THEN row[n].delta ELSE 0)]
            Values(g) == [n \in 0..NumTurns |-> IF n = 0 THEN 0 ELSE g[n - 1] + v[n]]
<1>1. \A g : Shares(g) = Values(g)
  BY DEF U!Numbers
<1>2. \E g : g = Shares(g)
  <2>1. PICK g : g = Values(g)
    BY SumExists DEF U!Numbers
  <2>2. g = Shares(g)
    BY <2>1, <1>1
  <2>. QED
    BY <2>2
<1>3. U!Billed = CHOOSE g : g = Shares(g)
  BY DEF U!Billed
<1>4. U!Billed = Shares(U!Billed)
  <2>. HIDE DEF Shares
  <2>. QED
    BY <1>2, <1>3
<1>. QED
  BY <1>4, <1>1 DEF U!Numbers

UsageAssumption == NumTurns \in Nat /\ Unknown \notin Nat

\* What a step leaves of a row, and of the driver.
CountsKept(f) ==
    /\ row'[f].thread = row[f].thread /\ row'[f].fresh = row[f].fresh
    /\ row'[f].baseline = row[f].baseline /\ row'[f].continuous = row[f].continuous
    /\ row'[f].cumulative = row[f].cumulative /\ row'[f].delta = row[f].delta
Moves(e, place) ==
    /\ driver' \in [U!Numbers -> U!Drivers]
    /\ \A f \in U!Numbers : driver'[f].at = (IF f = e THEN place ELSE driver[f].at) /\ driver'[f].early = driver[f].early

LEMMA GoingMoves ==
  ASSUME U!TypeOK, NEW e \in U!Numbers, NEW place \in U!Places, U!Goes(e, place)
  PROVE  Moves(e, place)
<1>. DEFINE r == [driver[e] EXCEPT !.at = place]
<1>1. driver \in [U!Numbers -> U!Drivers] /\ driver[e] \in U!Drivers
  BY DEF U!TypeOK
<1>2. driver' = [driver EXCEPT ![e] = r]
  BY <1>1 DEF U!Goes
<1>3. r \in U!Drivers /\ r.at = place /\ r.early = driver[e].early
  BY <1>1 DEF U!Drivers
<1>. HIDE DEF r
<1>. QED
  BY <1>1, <1>2, <1>3 DEF Moves

LEMMA DispatchMoves ==
  ASSUME U!TypeOK, NEW e \in U!Numbers, U!Dispatch(e)
  PROVE  /\ Moves(e, "dispatched") /\ row' \in [U!Numbers -> U!Rows]
         /\ \A f \in U!Numbers : /\ CountsKept(f) /\ row'[f].turn = row[f].turn
                                 /\ row'[f].finished = row[f].finished /\ row'[f].requested = row[f].requested
                                 /\ row'[f].quality = (IF f = e THEN "unavailable" ELSE row[f].quality)
<1>1. Moves(e, "dispatched")
  BY GoingMoves DEF U!Dispatch, U!Places
<1>. DEFINE r == [row[e] EXCEPT !.quality = "unavailable", !.dispatched = TRUE]
<1>2. row' = [row EXCEPT ![e] = r] /\ row \in [U!Numbers -> U!Rows] /\ row[e] \in U!Rows
  BY DEF U!Dispatch, U!TypeOK
<1>3. /\ r \in U!Rows
      /\ r.thread = row[e].thread /\ r.fresh = row[e].fresh /\ r.baseline = row[e].baseline
      /\ r.continuous = row[e].continuous /\ r.cumulative = row[e].cumulative /\ r.delta = row[e].delta
      /\ r.turn = row[e].turn /\ r.finished = row[e].finished /\ r.requested = row[e].requested /\ r.quality = "unavailable"
  BY <1>2 DEF U!Rows
<1>. HIDE DEF r
<1>. QED
  BY <1>1, <1>2, <1>3 DEF CountsKept

LEMMA NotRequestedMoves ==
  ASSUME U!TypeOK, NEW e \in U!Numbers, U!NotRequested(e)
  PROVE  /\ Moves(e, "failed") /\ row' \in [U!Numbers -> U!Rows]
         /\ \A f \in U!Numbers : /\ CountsKept(f) /\ row'[f].turn = row[f].turn
                                 /\ row'[f].finished = row[f].finished /\ row'[f].requested = row[f].requested
                                 /\ row'[f].quality = (IF f = e THEN "not_used" ELSE row[f].quality)
<1>1. Moves(e, "failed")
  BY GoingMoves DEF U!NotRequested, U!Places
<1>. DEFINE r == [row[e] EXCEPT !.quality = "not_used", !.dispatched = FALSE]
<1>2. row' = [row EXCEPT ![e] = r] /\ row \in [U!Numbers -> U!Rows] /\ row[e] \in U!Rows
  BY DEF U!NotRequested, U!TypeOK
<1>3. /\ r \in U!Rows
      /\ r.thread = row[e].thread /\ r.fresh = row[e].fresh /\ r.baseline = row[e].baseline
      /\ r.continuous = row[e].continuous /\ r.cumulative = row[e].cumulative /\ r.delta = row[e].delta
      /\ r.turn = row[e].turn /\ r.finished = row[e].finished /\ r.requested = row[e].requested /\ r.quality = "not_used"
  BY <1>2 DEF U!Rows
<1>. HIDE DEF r
<1>. QED
  BY <1>1, <1>2, <1>3 DEF CountsKept

LEMMA RequestMoves ==
  ASSUME U!TypeOK, NEW e \in U!Numbers, U!Request(e)
  PROVE  /\ Moves(e, "asked") /\ row' \in [U!Numbers -> U!Rows]
         /\ \A f \in U!Numbers : /\ CountsKept(f) /\ row'[f].turn = row[f].turn
                                 /\ row'[f].finished = row[f].finished
                                 /\ row'[f].requested = (IF f = e THEN TRUE ELSE row[f].requested)
                                 /\ row'[f].quality = (IF f = e THEN "unavailable" ELSE row[f].quality)
<1>1. Moves(e, "asked")
  BY GoingMoves DEF U!Request, U!Places
<1>. DEFINE r == [row[e] EXCEPT !.requested = TRUE, !.quality = "unavailable"]
<1>2. row' = [row EXCEPT ![e] = r] /\ row \in [U!Numbers -> U!Rows] /\ row[e] \in U!Rows
  BY DEF U!Request, U!TypeOK
<1>3. /\ r \in U!Rows
      /\ r.thread = row[e].thread /\ r.fresh = row[e].fresh /\ r.baseline = row[e].baseline
      /\ r.continuous = row[e].continuous /\ r.cumulative = row[e].cumulative /\ r.delta = row[e].delta
      /\ r.turn = row[e].turn /\ r.finished = row[e].finished /\ r.requested = TRUE /\ r.quality = "unavailable"
  BY <1>2 DEF U!Rows
<1>. HIDE DEF r
<1>. QED
  BY <1>1, <1>2, <1>3 DEF CountsKept

LEMMA AcknowledgeMoves ==
  ASSUME U!TypeOK, NEW e \in U!Numbers, U!Acknowledge(e)
  PROVE  /\ Moves(e, "replaying") /\ row' \in [U!Numbers -> U!Rows]
         /\ \A f \in U!Numbers : /\ CountsKept(f) /\ row'[f].turn = (IF f = e THEN TRUE ELSE row[f].turn)
                                 /\ row'[f].finished = row[f].finished
                                 /\ row'[f].requested = (IF f = e THEN TRUE ELSE row[f].requested)
                                 /\ row'[f].quality = row[f].quality
<1>1. Moves(e, "replaying")
  BY GoingMoves DEF U!Acknowledge, U!Places
<1>. DEFINE r == [row[e] EXCEPT !.turn = TRUE, !.requested = TRUE]
<1>2. row' = [row EXCEPT ![e] = r] /\ row \in [U!Numbers -> U!Rows] /\ row[e] \in U!Rows
  BY DEF U!Acknowledge, U!TypeOK
<1>3. /\ r \in U!Rows
      /\ r.thread = row[e].thread /\ r.fresh = row[e].fresh /\ r.baseline = row[e].baseline
      /\ r.continuous = row[e].continuous /\ r.cumulative = row[e].cumulative /\ r.delta = row[e].delta
      /\ r.turn = TRUE /\ r.finished = row[e].finished /\ r.requested = TRUE /\ r.quality = row[e].quality
  BY <1>2 DEF U!Rows
<1>. HIDE DEF r
<1>. QED
  BY <1>1, <1>2, <1>3 DEF CountsKept

LEMMA SettleMoves ==
  ASSUME U!TypeOK, NEW e \in U!Numbers, U!Settle(e)
  PROVE  /\ Moves(e, "finished") /\ row' \in [U!Numbers -> U!Rows]
         /\ \A f \in U!Numbers : /\ CountsKept(f) /\ row'[f].turn = row[f].turn
                                 /\ row'[f].finished = (IF f = e THEN TRUE ELSE row[f].finished)
                                 /\ row'[f].requested = row[f].requested
                                 /\ row'[f].quality = "complete" => row[f].quality = "complete" \/ row[f].delta # Unknown
<1>1. Moves(e, "finished")
  BY GoingMoves DEF U!Settle, U!Places
<1>. DEFINE r == [row[e] EXCEPT !.finished = TRUE, !.quality = IF row[e].delta # Unknown THEN "complete" ELSE @]
<1>2. row' = [row EXCEPT ![e] = r] /\ row \in [U!Numbers -> U!Rows] /\ row[e] \in U!Rows
  BY DEF U!Settle, U!TypeOK
<1>3. /\ r \in U!Rows
      /\ r.thread = row[e].thread /\ r.fresh = row[e].fresh /\ r.baseline = row[e].baseline
      /\ r.continuous = row[e].continuous /\ r.cumulative = row[e].cumulative /\ r.delta = row[e].delta
      /\ r.turn = row[e].turn /\ r.finished = TRUE /\ r.requested = row[e].requested /\ r.quality = (IF row[e].delta # Unknown THEN "complete" ELSE row[e].quality)
  BY <1>2 DEF U!Rows
<1>. HIDE DEF r
<1>. QED
  BY <1>1, <1>2, <1>3 DEF CountsKept

\* The row that a turn attached before is the last one.
LastBefore(e, p) == p \in U!Prior(e) /\ \A d \in U!Prior(e) : d <= p

LEMMA AttachMoves ==
  ASSUME UsageAssumption, U!TypeOK, NEW e \in U!Numbers, U!Attach(e)
  PROVE  /\ Moves(e, "attached") /\ row' \in [U!Numbers -> U!Rows]
         /\ \A f \in U!Numbers : f # e => row'[f] = row[f]
         /\ row'[e].thread /\ row'[e].cumulative = row[e].cumulative /\ row'[e].delta = row[e].delta
         /\ row'[e].turn = row[e].turn /\ row'[e].finished = row[e].finished
         /\ row'[e].requested = row[e].requested /\ row'[e].quality = row[e].quality
         /\ \/ /\ U!Prior(e) = {} /\ row'[e].fresh /\ ~row'[e].continuous /\ row'[e].baseline = 0
            \/ /\ U!Prior(e) # {} /\ ~row'[e].fresh /\ ~row'[e].continuous /\ row'[e].baseline = Unknown
            \/ /\ ~row'[e].fresh /\ row'[e].continuous
               /\ codex.open = {} /\ codex.history = {d \in U!Prior(e) : row[d].turn}
               /\ \E p \in U!Numbers : /\ LastBefore(e, p) /\ row[p].finished /\ row[p].quality = "complete"
                                       /\ row[p].cumulative # Unknown /\ row'[e].baseline = row[p].cumulative
<1>. DEFINE Last == row[U!Max(U!Prior(e))]
<1>1. Moves(e, "attached")
  BY GoingMoves DEF U!Attach, U!Places
<1>2. PICK closed \in BOOLEAN :
        /\ closed => codex.open = {}
        /\ U!AttachThread(e, codex.history, closed)
  BY DEF U!Attach
<1>3. U!Prior(e) # {} => LastBefore(e, U!Max(U!Prior(e))) /\ U!Max(U!Prior(e)) \in U!Numbers
  <2>1. U!Prior(e) \in SUBSET (0..NumTurns) /\ U!Prior(e) \subseteq U!Numbers
    BY DEF U!Prior, U!Numbers, UsageAssumption
  <2>. QED
    BY <2>1, LargestExists DEF LastBefore, UsageAssumption
<1>. DEFINE cont == /\ U!Prior(e) # {} /\ closed /\ codex.history = {d \in U!Prior(e) : row[d].turn}
                    /\ Last.finished /\ Last.quality = "complete" /\ Last.cumulative # Unknown
            base == IF U!Prior(e) = {} THEN 0 ELSE IF cont THEN Last.cumulative ELSE Unknown
            r == [row[e] EXCEPT !.thread = TRUE, !.dispatched = FALSE, !.fresh = (U!Prior(e) = {}),
                                !.continuous = cont, !.baseline = base]
<1>4. row' = [row EXCEPT ![e] = r] /\ row \in [U!Numbers -> U!Rows] /\ row[e] \in U!Rows
  <2>1. row \in [U!Numbers -> U!Rows] /\ row[e] \in U!Rows
    BY DEF U!TypeOK
  <2>2. row' = [row EXCEPT ![e].thread = TRUE, ![e].dispatched = FALSE, ![e].fresh = (U!Prior(e) = {}),
                           ![e].continuous = cont, ![e].baseline = base]
    BY <1>2 DEF U!AttachThread
  <2>. HIDE DEF cont, base
  <2>. QED
    BY <2>1, <2>2
<1>5. base \in U!Counts /\ cont \in BOOLEAN
  <2>1. U!Prior(e) # {} => Last.cumulative \in U!Counts
    BY <1>3 DEF U!TypeOK, U!Rows
  <2>. QED
    BY <2>1 DEF U!Counts
<1>6. /\ r \in U!Rows
      /\ r.thread /\ r.cumulative = row[e].cumulative /\ r.delta = row[e].delta
      /\ r.turn = row[e].turn /\ r.finished = row[e].finished
      /\ r.requested = row[e].requested /\ r.quality = row[e].quality
      /\ r.fresh = (U!Prior(e) = {}) /\ r.continuous = cont /\ r.baseline = base
  <2>. HIDE DEF cont, base
  <2>. QED
    BY <1>4, <1>5 DEF U!Rows
<1>7. row'[e] = r /\ row' \in [U!Numbers -> U!Rows] /\ \A f \in U!Numbers : f # e => row'[f] = row[f]
  <2>. HIDE DEF r
  <2>. QED
    BY <1>4, <1>6
<1>8. CASE U!Prior(e) = {}
  BY <1>1, <1>6, <1>7, <1>8
<1>9. CASE U!Prior(e) # {} /\ ~cont
  BY <1>1, <1>6, <1>7, <1>9
<1>10. CASE cont
  <2>1. LastBefore(e, U!Max(U!Prior(e))) /\ U!Max(U!Prior(e)) \in U!Numbers
    BY <1>3, <1>10
  <2>2. codex.open = {}
    BY <1>2, <1>10
  <2>3. /\ codex.history = {d \in U!Prior(e) : row[d].turn}
        /\ Last.finished /\ Last.quality = "complete" /\ Last.cumulative # Unknown
    BY <1>10
  <2>4. base = Last.cumulative /\ U!Prior(e) # {}
    BY <1>10
  <2>5. row'[e].baseline = Last.cumulative /\ ~row'[e].fresh /\ row'[e].continuous
    BY <2>4, <1>6, <1>7, <1>10
  <2>. HIDE DEF cont, base, r
  <2>. QED
    BY <1>1, <1>6, <1>7, <2>1, <2>2, <2>3, <2>5
<1>. QED
  BY <1>8, <1>9, <1>10

LEMMA CountsDiffer ==
  ASSUME UsageAssumption, U!UsageInv, NEW d \in U!Numbers, NEW e \in U!Numbers, d < e,
         row[d].cumulative # Unknown, row[e].cumulative # Unknown
  PROVE  /\ row[d].cumulative \in Nat /\ row[e].cumulative \in Nat
         /\ row[d].cumulative < row[e].cumulative
<1>1. row[d].cumulative \in Nat /\ row[e].cumulative \in Nat /\ codex.mark[d] \in Nat /\ U!Start(e) \in Int
  BY DEF U!UsageInv, U!TypeOK, U!Rows, U!Counts, U!Start
<1>2. row[d].turn /\ row[e].turn
  BY DEF U!UsageInv, U!RunsInOrder, U!RowFollowsRun
<1>3. e \in codex.history
  BY <1>2 DEF U!UsageInv, U!CodexIsSound
<1>4. codex.mark[d] <= U!Start(e)
  BY <1>2, <1>3 DEF U!UsageInv, U!StretchesInOrder, U!Known
<1>5. row[d].cumulative <= codex.mark[d] /\ U!Start(e) < row[e].cumulative
  BY DEF U!UsageInv, U!StretchesInOrder
<1>. QED
  BY <1>1, <1>4, <1>5

LEMMA OneTurnBefore ==
  ASSUME UsageAssumption, NEW p \in U!Numbers, NEW q \in U!Numbers, NEW e \in U!Numbers,
         U!Follows(p, e), U!Follows(q, e)
  PROVE  p = q
BY DEF U!Follows, U!Numbers, UsageAssumption

\* The rows that took their baseline from a turn are those that follow it.
LEMMA FollowersTake ==
  ASSUME UsageAssumption, U!UsageInv, NEW e \in U!Numbers, NEW f \in U!Numbers,
         row[e].cumulative # Unknown, row[f].continuous
  PROVE  (f # e /\ row[f].baseline = row[e].cumulative) <=> U!Follows(e, f)
<1>1. PICK p \in U!Numbers : U!Follows(p, f) /\ row[p].cumulative # Unknown /\ row[f].baseline = row[p].cumulative
  BY DEF U!UsageInv, U!BaselinesAreSound
<1>2. ASSUME row[f].baseline = row[e].cumulative PROVE e = p
  <2>1. row[p].cumulative = row[e].cumulative
    BY <1>1, <1>2
  <2>2. ASSUME e < p PROVE FALSE
    <3>1. row[e].cumulative \in Nat /\ row[e].cumulative < row[p].cumulative
      BY <1>1, <2>2, CountsDiffer
    <3>. QED
      BY <2>1, <3>1
  <2>3. ASSUME p < e PROVE FALSE
    <3>1. row[p].cumulative \in Nat /\ row[p].cumulative < row[e].cumulative
      BY <1>1, <2>3, CountsDiffer
    <3>. QED
      BY <2>1, <3>1
  <2>. QED
    BY <2>2, <2>3 DEF U!Numbers, UsageAssumption
<1>3. ASSUME U!Follows(e, f) PROVE f # e /\ row[f].baseline = row[e].cumulative
  BY <1>1, <1>3, OneTurnBefore DEF U!Follows, U!Numbers
<1>. QED
  BY <1>1, <1>2, <1>3

LEMMA GrowthIsACount ==
  ASSUME NEW a \in U!Counts, NEW b \in U!Counts
  PROVE  U!Growth(a, b) \in U!Counts
BY DEF U!Growth, U!Counts

\* What a report does to the rows.
Reported(e, total) ==
    /\ row' \in [U!Numbers -> U!Rows]
    /\ \A f \in U!Numbers :
        /\ row'[f].thread = row[f].thread /\ row'[f].fresh = row[f].fresh /\ row'[f].continuous = row[f].continuous
        /\ row'[f].turn = row[f].turn /\ row'[f].finished = row[f].finished /\ row'[f].requested = row[f].requested
        /\ f # e => row'[f].cumulative = row[f].cumulative
        /\ row'[f].baseline = IF row[f].continuous /\ U!Follows(e, f) THEN row'[e].cumulative ELSE row[f].baseline
        /\ row'[f].delta = U!Growth(row'[f].cumulative, row'[f].baseline)
        /\ row'[f].quality = "complete" => row'[f].delta # Unknown
    /\ row'[e].cumulative \in Nat /\ total <= row'[e].cumulative /\ row'[e].cumulative <= codex.mark[e]
    /\ U!Start(e) < row'[e].cumulative

LEMMA ReportMovesRows ==
  ASSUME UsageAssumption, U!UsageInv, NEW e \in U!Numbers, NEW total \in Nat, row[e].turn,
         U!Start(e) < total, total <= codex.mark[e], row' = U!Usage(e, total)
  PROVE  Reported(e, total)
<1>1. /\ row \in [U!Numbers -> U!Rows] /\ \A f \in U!Numbers : row[f] \in U!Rows
      /\ codex.mark[e] \in Nat /\ U!Start(e) \in Int
  BY DEF U!UsageInv, U!TypeOK, U!Start
<1>2. \A f \in U!Numbers : /\ row[f].cumulative \in U!Counts /\ row[f].baseline \in U!Counts
                           /\ row[f].delta = U!Growth(row[f].cumulative, row[f].baseline)
                           /\ row[f].quality = "complete" => row[f].delta # Unknown
  BY <1>1 DEF U!UsageInv, U!RunsInOrder, U!RowFollowsRun, U!Rows
<1>3. CASE row[e].cumulative # Unknown /\ row[e].cumulative >= total
  <2>1. row' = row
    BY <1>3 DEF U!Usage
  <2>2. \A f \in U!Numbers : row[f].continuous /\ U!Follows(e, f) => row[f].baseline = row[e].cumulative
    BY <1>3, FollowersTake
  <2>3. row[e].cumulative \in Nat /\ row[e].cumulative <= codex.mark[e] /\ U!Start(e) < row[e].cumulative
    BY <1>2, <1>3 DEF U!Counts, U!UsageInv, U!StretchesInOrder
  <2>. QED
    BY <1>1, <1>2, <1>3, <2>1, <2>2, <2>3 DEF Reported
<1>4. CASE ~(row[e].cumulative # Unknown /\ row[e].cumulative >= total)
  <2>. DEFINE Takes(f) == /\ f # e /\ row[e].cumulative # Unknown
                          /\ row[f].continuous /\ row[f].baseline = row[e].cumulative
              own == U!Growth(total, row[e].baseline)
              ownRow == [row[e] EXCEPT !.cumulative = total, !.delta = own, !.quality = U!Quality(row[e], own)]
              theirs(f) == U!Growth(row[f].cumulative, total)
              theirRow(f) == [row[f] EXCEPT !.baseline = total, !.delta = theirs(f),
                                            !.quality = U!Quality(row[f], theirs(f))]
  <2>1. row' = U!Corrected(e, total)
    BY <1>4 DEF U!Usage
  <2>2. row' = [f \in U!Numbers |-> IF f = e THEN ownRow ELSE IF Takes(f) THEN theirRow(f) ELSE row[f]]
    BY <2>1 DEF U!Corrected, U!Observed
  <2>3. \A g : \A r : U!Quality(r, g) \in {"unavailable", "complete", "partial"}
                      /\ (U!Quality(r, g) = "complete" => g # Unknown)
    BY DEF U!Quality
  <2>4. total \in U!Counts /\ own \in U!Counts /\ \A f \in U!Numbers : theirs(f) \in U!Counts
    BY <1>2, GrowthIsACount DEF U!Counts
  <2>5. /\ ownRow \in U!Rows
        /\ ownRow.thread = row[e].thread /\ ownRow.fresh = row[e].fresh /\ ownRow.continuous = row[e].continuous
        /\ ownRow.turn = row[e].turn /\ ownRow.finished = row[e].finished /\ ownRow.requested = row[e].requested
        /\ ownRow.cumulative = total /\ ownRow.baseline = row[e].baseline /\ ownRow.delta = own
        /\ ownRow.quality = "complete" => own # Unknown
    <3>. DEFINE q == U!Quality(row[e], own)
    <3>1. q \in {"unavailable", "complete", "partial"} /\ (q = "complete" => own # Unknown)
      BY <2>3
    <3>. HIDE DEF q, own
    <3>. QED
      BY <1>1, <2>4, <3>1 DEF U!Rows, q
  <2>6. ASSUME NEW f \in U!Numbers
        PROVE  /\ theirRow(f) \in U!Rows
               /\ theirRow(f).thread = row[f].thread /\ theirRow(f).fresh = row[f].fresh
               /\ theirRow(f).continuous = row[f].continuous
               /\ theirRow(f).turn = row[f].turn /\ theirRow(f).finished = row[f].finished
               /\ theirRow(f).requested = row[f].requested
               /\ theirRow(f).cumulative = row[f].cumulative /\ theirRow(f).baseline = total
               /\ theirRow(f).delta = theirs(f)
               /\ theirRow(f).quality = "complete" => theirs(f) # Unknown
    <3>. DEFINE g == theirs(f)
                q == U!Quality(row[f], g)
    <3>1. q \in {"unavailable", "complete", "partial"} /\ (q = "complete" => g # Unknown)
      BY <2>3
    <3>2. g \in U!Counts
      BY <2>4
    <3>. HIDE DEF q, theirs
    <3>. QED
      BY <1>1, <2>4, <3>1, <3>2 DEF U!Rows, q
  <2>7. \A f \in U!Numbers : Takes(f) <=> (row[f].continuous /\ U!Follows(e, f))
    <3>1. CASE row[e].cumulative # Unknown
      BY <3>1, FollowersTake
    <3>2. CASE row[e].cumulative = Unknown
      <4>1. ASSUME NEW f \in U!Numbers, row[f].continuous, U!Follows(e, f) PROVE FALSE
        <5>1. PICK p \in U!Numbers : U!Follows(p, f) /\ row[p].cumulative # Unknown
          BY <4>1 DEF U!UsageInv, U!BaselinesAreSound
        <5>. QED
          BY <3>2, <4>1, <5>1, OneTurnBefore
      <4>. QED
        BY <3>2, <4>1
    <3>. QED
      BY <3>1, <3>2
  <2>8. ~U!Follows(e, e)
    BY DEF U!Follows, U!Numbers
  <2>9. row'[e] = ownRow /\ \A f \in U!Numbers : f # e => row'[f] = IF Takes(f) THEN theirRow(f) ELSE row[f]
    <3>. HIDE DEF Takes, ownRow, theirRow
    <3>. QED
      BY <2>2
  <2>10. row' \in [U!Numbers -> U!Rows]
    <3>. HIDE DEF Takes, ownRow, theirRow
    <3>. QED
      BY <1>1, <2>2, <2>5, <2>6
  <2>. HIDE DEF Takes, own, ownRow, theirs, theirRow
  <2>11. row'[e].cumulative = total /\ own = U!Growth(total, row[e].baseline)
    BY <2>5, <2>9 DEF own
  <2>12. ASSUME NEW f \in U!Numbers
         PROVE  /\ row'[f].thread = row[f].thread /\ row'[f].fresh = row[f].fresh
                /\ row'[f].continuous = row[f].continuous
                /\ row'[f].turn = row[f].turn /\ row'[f].finished = row[f].finished
                /\ row'[f].requested = row[f].requested
                /\ f # e => row'[f].cumulative = row[f].cumulative
                /\ row'[f].baseline = IF row[f].continuous /\ U!Follows(e, f) THEN row'[e].cumulative ELSE row[f].baseline
                /\ row'[f].delta = U!Growth(row'[f].cumulative, row'[f].baseline)
                /\ row'[f].quality = "complete" => row'[f].delta # Unknown
    <3>1. CASE f = e
      <4>1. row'[e] = ownRow /\ row'[e].baseline = row[e].baseline /\ row'[e].delta = own
        BY <2>5, <2>9
      <4>2. row'[e].delta = U!Growth(row'[e].cumulative, row'[e].baseline)
        BY <2>11, <4>1
      <4>3. row'[e].quality = "complete" => row'[e].delta # Unknown
        BY <2>5, <4>1
      <4>4. /\ row'[e].thread = row[e].thread /\ row'[e].fresh = row[e].fresh
            /\ row'[e].continuous = row[e].continuous
            /\ row'[e].turn = row[e].turn /\ row'[e].finished = row[e].finished
            /\ row'[e].requested = row[e].requested
        BY <2>5, <4>1
      <4>. QED
        BY <2>8, <3>1, <4>1, <4>2, <4>3, <4>4
    <3>2. CASE f # e /\ Takes(f)
      <4>1. theirs(f) = U!Growth(row[f].cumulative, total)
        BY DEF theirs
      <4>2. row'[f] = theirRow(f)
        BY <2>9, <3>2
      <4>. QED
        BY <2>6, <2>7, <2>11, <3>2, <4>1, <4>2
    <3>3. CASE f # e /\ ~Takes(f)
      <4>1. row'[f] = row[f]
        BY <2>9, <3>3
      <4>. QED
        BY <1>2, <2>7, <3>3, <4>1
    <3>. QED
      BY <3>1, <3>2, <3>3
  <2>. QED
    BY <2>10, <2>11, <2>12 DEF Reported
<1>. QED
  BY <1>3, <1>4

LEMMA ReportMovesSnapshots ==
  ASSUME UsageAssumption, U!UsageInv, NEW e \in U!Numbers, NEW total \in Nat, row[e].turn,
         U!Start(e) < total, total <= codex.mark[e], snapshot' = U!Snapshot(e, total)
  PROVE  /\ snapshot' \in [U!Numbers -> [base : U!Counts, total : U!Counts]]
         /\ \A f \in U!Numbers :
               /\ snapshot'[f].total # Unknown => /\ row[f].turn /\ U!Start(f) < snapshot'[f].total
                                                  /\ snapshot'[f].total <= codex.mark[f]
               /\ snapshot'[f].base # Unknown => snapshot'[f].total # Unknown
         /\ U!SnapshotsInOrder'
<1>. DEFINE seen == {snapshot[d].total : d \in {d \in U!Numbers : snapshot[d].total # Unknown}}
            base == IF snapshot[e].total # Unknown THEN snapshot[e].base
                    ELSE IF seen # {} THEN U!Max(seen)
                    ELSE IF row[e].fresh THEN 0 ELSE Unknown
<1>1. /\ snapshot \in [U!Numbers -> [base : U!Counts, total : U!Counts]]
      /\ codex.total \in Nat /\ codex.mark \in [U!Numbers -> Nat] /\ \A f \in U!Numbers : U!Start(f) \in Int
  BY DEF U!UsageInv, U!TypeOK, U!Start
<1>2. \A f \in U!Numbers :
         /\ snapshot[f].total # Unknown => /\ row[f].turn /\ U!Start(f) < snapshot[f].total
                                           /\ snapshot[f].total <= codex.mark[f]
         /\ snapshot[f].base # Unknown => snapshot[f].total # Unknown
         /\ codex.mark[f] <= codex.total
  BY DEF U!UsageInv, U!StretchesInOrder, U!CodexIsSound
<1>3. U!SnapshotsInOrder
  BY DEF U!UsageInv
<1>4. CASE \E t \in seen : t > total
  <2>1. snapshot' = snapshot
    BY <1>4 DEF U!Snapshot
  <2>. QED
    BY <1>1, <1>2, <1>3, <2>1 DEF U!SnapshotsInOrder
<1>5. CASE \A t \in seen : ~(t > total)
  <2>1. snapshot' = [snapshot EXCEPT ![e] = [base |-> base, total |-> total]]
    BY <1>5 DEF U!Snapshot
  <2>2. seen # {} => U!Max(seen) \in Nat /\ \A t \in seen : t <= U!Max(seen)
    <3>1. seen \in SUBSET (0..codex.total)
      <4>1. ASSUME NEW d \in U!Numbers, snapshot[d].total # Unknown PROVE snapshot[d].total \in 0..codex.total
        <5>1. snapshot[d].total \in Nat /\ codex.mark[d] \in Nat
          BY <1>1, <4>1 DEF U!Counts
        <5>. QED
          BY <1>1, <1>2, <4>1, <5>1
      <4>. QED
        BY <4>1
    <3>2. codex.total \in Nat /\ \A x \in 0..codex.total : x \in Nat
      BY <1>1
    <3>. HIDE DEF seen
    <3>3. ASSUME seen # {} PROVE U!Max(seen) \in seen /\ \A t \in seen : t <= U!Max(seen)
      BY <3>1, <3>2, <3>3, LargestExists
    <3>. QED
      BY <3>1, <3>2, <3>3
  <2>3. base \in U!Counts
    BY <1>1, <2>2 DEF U!Counts
  <2>4. \A f \in U!Numbers : snapshot[f].total # Unknown =>
            snapshot[f].total \in Nat /\ snapshot[f].total \in seen /\ snapshot[f].total <= total
    <3>1. ASSUME NEW f \in U!Numbers, snapshot[f].total # Unknown
          PROVE  snapshot[f].total \in Nat /\ snapshot[f].total \in seen
      BY <1>1, <3>1 DEF U!Counts
    <3>. HIDE DEF seen
    <3>. QED
      BY <1>5, <3>1
  <2>5. \A d \in U!Numbers : d # e /\ snapshot[d].total # Unknown /\ snapshot[e].total = Unknown =>
            base \in Nat /\ snapshot[d].total <= base
    BY <2>2, <2>4
  <2>6. snapshot[e].total # Unknown => base = snapshot[e].base
    OBVIOUS
  <2>. HIDE DEF base, seen
  <2>7. /\ snapshot' \in [U!Numbers -> [base : U!Counts, total : U!Counts]]
        /\ snapshot'[e].base = base /\ snapshot'[e].total = total /\ total # Unknown
        /\ \A f \in U!Numbers : f # e => snapshot'[f] = snapshot[f]
    BY <1>1, <2>1, <2>3 DEF U!Counts, UsageAssumption
  <2>8. ASSUME NEW d \in U!Numbers, NEW f \in U!Numbers, d < f,
               snapshot'[d].total # Unknown, snapshot'[f].base # Unknown
        PROVE  snapshot'[d].total <= snapshot'[f].base
    <3>1. CASE f = e
      <4>1. d # e /\ snapshot'[d] = snapshot[d]
        BY <2>7, <2>8, <3>1 DEF U!Numbers
      <4>2. CASE snapshot[e].total # Unknown
        BY <1>3, <2>6, <2>7, <2>8, <3>1, <4>1, <4>2 DEF U!SnapshotsInOrder
      <4>3. CASE snapshot[e].total = Unknown
        BY <2>5, <2>7, <2>8, <3>1, <4>1, <4>3
      <4>. QED
        BY <4>2, <4>3
    <3>2. CASE d = e
      <4>1. f # e /\ snapshot[f].base # Unknown
        BY <2>7, <2>8, <3>2 DEF U!Numbers
      <4>2. snapshot[f].total # Unknown /\ row[f].turn /\ U!Start(f) < snapshot[f].total
        BY <1>2, <4>1
      <4>3. f \in codex.history
        BY <4>2 DEF U!UsageInv, U!CodexIsSound
      <4>4. codex.mark[e] <= U!Start(f)
        BY <2>8, <3>2, <4>3 DEF U!UsageInv, U!StretchesInOrder, U!Known
      <4>5. snapshot[f].total \in Nat /\ snapshot[f].total <= total /\ codex.mark[e] \in Nat
        BY <1>1, <2>4, <4>2
      <4>. QED
        BY <1>1, <4>2, <4>4, <4>5
    <3>3. CASE d # e /\ f # e
      BY <1>3, <2>7, <2>8, <3>3 DEF U!SnapshotsInOrder
    <3>. QED
      BY <3>1, <3>2, <3>3
  <2>9. U!SnapshotsInOrder'
    BY <2>8 DEF U!SnapshotsInOrder
  <2>. QED
    BY <1>2, <2>7, <2>9
<1>. QED
  BY <1>4, <1>5

\* What each part of the invariant rests on: a step that leaves it alone keeps the part.
CodexKept ==
    /\ codex'.total = codex.total /\ codex'.spent = codex.spent /\ codex'.mark = codex.mark
    /\ codex'.history = codex.history

LEMMA ReportsAreLines ==
  ASSUME U!TypeOK
  PROVE  /\ U!Elements(wire) \subseteq U!Lines
         /\ \A e \in U!Numbers : U!Elements(driver[e].early) \subseteq U!Lines
         /\ \A m \in U!Pending : m \in U!Lines /\ m.turn \in U!Numbers /\ m.total \in Nat
<1>1. U!Elements(wire) \subseteq U!Lines
  BY ElementsOfASequence DEF U!TypeOK
<1>2. ASSUME NEW e \in U!Numbers PROVE U!Elements(driver[e].early) \subseteq U!Lines
  <2>1. driver[e].early \in Seq(U!Lines)
    BY DEF U!TypeOK, U!Drivers
  <2>. QED
    BY <2>1, ElementsOfASequence
<1>3. \A m \in U!Pending : m \in U!Lines
  BY <1>1, <1>2 DEF U!Pending
<1>. QED
  BY <1>1, <1>2, <1>3 DEF U!Lines

LEMMA CodexPartKept ==
  ASSUME UsageAssumption, U!UsageInv, U!TypeOK', CodexKept,
         codex'.open \subseteq codex.open, codex'.owed \subseteq codex.owed,
         codex'.asked \intersect codex.history = {},
         \A t \in U!Numbers : t \in codex'.asked \union codex.history =>
            row'[t].thread /\ row'[t].requested /\ driver'[t].at \notin {"idle", "dispatched", "attached"},
         \A t \in U!Numbers : row'[t].turn \/ driver'[t].at = "answered" => t \in codex.history,
         U!Elements(wire)' \subseteq U!Elements(wire), U!Pending' \subseteq U!Pending
  PROVE  U!CodexIsSound'
<1>1. \A t \in U!Numbers : U!Start(t)' = U!Start(t)
  BY DEF U!Start, CodexKept
<1>2. \A m \in U!Pending : m.turn \in U!Numbers
  BY ReportsAreLines DEF U!UsageInv
<1>. QED
  BY <1>1, <1>2 DEF U!CodexIsSound, U!UsageInv, CodexKept

LEMMA StretchesKept ==
  ASSUME UsageAssumption, U!UsageInv, CodexKept, codex'.open \subseteq codex.open, snapshot' = snapshot,
         \A f \in U!Numbers : row'[f].cumulative = row[f].cumulative /\ (row[f].turn => row'[f].turn),
         \A d \in U!Numbers : U!Known(d)' => U!Known(d) \/ \A e \in U!Numbers : d < e => e \notin codex.history
  PROVE  U!StretchesInOrder' /\ U!SnapshotsInOrder'
<1>1. \A t \in U!Numbers : U!Start(t)' = U!Start(t)
  BY DEF U!Start, CodexKept
<1>. QED
  BY <1>1 DEF U!StretchesInOrder, U!SnapshotsInOrder, U!UsageInv, CodexKept

LEMMA FollowsKept ==
  ASSUME \A f \in U!Numbers : row'[f].thread = row[f].thread, NEW p \in U!Numbers, NEW e \in U!Numbers
  PROVE  U!Follows(p, e)' <=> U!Follows(p, e)
BY DEF U!Follows

LEMMA BaselinesKept ==
  ASSUME UsageAssumption, U!UsageInv,
         \A f \in U!Numbers : CountsKept(f) /\ (row[f].finished => row'[f].finished)
  PROVE  U!BaselinesAreSound'
<1>1. \A p, e \in U!Numbers : U!Follows(p, e)' <=> U!Follows(p, e)
  BY FollowsKept DEF CountsKept
<1>. QED
  BY <1>1 DEF U!BaselinesAreSound, U!UsageInv, CountsKept

LEMMA StartsKept ==
  ASSUME UsageAssumption, U!UsageInv, CodexKept, codex'.open \subseteq codex.open, missed \subseteq missed',
         \A f \in U!Numbers : /\ row'[f].thread = row[f].thread /\ row'[f].fresh = row[f].fresh
                              /\ row'[f].continuous = row[f].continuous,
         \A f \in U!Numbers : U!Awaits(f)' => U!Awaits(f) /\ codex'.asked \subseteq codex.asked \union {f},
         \A f \in U!Numbers : U!Known(f)' /\ f \in codex.history => U!Known(f)
  PROVE  U!StartsAreSound'
<1>1. \A t \in U!Numbers : U!Start(t)' = U!Start(t)
  BY DEF U!Start, CodexKept
<1>2. \A p, e \in U!Numbers : U!Follows(p, e)' <=> U!Follows(p, e)
  BY FollowsKept
<1>. QED
  BY <1>1, <1>2 DEF U!StartsAreSound, U!UsageInv, CodexKept

LEMMA TrackingKept ==
  ASSUME UsageAssumption, U!UsageInv, CodexKept, missed \subseteq missed',
         codex.owed \subseteq codex'.owed \union missed',
         \A f \in U!Numbers : row'[f].cumulative = row[f].cumulative,
         \A m \in U!Pending : m \in U!Pending' \/ m.turn \in missed'
  PROVE  U!ReportsAreTracked'
BY DEF U!ReportsAreTracked, U!UsageInv, CodexKept

LEMMA ReportsStay ==
  ASSUME wire' = wire, \A f \in U!Numbers : driver'[f].early = driver[f].early
  PROVE  U!Pending' = U!Pending /\ U!Elements(wire)' = U!Elements(wire)
BY DEF U!Pending, U!Elements

\* A step that keeps the counts, the provider and its lines keeps the rest, when rows go with their runs.
LEMMA CountsAreKept ==
  ASSUME UsageAssumption, U!UsageInv, U!TypeOK', U!RunsInOrder', codex' = codex, snapshot' = snapshot,
         wire' = wire, missed' = missed,
         \A f \in U!Numbers :
            /\ CountsKept(f) /\ driver'[f].early = driver[f].early
            /\ (row[f].turn => row'[f].turn) /\ (row[f].finished => row'[f].finished)
            /\ (row[f].requested => row'[f].requested)
            /\ (U!Known(f)' => U!Known(f)) /\ (U!Awaits(f)' => U!Awaits(f))
            /\ driver[f].at \notin {"idle", "dispatched", "attached"} =>
                  driver'[f].at \notin {"idle", "dispatched", "attached"}
            /\ row'[f].turn \/ driver'[f].at = "answered" => row[f].turn \/ driver[f].at = "answered"
            /\ f \in codex.asked \union codex.history => driver[f].at \notin {"idle", "dispatched", "attached"}
  PROVE  U!UsageInv'
<1>1. /\ CodexKept /\ U!Pending' = U!Pending /\ U!Elements(wire)' = U!Elements(wire)
      /\ codex'.open = codex.open /\ codex'.owed = codex.owed /\ codex'.asked = codex.asked
  BY ReportsStay DEF CodexKept
<1>2. U!CodexIsSound'
  <2>1. \A t \in U!Numbers : t \in codex.asked \union codex.history =>
            row'[t].thread /\ row'[t].requested /\ driver'[t].at \notin {"idle", "dispatched", "attached"}
    BY DEF U!CodexIsSound, CountsKept, U!UsageInv
  <2>2. \A t \in U!Numbers : row'[t].turn \/ driver'[t].at = "answered" => t \in codex.history
    BY DEF U!CodexIsSound, U!UsageInv
  <2>3. codex.asked \intersect codex.history = {}
    BY DEF U!CodexIsSound, U!UsageInv
  <2>. QED
    BY <1>1, <2>1, <2>2, <2>3, CodexPartKept
<1>3. U!StretchesInOrder' /\ U!SnapshotsInOrder'
  BY <1>1, StretchesKept DEF CountsKept
<1>4. U!BaselinesAreSound'
  BY BaselinesKept
<1>5. U!StartsAreSound'
  BY <1>1, StartsKept DEF CountsKept
<1>6. U!ReportsAreTracked'
  BY <1>1, TrackingKept DEF CountsKept
<1>. QED
  BY <1>2, <1>3, <1>4, <1>5, <1>6 DEF U!UsageInv

LEMMA DispatchKeeps ==
  ASSUME UsageAssumption, U!UsageInv, NEW e \in U!Numbers, U!Dispatch(e)
  PROVE  U!UsageInv'
<1>1. /\ codex' = codex /\ snapshot' = snapshot /\ wire' = wire /\ missed' = missed
      /\ handlers' = handlers /\ driver[e].at = "idle" /\ \A d \in U!Numbers : d < e => driver[d].at \in U!Over
  BY DEF U!Dispatch, U!Numbers, UsageAssumption
<1>2. /\ Moves(e, "dispatched") /\ row' \in [U!Numbers -> U!Rows]
      /\ \A f \in U!Numbers : /\ CountsKept(f) /\ row'[f].turn = row[f].turn
                              /\ row'[f].finished = row[f].finished /\ row'[f].requested = row[f].requested
                              /\ row'[f].quality = (IF f = e THEN "unavailable" ELSE row[f].quality)
  BY DispatchMoves DEF U!UsageInv
<1>3. U!TypeOK'
  BY <1>1, <1>2 DEF U!TypeOK, Moves, U!UsageInv
<1>4. \A f \in U!Numbers : /\ U!RowFollowsRun(f)
                          /\ \A d \in U!Numbers : d < f /\ driver[f].at # "idle" => driver[d].at \in U!Over
  BY DEF U!RunsInOrder, U!UsageInv
<1>5. U!RunsInOrder'
  <2>1. ASSUME NEW f \in U!Numbers PROVE U!RowFollowsRun(f)'
    <3>1. CASE f = e
      <4>1. /\ U!RowFollowsRun(f) /\ CountsKept(f) /\ driver[f].at = "idle" /\ driver'[f].at = "dispatched"
            /\ row'[f].turn = row[f].turn /\ row'[f].finished = row[f].finished /\ row'[f].quality = "unavailable"
            /\ handlers' = handlers
        BY <1>1, <1>2, <1>4, <3>1 DEF Moves
      <4>. QED
        BY ONLY <4>1 DEF U!RowFollowsRun, CountsKept
    <3>2. CASE f # e
      <4>1. /\ row'[f].turn = row[f].turn /\ row'[f].finished = row[f].finished
            /\ row'[f].quality = "complete" => row[f].delta # Unknown
            /\ driver'[f].at = driver[f].at /\ (f \in handlers' => f \in handlers)
        BY <1>1, <1>2, <1>4, <3>2 DEF U!RowFollowsRun, Moves
      <4>2. CountsKept(f) /\ U!RowFollowsRun(f)
        BY <1>2, <1>4
      <4>. QED
        BY ONLY <4>1, <4>2 DEF U!RowFollowsRun, CountsKept
    <3>. QED
      BY <3>1, <3>2
  <2>2. ASSUME NEW f \in U!Numbers, driver'[f].at # "idle", NEW d \in U!Numbers, d < f
        PROVE  driver'[d].at \in U!Over
    BY <1>1, <1>2, <1>4, <2>2 DEF Moves, U!Over, U!Numbers, UsageAssumption
  <2>. QED
    BY <2>1, <2>2 DEF U!RunsInOrder
<1>6. \A f \in U!Numbers : f \in codex.asked \union codex.history => driver[f].at \notin {"idle", "dispatched", "attached"}
  BY DEF U!UsageInv, U!CodexIsSound
<1>. QED
  BY <1>1, <1>2, <1>3, <1>5, <1>6, CountsAreKept DEF Moves, U!Known, U!Awaits

LEMMA NotRequestedKeeps ==
  ASSUME UsageAssumption, U!UsageInv, NEW e \in U!Numbers, U!NotRequested(e)
  PROVE  U!UsageInv'
<1>1. /\ codex' = codex /\ snapshot' = snapshot /\ wire' = wire /\ missed' = missed
      /\ handlers' = handlers /\ driver[e].at \in {"dispatched", "attached"}
  BY DEF U!NotRequested, U!Numbers, UsageAssumption
<1>2. /\ Moves(e, "failed") /\ row' \in [U!Numbers -> U!Rows]
      /\ \A f \in U!Numbers : /\ CountsKept(f) /\ row'[f].turn = row[f].turn
                              /\ row'[f].finished = row[f].finished /\ row'[f].requested = row[f].requested
                              /\ row'[f].quality = (IF f = e THEN "not_used" ELSE row[f].quality)
  BY NotRequestedMoves DEF U!UsageInv
<1>3. U!TypeOK'
  BY <1>1, <1>2 DEF U!TypeOK, Moves, U!UsageInv
<1>4. \A f \in U!Numbers : /\ U!RowFollowsRun(f)
                          /\ \A d \in U!Numbers : d < f /\ driver[f].at # "idle" => driver[d].at \in U!Over
  BY DEF U!RunsInOrder, U!UsageInv
<1>5. U!RunsInOrder'
  <2>1. ASSUME NEW f \in U!Numbers PROVE U!RowFollowsRun(f)'
    <3>1. CASE f = e
      <4>1. /\ U!RowFollowsRun(f) /\ CountsKept(f) /\ driver[f].at \in {"dispatched", "attached"} /\ driver'[f].at = "failed"
            /\ row'[f].turn = row[f].turn /\ row'[f].finished = row[f].finished /\ row'[f].quality = "not_used"
            /\ handlers' = handlers
        BY <1>1, <1>2, <1>4, <3>1 DEF Moves
      <4>. QED
        BY ONLY <4>1 DEF U!RowFollowsRun, CountsKept
    <3>2. CASE f # e
      <4>1. /\ row'[f].turn = row[f].turn /\ row'[f].finished = row[f].finished
            /\ row'[f].quality = "complete" => row[f].delta # Unknown
            /\ driver'[f].at = driver[f].at /\ (f \in handlers' => f \in handlers)
        BY <1>1, <1>2, <1>4, <3>2 DEF U!RowFollowsRun, Moves
      <4>2. CountsKept(f) /\ U!RowFollowsRun(f)
        BY <1>2, <1>4
      <4>. QED
        BY ONLY <4>1, <4>2 DEF U!RowFollowsRun, CountsKept
    <3>. QED
      BY <3>1, <3>2
  <2>2. ASSUME NEW f \in U!Numbers, driver'[f].at # "idle", NEW d \in U!Numbers, d < f
        PROVE  driver'[d].at \in U!Over
    BY <1>1, <1>2, <1>4, <2>2 DEF Moves, U!Over, U!Numbers, UsageAssumption
  <2>. QED
    BY <2>1, <2>2 DEF U!RunsInOrder
<1>6. \A f \in U!Numbers : f \in codex.asked \union codex.history => driver[f].at \notin {"idle", "dispatched", "attached"}
  BY DEF U!UsageInv, U!CodexIsSound
<1>. QED
  BY <1>1, <1>2, <1>3, <1>5, <1>6, CountsAreKept DEF Moves, U!Known, U!Awaits

LEMMA AcknowledgeKeeps ==
  ASSUME UsageAssumption, U!UsageInv, NEW e \in U!Numbers, U!Acknowledge(e)
  PROVE  U!UsageInv'
<1>1. /\ codex' = codex /\ snapshot' = snapshot /\ wire' = wire /\ missed' = missed
      /\ handlers' = handlers /\ driver[e].at = "answered"
  BY DEF U!Acknowledge, U!Numbers, UsageAssumption
<1>2. /\ Moves(e, "replaying") /\ row' \in [U!Numbers -> U!Rows]
      /\ \A f \in U!Numbers : /\ CountsKept(f) /\ row'[f].turn = (IF f = e THEN TRUE ELSE row[f].turn)
                              /\ row'[f].finished = row[f].finished /\ row'[f].requested = (IF f = e THEN TRUE ELSE row[f].requested)
                              /\ row'[f].quality = row[f].quality
  BY AcknowledgeMoves DEF U!UsageInv
<1>3. U!TypeOK'
  BY <1>1, <1>2 DEF U!TypeOK, Moves, U!UsageInv
<1>4. \A f \in U!Numbers : /\ U!RowFollowsRun(f)
                          /\ \A d \in U!Numbers : d < f /\ driver[f].at # "idle" => driver[d].at \in U!Over
  BY DEF U!RunsInOrder, U!UsageInv
<1>5. U!RunsInOrder'
  <2>1. ASSUME NEW f \in U!Numbers PROVE U!RowFollowsRun(f)'
    <3>1. CASE f = e
      <4>1. /\ U!RowFollowsRun(f) /\ CountsKept(f) /\ driver[f].at = "answered" /\ driver'[f].at = "replaying"
            /\ row'[f].turn = TRUE /\ row'[f].finished = row[f].finished /\ row'[f].quality = row[f].quality
            /\ handlers' = handlers
        BY <1>1, <1>2, <1>4, <3>1 DEF Moves
      <4>. QED
        BY ONLY <4>1 DEF U!RowFollowsRun, CountsKept
    <3>2. CASE f # e
      <4>1. /\ row'[f].turn = row[f].turn /\ row'[f].finished = row[f].finished
            /\ row'[f].quality = "complete" => row[f].delta # Unknown
            /\ driver'[f].at = driver[f].at /\ (f \in handlers' => f \in handlers)
        BY <1>1, <1>2, <1>4, <3>2 DEF U!RowFollowsRun, Moves
      <4>2. CountsKept(f) /\ U!RowFollowsRun(f)
        BY <1>2, <1>4
      <4>. QED
        BY ONLY <4>1, <4>2 DEF U!RowFollowsRun, CountsKept
    <3>. QED
      BY <3>1, <3>2
  <2>2. ASSUME NEW f \in U!Numbers, driver'[f].at # "idle", NEW d \in U!Numbers, d < f
        PROVE  driver'[d].at \in U!Over
    BY <1>1, <1>2, <1>4, <2>2 DEF Moves, U!Over, U!Numbers, UsageAssumption
  <2>. QED
    BY <2>1, <2>2 DEF U!RunsInOrder
<1>6. \A f \in U!Numbers : f \in codex.asked \union codex.history => driver[f].at \notin {"idle", "dispatched", "attached"}
  BY DEF U!UsageInv, U!CodexIsSound
<1>. QED
  BY <1>1, <1>2, <1>3, <1>5, <1>6, CountsAreKept DEF Moves, U!Known, U!Awaits

LEMMA SettleKeeps ==
  ASSUME UsageAssumption, U!UsageInv, NEW e \in U!Numbers, U!Settle(e)
  PROVE  U!UsageInv'
<1>1. /\ codex' = codex /\ snapshot' = snapshot /\ wire' = wire /\ missed' = missed
      /\ handlers' = handlers \union {e} /\ driver[e].at = "running"
  BY DEF U!Settle, U!Numbers, UsageAssumption
<1>2. /\ Moves(e, "finished") /\ row' \in [U!Numbers -> U!Rows]
      /\ \A f \in U!Numbers : /\ CountsKept(f) /\ row'[f].turn = row[f].turn
                              /\ row'[f].finished = (IF f = e THEN TRUE ELSE row[f].finished) /\ row'[f].requested = row[f].requested
                              /\ row'[f].quality = "complete" => row[f].quality = "complete" \/ row[f].delta # Unknown
  BY SettleMoves DEF U!UsageInv
<1>3. U!TypeOK'
  BY <1>1, <1>2 DEF U!TypeOK, Moves, U!UsageInv
<1>4. \A f \in U!Numbers : /\ U!RowFollowsRun(f)
                          /\ \A d \in U!Numbers : d < f /\ driver[f].at # "idle" => driver[d].at \in U!Over
  BY DEF U!RunsInOrder, U!UsageInv
<1>5. U!RunsInOrder'
  <2>1. ASSUME NEW f \in U!Numbers PROVE U!RowFollowsRun(f)'
    <3>1. CASE f = e
      <4>1. /\ U!RowFollowsRun(f) /\ CountsKept(f) /\ driver[f].at = "running" /\ driver'[f].at = "finished"
            /\ row'[f].turn = row[f].turn /\ row'[f].finished = TRUE /\ (row'[f].quality = "complete" => row[f].quality = "complete" \/ row[f].delta # Unknown)
            /\ handlers' = handlers \union {e}
        BY <1>1, <1>2, <1>4, <3>1 DEF Moves
      <4>. QED
        BY ONLY <4>1 DEF U!RowFollowsRun, CountsKept
    <3>2. CASE f # e
      <4>1. /\ row'[f].turn = row[f].turn /\ row'[f].finished = row[f].finished
            /\ row'[f].quality = "complete" => row[f].delta # Unknown
            /\ driver'[f].at = driver[f].at /\ (f \in handlers' => f \in handlers)
        BY <1>1, <1>2, <1>4, <3>2 DEF U!RowFollowsRun, Moves
      <4>2. CountsKept(f) /\ U!RowFollowsRun(f)
        BY <1>2, <1>4
      <4>. QED
        BY ONLY <4>1, <4>2 DEF U!RowFollowsRun, CountsKept
    <3>. QED
      BY <3>1, <3>2
  <2>2. ASSUME NEW f \in U!Numbers, driver'[f].at # "idle", NEW d \in U!Numbers, d < f
        PROVE  driver'[d].at \in U!Over
    BY <1>1, <1>2, <1>4, <2>2 DEF Moves, U!Over, U!Numbers, UsageAssumption
  <2>. QED
    BY <2>1, <2>2 DEF U!RunsInOrder
<1>6. \A f \in U!Numbers : f \in codex.asked \union codex.history => driver[f].at \notin {"idle", "dispatched", "attached"}
  BY DEF U!UsageInv, U!CodexIsSound
<1>. QED
  BY <1>1, <1>2, <1>3, <1>5, <1>6, CountsAreKept DEF Moves, U!Known, U!Awaits

\* The rows before one that is attached do not change, and the later ones have not begun.
LEMMA AttachKeeps ==
  ASSUME UsageAssumption, U!UsageInv, NEW e \in U!Numbers, U!Attach(e)
  PROVE  U!UsageInv'
<1>1. /\ codex' = codex /\ snapshot' = snapshot /\ wire' = wire /\ missed' = missed
      /\ handlers' = handlers /\ driver[e].at = "dispatched"
  BY DEF U!Attach
<1>2. /\ Moves(e, "attached") /\ row' \in [U!Numbers -> U!Rows]
      /\ \A f \in U!Numbers : f # e => row'[f] = row[f]
      /\ row'[e].thread /\ row'[e].cumulative = row[e].cumulative /\ row'[e].delta = row[e].delta
      /\ row'[e].turn = row[e].turn /\ row'[e].finished = row[e].finished
      /\ row'[e].requested = row[e].requested /\ row'[e].quality = row[e].quality
  BY AttachMoves DEF U!UsageInv
<1>3. \/ /\ U!Prior(e) = {} /\ row'[e].fresh /\ ~row'[e].continuous /\ row'[e].baseline = 0
      \/ /\ U!Prior(e) # {} /\ ~row'[e].fresh /\ ~row'[e].continuous /\ row'[e].baseline = Unknown
      \/ /\ ~row'[e].fresh /\ row'[e].continuous
         /\ codex.open = {} /\ codex.history = {d \in U!Prior(e) : row[d].turn}
         /\ \E p \in U!Numbers : /\ LastBefore(e, p) /\ row[p].finished /\ row[p].quality = "complete"
                                 /\ row[p].cumulative # Unknown /\ row'[e].baseline = row[p].cumulative
  BY AttachMoves DEF U!UsageInv
<1>4. U!TypeOK'
  BY <1>1, <1>2 DEF U!TypeOK, Moves, U!UsageInv
<1>5. \A f \in U!Numbers : /\ U!RowFollowsRun(f)
                          /\ \A d \in U!Numbers : d < f /\ driver[f].at # "idle" => driver[d].at \in U!Over
  BY DEF U!RunsInOrder, U!UsageInv
<1>6. ~row[e].thread /\ ~row[e].turn /\ ~row[e].finished /\ row[e].cumulative = Unknown /\ e \notin handlers
  BY <1>1, <1>5 DEF U!RowFollowsRun
<1>7. e \notin codex.asked /\ e \notin codex.history
  BY <1>1 DEF U!UsageInv, U!CodexIsSound
<1>8. \A f \in U!Numbers : f > e => driver[f].at = "idle" /\ ~row[f].thread /\ ~row[f].fresh /\ ~row[f].continuous
                                 /\ row[f].baseline = Unknown
  <2>1. ASSUME NEW f \in U!Numbers, f > e PROVE driver[f].at = "idle"
    BY <1>1, <1>5, <2>1 DEF U!Over, U!Numbers, UsageAssumption
  <2>. QED
    BY <2>1, <1>5 DEF U!RowFollowsRun
<1>9. \A f \in U!Numbers : f < e => driver[f].at \in U!Over
  BY <1>1, <1>5
<1>10. row[e].delta = Unknown /\ U!Growth(row[e].cumulative, row'[e].baseline) = Unknown
  BY <1>5, <1>6 DEF U!RowFollowsRun, U!Growth
<1>11. U!RunsInOrder'
  <2>1. ASSUME NEW f \in U!Numbers PROVE U!RowFollowsRun(f)'
    <3>1. CASE f = e
      <4>1. /\ row'[f].thread /\ ~row'[f].turn /\ ~row'[f].finished /\ row'[f].cumulative = Unknown
            /\ f \notin handlers' /\ driver'[f].at = "attached" /\ row'[f].delta = Unknown
            /\ U!Growth(row'[f].cumulative, row'[f].baseline) = Unknown
            /\ row'[f].quality = row[f].quality /\ row[f].delta = Unknown
        BY <1>1, <1>2, <1>6, <1>10, <3>1 DEF Moves
      <4>2. /\ row'[f].fresh => row'[f].baseline = 0 /\ ~row'[f].continuous
            /\ row'[f].baseline # Unknown => row'[f].fresh \/ row'[f].continuous
        BY <1>3, <3>1
      <4>3. row[f].quality = "complete" => row[f].delta # Unknown
        BY <1>5 DEF U!RowFollowsRun
      <4>. QED
        BY ONLY <4>1, <4>2, <4>3 DEF U!RowFollowsRun
    <3>2. CASE f # e
      <4>1. row'[f] = row[f] /\ driver'[f].at = driver[f].at /\ handlers' = handlers /\ U!RowFollowsRun(f)
        BY <1>1, <1>2, <1>5, <3>2 DEF Moves
      <4>. QED
        BY ONLY <4>1 DEF U!RowFollowsRun
    <3>. QED
      BY <3>1, <3>2
  <2>2. ASSUME NEW f \in U!Numbers, driver'[f].at # "idle", NEW d \in U!Numbers, d < f
        PROVE  driver'[d].at \in U!Over
    BY <1>1, <1>2, <1>5, <2>2 DEF Moves, U!Over, U!Numbers, UsageAssumption
  <2>. QED
    BY <2>1, <2>2 DEF U!RunsInOrder
<1>12. /\ CodexKept /\ U!Pending' = U!Pending /\ U!Elements(wire)' = U!Elements(wire)
       /\ codex'.open = codex.open /\ codex'.owed = codex.owed /\ codex'.asked = codex.asked
  BY <1>1, <1>2, ReportsStay DEF CodexKept, Moves
<1>13. \A f \in U!Numbers : /\ row'[f].cumulative = row[f].cumulative /\ row'[f].turn = row[f].turn
                           /\ row'[f].requested = row[f].requested /\ row'[f].finished = row[f].finished
                           /\ row[f].thread => row'[f].thread
  BY <1>2
<1>14. \A f \in U!Numbers : row'[f].cumulative = row[f].cumulative
  BY <1>2
<1>15. \A f \in U!Numbers : row[f].turn => row'[f].turn
  BY <1>2
<1>16. U!CodexIsSound'
  <2>1. \A t \in U!Numbers : t \in codex.asked \union codex.history =>
            row'[t].thread /\ row'[t].requested /\ driver'[t].at \notin {"idle", "dispatched", "attached"}
    BY <1>2, <1>7, <1>13 DEF U!CodexIsSound, U!UsageInv, Moves
  <2>2. \A t \in U!Numbers : row'[t].turn \/ driver'[t].at = "answered" => t \in codex.history
    BY <1>2, <1>13 DEF U!CodexIsSound, U!UsageInv, Moves
  <2>3. codex.asked \intersect codex.history = {}
    BY DEF U!CodexIsSound, U!UsageInv
  <2>. QED
    BY <1>4, <1>12, <2>1, <2>2, <2>3, CodexPartKept
<1>17. \A f \in U!Numbers : (U!Known(f)' => U!Known(f)) /\ (U!Awaits(f)' => f = e \/ U!Awaits(f))
  BY <1>1, <1>2, <1>13 DEF U!Known, U!Awaits, Moves
<1>18. U!StretchesInOrder' /\ U!SnapshotsInOrder'
  BY <1>1, <1>12, <1>14, <1>15, <1>17, StretchesKept
<1>19. U!ReportsAreTracked'
  BY <1>1, <1>12, <1>14, TrackingKept
<1>20. \A p, f \in U!Numbers : f <= e => (U!Follows(p, f)' <=> U!Follows(p, f))
  BY <1>2 DEF U!Follows, U!Numbers, UsageAssumption
<1>21. \A d \in U!Numbers : d \in U!Prior(e) <=> row[d].thread
  BY <1>6 DEF U!Prior
<1>22. \A d \in U!Numbers : row[d].thread => d < e
  BY <1>6, <1>8 DEF U!Numbers, UsageAssumption
<1>23. ASSUME row'[e].continuous
       PROVE  \E p \in U!Numbers :
                 /\ U!Follows(p, e) /\ row[p].finished /\ row[p].cumulative # Unknown
                 /\ row'[e].baseline = row[p].cumulative
                 /\ codex.open = {} /\ codex.history = {d \in U!Prior(e) : row[d].turn}
                 /\ \A d \in U!Numbers : row[d].thread => row[d].finished /\ d <= p
  <2>1. PICK p \in U!Numbers : /\ LastBefore(e, p) /\ row[p].finished /\ row[p].quality = "complete"
                              /\ row[p].cumulative # Unknown /\ row'[e].baseline = row[p].cumulative
    BY <1>3, <1>23
  <2>2. row[p].thread /\ p < e /\ \A d \in U!Numbers : row[d].thread => d <= p
    BY <2>1, <1>21, <1>22 DEF LastBefore
  <2>3. U!Follows(p, e)
    BY <2>2 DEF U!Follows, U!Numbers, UsageAssumption
  <2>4. row[p].baseline # Unknown
    BY <2>1, <1>5 DEF U!RowFollowsRun, U!Growth
  <2>5. \A d \in U!Numbers : d < p /\ row[d].thread => row[d].finished
    BY <2>4 DEF U!UsageInv, U!BaselinesAreSound
  <2>6. \A d \in U!Numbers : row[d].thread => row[d].finished /\ d <= p
    BY <2>1, <2>2, <2>5 DEF U!Numbers, UsageAssumption
  <2>7. codex.open = {} /\ codex.history = {d \in U!Prior(e) : row[d].turn}
    BY <1>3, <1>23
  <2>. QED
    BY <2>1, <2>3, <2>6, <2>7
<1>24. U!BaselinesAreSound'
  <2>1. ASSUME NEW f \in U!Numbers
        PROVE  /\ row'[f].baseline # Unknown => \A d \in U!Numbers : d < f /\ row'[d].thread => row'[d].finished
               /\ row'[f].fresh => \A d \in U!Numbers : d < f => ~row'[d].thread
               /\ row'[f].continuous => \E p \in U!Numbers : /\ U!Follows(p, f)' /\ row'[p].cumulative # Unknown
                                                            /\ row'[f].baseline = row'[p].cumulative
    <3>1. CASE f > e
      BY <1>2, <1>8, <3>1 DEF U!Numbers, UsageAssumption
    <3>2. CASE f < e
      <4>1. row'[f] = row[f] /\ \A d \in U!Numbers : d < f => row'[d] = row[d]
        BY <1>2, <3>2 DEF U!Numbers, UsageAssumption
      <4>2. /\ row[f].baseline # Unknown => \A d \in U!Numbers : d < f /\ row[d].thread => row[d].finished
            /\ row[f].fresh => \A d \in U!Numbers : d < f => ~row[d].thread
            /\ row[f].continuous => \E p \in U!Numbers : /\ U!Follows(p, f) /\ row[p].cumulative # Unknown
                                                         /\ row[f].baseline = row[p].cumulative
        BY DEF U!UsageInv, U!BaselinesAreSound
      <4>3. \A p \in U!Numbers : U!Follows(p, f)' <=> U!Follows(p, f)
        BY <1>20, <3>2 DEF U!Numbers, UsageAssumption
      <4>4. \A p \in U!Numbers : row'[p].cumulative = row[p].cumulative
        BY <1>14
      <4>. QED
        BY ONLY <4>1, <4>2, <4>3, <4>4
    <3>3. CASE f = e
      <4>1. \A d \in U!Numbers : d < e => row'[d] = row[d]
        BY <1>2 DEF U!Numbers, UsageAssumption
      <4>2. CASE row'[e].fresh
        <5>1. \A d \in U!Numbers : ~row[d].thread /\ ~row'[e].continuous
          BY <1>3, <1>21, <4>2
        <5>. QED
          BY <3>3, <4>1, <5>1
      <4>3. CASE row'[e].continuous
        <5>1. PICK p \in U!Numbers : /\ U!Follows(p, e) /\ row[p].cumulative # Unknown
                                    /\ row'[e].baseline = row[p].cumulative
                                    /\ \A d \in U!Numbers : row[d].thread => row[d].finished
          BY <1>23, <4>3
        <5>2. U!Follows(p, e)' /\ row'[p].cumulative = row[p].cumulative
          BY <1>14, <1>20, <5>1 DEF U!Numbers, UsageAssumption
        <5>3. ~row'[e].fresh
          BY <1>3, <4>3
        <5>. QED
          BY <3>3, <4>1, <5>1, <5>2, <5>3
      <4>4. CASE ~row'[e].fresh /\ ~row'[e].continuous
        BY <1>3, <3>3, <4>4
      <4>. QED
        BY <4>2, <4>3, <4>4
    <3>. QED
      BY <3>1, <3>2, <3>3 DEF U!Numbers, UsageAssumption
  <2>. QED
    BY <2>1 DEF U!BaselinesAreSound
<1>25. row'[e].fresh => codex.history = {}
  <2>1. SUFFICES ASSUME row'[e].fresh PROVE codex.history = {}
    OBVIOUS
  <2>2. \A d \in U!Numbers : ~row[d].thread
    BY <1>3, <1>21, <2>1
  <2>3. codex.history \intersect U!Numbers = {}
    BY <2>2 DEF U!UsageInv, U!CodexIsSound
  <2>4. codex.history \subseteq U!Numbers \union {U!Outside}
    BY DEF U!UsageInv, U!TypeOK
  <2>5. U!Outside \notin codex.history
    BY <2>3 DEF U!UsageInv, U!CodexIsSound
  <2>. QED
    BY <2>3, <2>4, <2>5
<1>26. row'[e].continuous =>
          codex.open = {} /\ codex.asked = {} /\ \A p \in U!Numbers : U!Follows(p, e) => codex.mark[p] = codex.total
  <2>1. SUFFICES ASSUME row'[e].continuous
                 PROVE  /\ codex.open = {} /\ codex.asked = {}
                        /\ \A p \in U!Numbers : U!Follows(p, e) => codex.mark[p] = codex.total
    OBVIOUS
  <2>2. PICK p \in U!Numbers :
          /\ U!Follows(p, e) /\ row[p].finished
          /\ codex.open = {} /\ codex.history = {d \in U!Prior(e) : row[d].turn}
          /\ \A d \in U!Numbers : row[d].thread => row[d].finished /\ d <= p
    BY <1>23, <2>1
  <2>3. \A d \in U!Numbers : row[d].finished => row[d].turn /\ d \in codex.history
    <3>1. \A d \in U!Numbers : row[d].finished => row[d].turn
      BY <1>5 DEF U!RowFollowsRun
    <3>. QED
      BY <3>1 DEF U!UsageInv, U!CodexIsSound
  <2>4. codex.asked = {}
    <3>1. codex.asked \subseteq U!Numbers
      BY DEF U!UsageInv, U!TypeOK
    <3>2. ASSUME NEW t \in codex.asked PROVE FALSE
      <4>1. t \in U!Numbers /\ row[t].thread
        BY <3>1, <3>2 DEF U!UsageInv, U!CodexIsSound
      <4>2. t \in codex.history
        BY <4>1, <2>2, <2>3
      <4>. QED
        BY <3>2, <4>2 DEF U!UsageInv, U!CodexIsSound
    <3>. QED
      BY <3>2
  <2>5. U!Outside \notin codex.history
    BY <2>2 DEF U!Prior, U!Numbers, U!Outside
  <2>6. PICK t \in codex.history : codex.mark[t] = codex.total
    BY <2>2, <2>3, <2>5 DEF U!UsageInv, U!CodexIsSound
  <2>7. t \in U!Numbers /\ row[t].turn /\ t <= p
    BY <1>21, <2>2, <2>6 DEF U!Prior
  <2>8. codex.mark[p] = codex.total
    <3>1. CASE t = p
      BY <2>6, <3>1
    <3>2. CASE t # p
      <4>1. t < p /\ p \in codex.history
        BY <2>2, <2>3, <2>7, <3>2 DEF U!Numbers, UsageAssumption
      <4>2. codex.mark[t] <= U!Start(p)
        BY <2>7, <4>1 DEF U!UsageInv, U!StretchesInOrder, U!Known
      <4>3. /\ codex.mark[t] \in Nat /\ codex.mark[p] \in Nat /\ codex.spent[p] \in Nat /\ codex.total \in Nat
            /\ codex.mark[p] <= codex.total
        BY <2>7 DEF U!UsageInv, U!TypeOK, U!CodexIsSound
      <4>. QED
        BY <2>6, <4>2, <4>3 DEF U!Start
    <3>. QED
      BY <3>1, <3>2
  <2>. QED
    BY <2>2, <2>4, <2>8, OneTurnBefore
<1>27. U!StartsAreSound'
  <2>0. \A f \in U!Numbers : U!Start(f)' = U!Start(f)
    BY <1>1 DEF U!Start
  <2>1. ASSUME NEW f \in U!Numbers
        PROVE  /\ row'[f].fresh /\ U!Awaits(f)' => codex.history = {}
               /\ row'[f].fresh /\ U!Known(f)' /\ f \in codex.history => U!Start(f) = 0
               /\ row'[f].continuous /\ f \notin missed /\ U!Awaits(f)' =>
                    /\ codex.open = {} /\ codex.asked \subseteq {f}
                    /\ \A p \in U!Numbers : U!Follows(p, f)' => codex.mark[p] = codex.total
               /\ row'[f].continuous /\ f \notin missed /\ U!Known(f)' /\ f \in codex.history =>
                    \A p \in U!Numbers : U!Follows(p, f)' => codex.mark[p] = U!Start(f)
    <3>1. CASE f = e
      <4>1. \A p \in U!Numbers : U!Follows(p, e)' <=> U!Follows(p, e)
        BY <1>20 DEF U!Numbers, UsageAssumption
      <4>. QED
        BY <1>7, <1>25, <1>26, <3>1, <4>1
    <3>2. CASE f < e
      <4>1. row'[f] = row[f] /\ ~U!Awaits(f)'
        BY <1>2, <1>9, <3>2 DEF U!Numbers, UsageAssumption, U!Awaits, U!Over, Moves
      <4>2. \A p \in U!Numbers : U!Follows(p, f)' <=> U!Follows(p, f)
        BY <1>20, <3>2 DEF U!Numbers, UsageAssumption
      <4>. QED
        BY <1>17, <4>1, <4>2 DEF U!UsageInv, U!StartsAreSound
    <3>3. CASE f > e
      BY <1>2, <1>8, <3>3 DEF U!Numbers, UsageAssumption
    <3>. QED
      BY <3>1, <3>2, <3>3 DEF U!Numbers, UsageAssumption
  <2>. QED
    BY <1>1, <2>0, <2>1 DEF U!StartsAreSound
<1>. QED
  BY <1>4, <1>11, <1>16, <1>18, <1>19, <1>24, <1>27 DEF U!UsageInv

LEMMA RequestKeeps ==
  ASSUME UsageAssumption, U!UsageInv, NEW e \in U!Numbers, U!Request(e)
  PROVE  U!UsageInv'
<1>1. /\ snapshot' = snapshot /\ wire' = wire /\ missed' = missed
      /\ handlers' = handlers /\ driver[e].at = "attached"
      /\ codex' = [codex EXCEPT !.asked = codex.asked \union {e}]
  BY DEF U!Request
<1>2. /\ Moves(e, "asked") /\ row' \in [U!Numbers -> U!Rows]
      /\ \A f \in U!Numbers : /\ CountsKept(f) /\ row'[f].turn = row[f].turn
                              /\ row'[f].finished = row[f].finished
                              /\ row'[f].requested = (IF f = e THEN TRUE ELSE row[f].requested)
                              /\ row'[f].quality = (IF f = e THEN "unavailable" ELSE row[f].quality)
  BY RequestMoves DEF U!UsageInv
<1>3. /\ codex'.asked = codex.asked \union {e} /\ codex'.open = codex.open /\ codex'.owed = codex.owed
      /\ CodexKept /\ U!TypeOK'
  <2>1. codex' \in [total : Nat, spent : [U!Numbers -> Nat], mark : [U!Numbers -> Nat],
                  history : SUBSET (U!Numbers \union {U!Outside}), open : SUBSET U!Numbers,
                  asked : SUBSET U!Numbers, owed : SUBSET U!Numbers]
        /\ codex'.asked = codex.asked \union {e} /\ codex'.open = codex.open /\ codex'.owed = codex.owed
        /\ CodexKept
    BY <1>1 DEF U!TypeOK, U!UsageInv, CodexKept
  <2>. QED
    BY <2>1, <1>1, <1>2 DEF U!TypeOK, Moves, U!UsageInv
<1>4. \A f \in U!Numbers : /\ U!RowFollowsRun(f)
                          /\ \A d \in U!Numbers : d < f /\ driver[f].at # "idle" => driver[d].at \in U!Over
  BY DEF U!RunsInOrder, U!UsageInv
<1>5. U!RunsInOrder'
  <2>1. ASSUME NEW f \in U!Numbers PROVE U!RowFollowsRun(f)'
    <3>1. CASE f = e
      <4>1. /\ U!RowFollowsRun(f) /\ CountsKept(f) /\ driver[f].at = "attached" /\ driver'[f].at = "asked"
            /\ row'[f].turn = row[f].turn /\ row'[f].finished = row[f].finished /\ row'[f].quality = "unavailable"
            /\ handlers' = handlers
        BY <1>1, <1>2, <1>4, <3>1 DEF Moves
      <4>. QED
        BY ONLY <4>1 DEF U!RowFollowsRun, CountsKept
    <3>2. CASE f # e
      <4>1. /\ row'[f].turn = row[f].turn /\ row'[f].finished = row[f].finished
            /\ row'[f].quality = "complete" => row[f].delta # Unknown
            /\ driver'[f].at = driver[f].at /\ (f \in handlers' => f \in handlers)
        BY <1>1, <1>2, <1>4, <3>2 DEF U!RowFollowsRun, Moves
      <4>2. CountsKept(f) /\ U!RowFollowsRun(f)
        BY <1>2, <1>4
      <4>. QED
        BY ONLY <4>1, <4>2 DEF U!RowFollowsRun, CountsKept
    <3>. QED
      BY <3>1, <3>2
  <2>2. ASSUME NEW f \in U!Numbers, driver'[f].at # "idle", NEW d \in U!Numbers, d < f
        PROVE  driver'[d].at \in U!Over
    BY <1>1, <1>2, <1>4, <2>2 DEF Moves, U!Over, U!Numbers, UsageAssumption
  <2>. QED
    BY <2>1, <2>2 DEF U!RunsInOrder
<1>6. e \notin codex.asked /\ e \notin codex.history /\ row[e].thread /\ ~row[e].turn
  BY <1>1, <1>4 DEF U!UsageInv, U!CodexIsSound, U!RowFollowsRun
<1>7. U!Pending' = U!Pending /\ U!Elements(wire)' = U!Elements(wire)
  BY <1>1, <1>2, ReportsStay DEF Moves
<1>8. /\ \A f \in U!Numbers : row'[f].cumulative = row[f].cumulative
      /\ \A f \in U!Numbers : row'[f].thread = row[f].thread
      /\ \A f \in U!Numbers : row'[f].fresh = row[f].fresh
      /\ \A f \in U!Numbers : row'[f].continuous = row[f].continuous
  BY <1>2 DEF CountsKept
<1>9. /\ \A f \in U!Numbers : (row[f].turn => row'[f].turn) /\ (row[f].finished => row'[f].finished)
      /\ \A f \in U!Numbers : row[f].requested => row'[f].requested
      /\ \A f \in U!Numbers : row'[f].turn => row[f].turn
  BY <1>2
<1>10. U!CodexIsSound'
  <2>1. ASSUME NEW t \in U!Numbers, t \in codex'.asked \union codex.history
        PROVE  row'[t].thread /\ row'[t].requested /\ driver'[t].at \notin {"idle", "dispatched", "attached"}
    <3>1. CASE t = e
      <4>1. row'[e].thread /\ row'[e].requested /\ driver'[e].at = "asked"
        BY <1>2, <1>6, <1>8 DEF Moves
      <4>. QED
        BY <3>1, <4>1
    <3>2. CASE t # e
      BY <1>2, <1>3, <1>8, <1>9, <2>1, <3>2 DEF U!CodexIsSound, U!UsageInv, Moves
    <3>. QED
      BY <3>1, <3>2
  <2>2. \A t \in U!Numbers : row'[t].turn \/ driver'[t].at = "answered" => t \in codex.history
    BY <1>2, <1>9 DEF U!CodexIsSound, U!UsageInv, Moves
  <2>3. codex'.asked \intersect codex.history = {}
    BY <1>3, <1>6 DEF U!CodexIsSound, U!UsageInv
  <2>. QED
    BY <1>3, <1>7, <2>1, <2>2, <2>3, CodexPartKept
<1>11. \A d \in U!Numbers : U!Known(d)' => d = e \/ U!Known(d)
  BY <1>2, <1>9 DEF U!Known, Moves
<1>12. \A d \in U!Numbers : d > e => d \notin codex.history
  <2>1. \A d \in U!Numbers : d > e => driver[d].at = "idle"
    BY <1>1, <1>4 DEF U!Over, U!Numbers, UsageAssumption
  <2>. QED
    BY <2>1 DEF U!CodexIsSound, U!UsageInv
<1>13. U!StretchesInOrder' /\ U!SnapshotsInOrder'
  <2>1. ASSUME NEW d \in U!Numbers, U!Known(d)'
        PROVE  U!Known(d) \/ \A f \in U!Numbers : d < f => f \notin codex.history
    BY <1>11, <1>12, <2>1 DEF U!Numbers, UsageAssumption
  <2>. QED
    BY <1>1, <1>3, <1>8, <1>9, <2>1, StretchesKept
<1>14. U!BaselinesAreSound'
  BY <1>2, <1>9, BaselinesKept
<1>15. U!StartsAreSound'
  <2>1. ASSUME NEW f \in U!Numbers, U!Awaits(f)'
        PROVE  U!Awaits(f) /\ codex'.asked \subseteq codex.asked \union {f}
    <3>1. CASE f = e
      BY <1>1, <1>3, <1>6, <3>1 DEF U!Awaits
    <3>2. CASE f # e
      <4>1. driver[f].at \in {"attached", "asked"} /\ f \notin codex.history
        BY <1>2, <1>3, <2>1, <3>2 DEF U!Awaits, Moves, CodexKept
      <4>2. f < e \/ e < f
        BY <3>2 DEF U!Numbers, UsageAssumption
      <4>. QED
        BY <1>1, <1>4, <4>1, <4>2 DEF U!Over
    <3>. QED
      BY <3>1, <3>2
  <2>2. \A f \in U!Numbers : U!Known(f)' /\ f \in codex.history => U!Known(f)
    BY <1>6, <1>11
  <2>. QED
    BY <1>1, <1>3, <1>8, <2>1, <2>2, StartsKept
<1>16. U!ReportsAreTracked'
  BY <1>1, <1>3, <1>7, <1>8, TrackingKept
<1>. QED
  BY <1>3, <1>5, <1>10, <1>13, <1>14, <1>15, <1>16 DEF U!UsageInv

\* A step after which turns are over, and what they kept is known to be missed.
LEMMA EndingKeeps ==
  ASSUME UsageAssumption, U!UsageInv, NEW S \in SUBSET U!Numbers,
         row' = row, snapshot' = snapshot, U!TypeOK', CodexKept,
         codex'.open \subseteq codex.open, codex'.owed \subseteq codex.owed, codex'.asked \subseteq codex.asked,
         codex.owed \subseteq codex'.owed \union missed', missed \subseteq missed',
         \A f \in U!Numbers : f \in S => /\ driver[f].at \notin {"idle", "finished"} /\ driver'[f].at = "failed"
                                         /\ driver'[f].early = <<>>,
         \A f \in U!Numbers : f \notin S => driver'[f] = driver[f],
         \A f \in handlers' : f \in handlers \/ row[f].turn,
         U!Elements(wire)' \subseteq U!Elements(wire),
         \A m \in U!Elements(wire) : m.line = "usage" => m \in U!Elements(wire)' \/ m.turn \in missed',
         \A f \in S : \A m \in U!Elements(driver[f].early) : m.turn \in missed'
  PROVE  U!UsageInv'
<1>1. \A f \in U!Numbers : /\ U!RowFollowsRun(f)
                          /\ \A d \in U!Numbers : d < f /\ driver[f].at # "idle" => driver[d].at \in U!Over
  BY DEF U!RunsInOrder, U!UsageInv
<1>2. U!RunsInOrder'
  <2>1. ASSUME NEW f \in U!Numbers PROVE U!RowFollowsRun(f)'
    <3>1. f \in handlers' => row[f].turn
      BY <1>1 DEF U!RowFollowsRun
    <3>2. CASE f \in S
      <4>1. driver[f].at \notin {"idle", "finished"} /\ driver'[f].at = "failed"
        BY <3>2
      <4>2. U!RowFollowsRun(f)
        BY <1>1
      <4>. QED
        BY <3>1, <4>1, <4>2 DEF U!RowFollowsRun
    <3>3. CASE f \notin S
      <4>1. driver'[f] = driver[f] /\ U!RowFollowsRun(f)
        BY <1>1, <3>3
      <4>. QED
        BY <3>1, <4>1 DEF U!RowFollowsRun
    <3>. QED
      BY <3>2, <3>3
  <2>2. ASSUME NEW f \in U!Numbers, driver'[f].at # "idle", NEW d \in U!Numbers, d < f
        PROVE  driver'[d].at \in U!Over
    <3>1. driver[f].at # "idle"
      BY <2>2
    <3>2. driver[d].at \in U!Over
      BY <1>1, <2>2, <3>1
    <3>. QED
      BY <3>2 DEF U!Over
  <2>. QED
    BY <2>1, <2>2 DEF U!RunsInOrder
<1>3. \A f \in U!Numbers : U!Elements(driver[f].early)' \subseteq U!Elements(driver[f].early)
                          /\ \A m \in U!Elements(driver[f].early) :
                                m \in U!Elements(driver[f].early)' \/ m.turn \in missed'
  <2>1. ASSUME NEW f \in U!Numbers
        PROVE  /\ U!Elements(driver[f].early)' \subseteq U!Elements(driver[f].early)
               /\ \A m \in U!Elements(driver[f].early) :
                     m \in U!Elements(driver[f].early)' \/ m.turn \in missed'
    <3>1. CASE f \in S
      BY <3>1 DEF U!Elements
    <3>2. CASE f \notin S
      BY <3>2 DEF U!Elements
    <3>. QED
      BY <3>1, <3>2
  <2>. QED
    BY <2>1
<1>4. U!Pending' \subseteq U!Pending /\ \A m \in U!Pending : m \in U!Pending' \/ m.turn \in missed'
  BY <1>3 DEF U!Pending
<1>5. U!CodexIsSound'
  <2>1. ASSUME NEW t \in U!Numbers, t \in codex'.asked \union codex.history
        PROVE  row'[t].thread /\ row'[t].requested /\ driver'[t].at \notin {"idle", "dispatched", "attached"}
    BY <2>1 DEF U!CodexIsSound, U!UsageInv
  <2>2. ASSUME NEW t \in U!Numbers, row'[t].turn \/ driver'[t].at = "answered" PROVE t \in codex.history
    BY <2>2 DEF U!CodexIsSound, U!UsageInv
  <2>3. codex'.asked \intersect codex.history = {}
    BY DEF U!CodexIsSound, U!UsageInv
  <2>. QED
    BY <1>4, <2>1, <2>2, <2>3, CodexPartKept
<1>6. \A f \in U!Numbers : (U!Known(f)' => U!Known(f)) /\ (U!Awaits(f)' => U!Awaits(f))
  BY DEF U!Known, U!Awaits, CodexKept
<1>7. U!StretchesInOrder' /\ U!SnapshotsInOrder'
  BY <1>6, StretchesKept
<1>8. U!BaselinesAreSound'
  BY BaselinesKept DEF CountsKept
<1>9. U!StartsAreSound'
  BY <1>6, StartsKept
<1>10. U!ReportsAreTracked'
  BY <1>4, TrackingKept
<1>. QED
  BY <1>2, <1>5, <1>7, <1>8, <1>9, <1>10 DEF U!UsageInv

LEMMA GivesUpKeeps ==
  ASSUME UsageAssumption, U!UsageInv, NEW e \in U!Numbers, U!GivesUp(e)
  PROVE  U!UsageInv'
<1>1. /\ row' = row /\ snapshot' = snapshot /\ wire' = wire /\ codex' = codex
      /\ driver[e].at \in {"asked", "replaying"} /\ missed' = missed \union U!Kept(e)
      /\ driver' = [driver EXCEPT ![e].at = "failed", ![e].early = <<>>]
      /\ handlers' = handlers \/ (driver[e].at = "replaying" /\ handlers' = handlers \union {e})
  BY DEF U!GivesUp
<1>2. driver \in [U!Numbers -> U!Drivers] /\ driver[e] \in U!Drivers
  BY DEF U!UsageInv, U!TypeOK
<1>3. /\ driver' \in [U!Numbers -> U!Drivers] /\ driver'[e].at = "failed" /\ driver'[e].early = <<>>
      /\ \A f \in U!Numbers : f # e => driver'[f] = driver[f]
  <2>. DEFINE r == [driver[e] EXCEPT !.at = "failed", !.early = <<>>]
  <2>1. <<>> \in Seq(U!Lines)
    OBVIOUS
  <2>2. r \in U!Drivers /\ r.at = "failed" /\ r.early = <<>>
    BY <1>2, <2>1 DEF U!Drivers, U!Places
  <2>3. driver' = [driver EXCEPT ![e] = r]
    BY <1>1, <1>2
  <2>. HIDE DEF r
  <2>. QED
    BY <1>2, <2>2, <2>3
<1>4. U!Kept(e) \subseteq U!Numbers /\ \A m \in U!Elements(driver[e].early) : m.turn \in U!Kept(e)
  <2>1. U!Elements(driver[e].early) \subseteq U!Lines
    BY ReportsAreLines DEF U!UsageInv
  <2>. QED
    BY <2>1 DEF U!Kept, U!Elements, U!Lines
<1>5. driver[e].at = "replaying" => row[e].turn
  BY DEF U!UsageInv, U!RunsInOrder, U!RowFollowsRun
<1>6. U!TypeOK'
  BY <1>1, <1>3, <1>4 DEF U!UsageInv, U!TypeOK
<1>7. U!Elements(wire)' = U!Elements(wire) /\ CodexKept /\ {e} \in SUBSET U!Numbers
      /\ codex'.open = codex.open /\ codex'.owed = codex.owed /\ codex'.asked = codex.asked
  BY <1>1 DEF U!Elements, CodexKept
<1>. QED
  BY <1>1, <1>3, <1>4, <1>5, <1>6, <1>7, EndingKeeps

LEMMA HandlerExpiresKeeps ==
  ASSUME UsageAssumption, U!UsageInv, NEW e \in U!Numbers, U!HandlerExpires(e)
  PROVE  U!UsageInv'
<1>1. /\ row' = row /\ snapshot' = snapshot /\ wire' = wire /\ codex' = codex /\ driver' = driver
      /\ missed' = missed /\ handlers' = handlers \ {e}
  BY DEF U!HandlerExpires
<1>2. U!TypeOK'
  BY <1>1 DEF U!UsageInv, U!TypeOK
<1>3. U!Elements(wire)' = U!Elements(wire) /\ CodexKept /\ {} \in SUBSET U!Numbers
      /\ codex'.open = codex.open /\ codex'.owed = codex.owed /\ codex'.asked = codex.asked
  BY <1>1 DEF U!Elements, CodexKept
<1>. QED
  BY <1>1, <1>2, <1>3, EndingKeeps

LEMMA DiesKeeps ==
  ASSUME UsageAssumption, U!UsageInv, U!Dies
  PROVE  U!UsageInv'
<1>. DEFINE S == {f \in U!Numbers : driver[f].at \notin U!Over \union {"idle"}}
            lost == codex.owed \union {wire[i].turn : i \in {i \in DOMAIN wire : wire[i].line = "usage"}}
                       \union UNION {U!Kept(f) : f \in U!Numbers}
<1>1. /\ row' = row /\ snapshot' = snapshot /\ wire' = <<>> /\ handlers' = {}
      /\ missed' = missed \union lost
      /\ codex' = [codex EXCEPT !.asked = {}, !.open = {}, !.owed = {}]
      /\ driver' = [f \in U!Numbers |-> IF driver[f].at \in U!Over \union {"idle"} THEN driver[f]
                                        ELSE [driver[f] EXCEPT !.at = "failed", !.early = <<>>]]
  BY DEF U!Dies
<1>2. driver \in [U!Numbers -> U!Drivers]
  BY DEF U!UsageInv, U!TypeOK
<1>3. /\ driver' \in [U!Numbers -> U!Drivers]
      /\ \A f \in U!Numbers : f \in S => /\ driver'[f].at = "failed" /\ driver'[f].early = <<>>
                                         /\ driver[f].at \notin {"idle", "finished"}
      /\ \A f \in U!Numbers : f \notin S => driver'[f] = driver[f]
  <2>1. ASSUME NEW f \in U!Numbers
        PROVE  LET r == [driver[f] EXCEPT !.at = "failed", !.early = <<>>] IN
               r \in U!Drivers /\ r.at = "failed" /\ r.early = <<>>
    <3>1. <<>> \in Seq(U!Lines) /\ driver[f] \in U!Drivers
      BY <1>2
    <3>. QED
      BY <3>1 DEF U!Drivers, U!Places
  <2>. QED
    BY <1>1, <1>2, <2>1 DEF U!Over
<1>4. \A f \in U!Numbers : U!Kept(f) \subseteq U!Numbers /\ \A m \in U!Elements(driver[f].early) : m.turn \in U!Kept(f)
  <2>1. \A f \in U!Numbers : U!Elements(driver[f].early) \subseteq U!Lines
    BY ReportsAreLines DEF U!UsageInv
  <2>. QED
    BY <2>1 DEF U!Kept, U!Elements, U!Lines
<1>5. \A m \in U!Elements(wire) : m \in U!Lines /\ (m.line = "usage" => m.turn \in lost)
  <2>1. U!Elements(wire) \subseteq U!Lines
    BY ReportsAreLines DEF U!UsageInv
  <2>. QED
    BY <2>1 DEF U!Elements
<1>6. lost \subseteq U!Numbers
  <2>1. ASSUME NEW i \in DOMAIN wire PROVE wire[i].turn \in U!Numbers
    BY <1>5 DEF U!Elements, U!Lines
  <2>2. codex.owed \subseteq U!Numbers
    BY DEF U!UsageInv, U!TypeOK
  <2>. QED
    BY <1>4, <2>1, <2>2
<1>7. /\ codex'.asked = {} /\ codex'.open = {} /\ codex'.owed = {} /\ CodexKept
      /\ codex' \in [total : Nat, spent : [U!Numbers -> Nat], mark : [U!Numbers -> Nat],
                  history : SUBSET (U!Numbers \union {U!Outside}), open : SUBSET U!Numbers,
                  asked : SUBSET U!Numbers, owed : SUBSET U!Numbers]
  BY <1>1 DEF U!TypeOK, U!UsageInv, CodexKept
<1>8. codex.owed \subseteq missed' /\ missed \subseteq missed' /\ lost \subseteq missed'
  BY <1>1
<1>9. \A f \in S : \A m \in U!Elements(driver[f].early) : m.turn \in missed'
  BY <1>1, <1>4
<1>10. S \in SUBSET U!Numbers /\ <<>> \in Seq(U!Lines)
  OBVIOUS
<1>11. U!Elements(wire)' = {}
  <2>1. U!Elements(<<>>) = {}
    BY <1>10, ElementsOfASequence
  <2>. QED
    BY <1>1, <2>1 DEF U!Elements
<1>12. \A m \in U!Elements(wire) : m.line = "usage" => m.turn \in missed'
  BY <1>5, <1>8
<1>. HIDE DEF S, lost
<1>13. U!TypeOK'
  BY <1>1, <1>3, <1>6, <1>7, <1>10 DEF U!UsageInv, U!TypeOK
<1>14. /\ \A f \in handlers' : f \in handlers \/ row[f].turn
       /\ U!Elements(wire)' \subseteq U!Elements(wire)
       /\ \A m \in U!Elements(wire) : m.line = "usage" => m \in U!Elements(wire)' \/ m.turn \in missed'
       /\ codex'.open \subseteq codex.open /\ codex'.owed \subseteq codex.owed /\ codex'.asked \subseteq codex.asked
       /\ codex.owed \subseteq codex'.owed \union missed'
  BY <1>1, <1>7, <1>8, <1>11, <1>12
<1>15. row' = row /\ snapshot' = snapshot
  BY <1>1
<1>16. \A f \in U!Numbers : f \in S => /\ driver[f].at \notin {"idle", "finished"} /\ driver'[f].at = "failed"
                                         /\ driver'[f].early = <<>>
  BY <1>3
<1>17. \A f \in U!Numbers : f \notin S => driver'[f] = driver[f]
  BY <1>3
<1>18. S \in SUBSET U!Numbers /\ CodexKept /\ missed \subseteq missed'
  BY <1>7, <1>8, <1>10
<1>. QED
  BY <1>9, <1>13, <1>14, <1>15, <1>16, <1>17, <1>18, EndingKeeps

\* A line that is read and not recorded: kept for later, known to be missed, or no report at all.
LEMMA ReadingKeeps ==
  ASSUME UsageAssumption, U!UsageInv, row' = row, snapshot' = snapshot, codex' = codex, handlers' = handlers,
         U!TypeOK', missed \subseteq missed',
         \A f \in U!Numbers : \/ driver'[f].at = driver[f].at
                              \/ driver[f].at = "asked" /\ driver'[f].at = "answered" /\ f \in codex.history
                              \/ driver[f].at = "replaying" /\ driver'[f].at = "running",
         U!Elements(wire)' \subseteq U!Elements(wire), U!Pending' \subseteq U!Pending,
         \A m \in U!Pending : m \in U!Pending' \/ m.turn \in missed'
  PROVE  U!UsageInv'
<1>1. \A f \in U!Numbers : /\ U!RowFollowsRun(f)
                          /\ \A d \in U!Numbers : d < f /\ driver[f].at # "idle" => driver[d].at \in U!Over
  BY DEF U!RunsInOrder, U!UsageInv
<1>2. U!RunsInOrder'
  <2>1. ASSUME NEW f \in U!Numbers PROVE U!RowFollowsRun(f)'
    <3>1. U!RowFollowsRun(f)
      BY <1>1
    <3>2. \/ driver'[f].at = driver[f].at
          \/ driver[f].at = "asked" /\ driver'[f].at = "answered"
          \/ driver[f].at = "replaying" /\ driver'[f].at = "running"
      OBVIOUS
    <3>. QED
      BY <3>1, <3>2 DEF U!RowFollowsRun
  <2>2. ASSUME NEW f \in U!Numbers, driver'[f].at # "idle", NEW d \in U!Numbers, d < f
        PROVE  driver'[d].at \in U!Over
    <3>1. driver[f].at # "idle"
      BY <2>2
    <3>2. driver[d].at \in U!Over
      BY <1>1, <2>2, <3>1
    <3>. QED
      BY <3>2 DEF U!Over
  <2>. QED
    BY <2>1, <2>2 DEF U!RunsInOrder
<1>3. CodexKept /\ codex'.open = codex.open /\ codex'.owed = codex.owed /\ codex'.asked = codex.asked
  BY DEF CodexKept
<1>4. U!CodexIsSound'
  <2>1. ASSUME NEW t \in U!Numbers, t \in codex.asked \union codex.history
        PROVE  row'[t].thread /\ row'[t].requested /\ driver'[t].at \notin {"idle", "dispatched", "attached"}
    BY <2>1 DEF U!CodexIsSound, U!UsageInv
  <2>2. ASSUME NEW t \in U!Numbers, row'[t].turn \/ driver'[t].at = "answered" PROVE t \in codex.history
    BY <2>2 DEF U!CodexIsSound, U!UsageInv
  <2>3. codex.asked \intersect codex.history = {}
    BY DEF U!CodexIsSound, U!UsageInv
  <2>. QED
    BY <1>3, <2>1, <2>2, <2>3, CodexPartKept
<1>5. \A f \in U!Numbers : (U!Known(f)' => U!Known(f)) /\ (U!Awaits(f)' => U!Awaits(f))
  BY DEF U!Known, U!Awaits
<1>6. U!StretchesInOrder' /\ U!SnapshotsInOrder'
  BY <1>3, <1>5, StretchesKept
<1>7. U!BaselinesAreSound'
  BY BaselinesKept DEF CountsKept
<1>8. U!StartsAreSound'
  BY <1>3, <1>5, StartsKept
<1>9. U!ReportsAreTracked'
  BY <1>3, TrackingKept
<1>. QED
  BY <1>2, <1>4, <1>6, <1>7, <1>8, <1>9 DEF U!UsageInv

\* A report of a turn whose id is known is recorded.
LEMMA RecordingKeeps ==
  ASSUME UsageAssumption, U!UsageInv, NEW e \in U!Numbers, row[e].turn,
         NEW m \in U!Pending, m.turn = e, U!Record(e, m.total),
         codex' = codex, handlers' = handlers, missed' = missed,
         driver' \in [U!Numbers -> U!Drivers], wire' \in Seq(U!Lines),
         \A f \in U!Numbers : driver'[f].at = driver[f].at,
         U!Elements(wire)' \subseteq U!Elements(wire), U!Pending' \subseteq U!Pending,
         \A l \in U!Pending : l \in U!Pending' \/ l = m
  PROVE  U!UsageInv'
<1>1. m.total \in Nat /\ U!Start(e) < m.total /\ m.total <= codex.mark[e]
  <2>1. m.total \in Nat
    BY ReportsAreLines DEF U!UsageInv
  <2>2. U!Start(e) < m.total /\ m.total <= codex.mark[e]
    BY DEF U!UsageInv, U!CodexIsSound
  <2>. QED
    BY <2>1, <2>2
<1>2. Reported(e, m.total)
  BY <1>1, ReportMovesRows DEF U!Record
<1>3. /\ snapshot' \in [U!Numbers -> [base : U!Counts, total : U!Counts]]
      /\ \A f \in U!Numbers :
            /\ snapshot'[f].total # Unknown => /\ row[f].turn /\ U!Start(f) < snapshot'[f].total
                                               /\ snapshot'[f].total <= codex.mark[f]
            /\ snapshot'[f].base # Unknown => snapshot'[f].total # Unknown
      /\ U!SnapshotsInOrder'
  BY <1>1, ReportMovesSnapshots DEF U!Record
<1>4. U!TypeOK'
  BY <1>2, <1>3 DEF U!TypeOK, U!UsageInv, Reported
<1>5. /\ \A f \in U!Numbers : row'[f].thread = row[f].thread
      /\ \A f \in U!Numbers : row'[f].fresh = row[f].fresh
      /\ \A f \in U!Numbers : row'[f].continuous = row[f].continuous
      /\ \A f \in U!Numbers : row'[f].turn = row[f].turn
      /\ \A f \in U!Numbers : row'[f].finished = row[f].finished
      /\ \A f \in U!Numbers : row'[f].requested = row[f].requested
  BY <1>2 DEF Reported
<1>6. /\ \A f \in U!Numbers : f # e => row'[f].cumulative = row[f].cumulative
      /\ \A f \in U!Numbers : row[f].continuous /\ U!Follows(e, f) => row'[f].baseline = row'[e].cumulative
      /\ \A f \in U!Numbers : ~(row[f].continuous /\ U!Follows(e, f)) => row'[f].baseline = row[f].baseline
      /\ row'[e].cumulative \in Nat /\ row'[e].cumulative # Unknown
      /\ m.total <= row'[e].cumulative /\ row'[e].cumulative <= codex.mark[e] /\ U!Start(e) < row'[e].cumulative
  BY <1>2 DEF Reported, UsageAssumption
<1>7. \A f \in U!Numbers : /\ U!RowFollowsRun(f)
                          /\ \A d \in U!Numbers : d < f /\ driver[f].at # "idle" => driver[d].at \in U!Over
  BY DEF U!RunsInOrder, U!UsageInv
<1>8. \A f \in U!Numbers : row[f].continuous =>
         \E p \in U!Numbers : U!Follows(p, f) /\ row[p].cumulative # Unknown /\ row[f].baseline = row[p].cumulative
  BY DEF U!UsageInv, U!BaselinesAreSound
<1>9. U!RunsInOrder'
  <2>1. ASSUME NEW f \in U!Numbers PROVE U!RowFollowsRun(f)'
    <3>1. /\ row'[f].thread = row[f].thread /\ row'[f].fresh = row[f].fresh
          /\ row'[f].continuous = row[f].continuous /\ row'[f].turn = row[f].turn
          /\ row'[f].finished = row[f].finished /\ driver'[f].at = driver[f].at /\ handlers' = handlers
          /\ U!RowFollowsRun(f)
      BY <1>5, <1>7
    <3>2. /\ row'[f].cumulative # Unknown => row'[f].turn
          /\ row'[f].fresh => row'[f].baseline = 0
          /\ row'[f].baseline # Unknown => row'[f].fresh \/ row'[f].continuous
      BY <1>6, <3>1 DEF U!RowFollowsRun
    <3>3. /\ row'[f].delta = U!Growth(row'[f].cumulative, row'[f].baseline)
          /\ row'[f].quality = "complete" => row'[f].delta # Unknown
      BY <1>2 DEF Reported
    <3>. QED
      BY ONLY <3>1, <3>2, <3>3 DEF U!RowFollowsRun
  <2>. QED
    BY <1>7, <2>1 DEF U!RunsInOrder
<1>10. CodexKept /\ codex'.open = codex.open /\ codex'.owed = codex.owed /\ codex'.asked = codex.asked
  BY DEF CodexKept
<1>11. U!CodexIsSound'
  <2>1. ASSUME NEW t \in U!Numbers, t \in codex.asked \union codex.history
        PROVE  row'[t].thread /\ row'[t].requested /\ driver'[t].at \notin {"idle", "dispatched", "attached"}
    BY <1>5, <2>1 DEF U!CodexIsSound, U!UsageInv
  <2>2. ASSUME NEW t \in U!Numbers, row'[t].turn \/ driver'[t].at = "answered" PROVE t \in codex.history
    BY <1>5, <2>2 DEF U!CodexIsSound, U!UsageInv
  <2>3. codex.asked \intersect codex.history = {}
    BY DEF U!CodexIsSound, U!UsageInv
  <2>. QED
    BY <1>4, <1>10, <2>1, <2>2, <2>3, CodexPartKept
<1>12. \A f \in U!Numbers : U!Start(f)' = U!Start(f) /\ (U!Known(f)' <=> U!Known(f)) /\ (U!Awaits(f)' <=> U!Awaits(f))
  BY <1>5 DEF U!Start, U!Known, U!Awaits
<1>13. U!StretchesInOrder'
  <2>1. ASSUME NEW f \in U!Numbers, row'[f].cumulative # Unknown
        PROVE  U!Start(f) < row'[f].cumulative /\ row'[f].cumulative <= codex.mark[f]
    BY <1>6, <2>1 DEF U!UsageInv, U!StretchesInOrder
  <2>2. \A d, f \in U!Numbers : d < f /\ U!Known(d) /\ f \in codex.history =>
              d \in codex.history /\ d \notin codex.open /\ codex.mark[d] <= U!Start(f)
    BY DEF U!UsageInv, U!StretchesInOrder
  <2>3. \A f \in U!Numbers :
           /\ snapshot'[f].total # Unknown => /\ row'[f].turn /\ U!Start(f) < snapshot'[f].total
                                              /\ snapshot'[f].total <= codex.mark[f]
           /\ snapshot'[f].base # Unknown => snapshot'[f].total # Unknown
    BY <1>3, <1>5
  <2>4. \A d, f \in U!Numbers : d < f /\ U!Known(d)' /\ f \in codex'.history =>
              d \in codex'.history /\ d \notin codex'.open /\ codex'.mark[d] <= U!Start(f)'
    BY <1>12, <2>2
  <2>5. ASSUME NEW f \in U!Numbers
        PROVE  /\ row'[f].cumulative # Unknown => U!Start(f)' < row'[f].cumulative /\ row'[f].cumulative <= codex'.mark[f]
               /\ snapshot'[f].total # Unknown => /\ row'[f].turn /\ U!Start(f)' < snapshot'[f].total
                                                  /\ snapshot'[f].total <= codex'.mark[f]
               /\ snapshot'[f].base # Unknown => snapshot'[f].total # Unknown
    <3>1. U!Start(f)' = U!Start(f) /\ codex'.mark[f] = codex.mark[f]
      BY <1>12
    <3>2. row'[f].cumulative # Unknown => U!Start(f)' < row'[f].cumulative /\ row'[f].cumulative <= codex'.mark[f]
      BY <2>1, <3>1
    <3>3. /\ snapshot'[f].total # Unknown => /\ row'[f].turn /\ U!Start(f)' < snapshot'[f].total
                                             /\ snapshot'[f].total <= codex'.mark[f]
          /\ snapshot'[f].base # Unknown => snapshot'[f].total # Unknown
      <4>1. /\ snapshot'[f].total # Unknown => /\ row'[f].turn /\ U!Start(f) < snapshot'[f].total
                                               /\ snapshot'[f].total <= codex.mark[f]
            /\ snapshot'[f].base # Unknown => snapshot'[f].total # Unknown
        BY <2>3
      <4>. QED
        BY ONLY <3>1, <4>1
    <3>. QED
      BY <3>2, <3>3
  <2>. QED
    BY ONLY <2>4, <2>5 DEF U!StretchesInOrder
<1>14. \A p, f \in U!Numbers : U!Follows(p, f)' <=> U!Follows(p, f)
  BY <1>5, FollowsKept
<1>15. U!BaselinesAreSound'
  <2>1. ASSUME NEW f \in U!Numbers, row'[f].continuous
        PROVE  \E p \in U!Numbers : /\ U!Follows(p, f)' /\ row'[p].cumulative # Unknown
                                    /\ row'[f].baseline = row'[p].cumulative
    <3>1. PICK p \in U!Numbers : U!Follows(p, f) /\ row[p].cumulative # Unknown /\ row[f].baseline = row[p].cumulative
      BY <1>5, <1>8, <2>1
    <3>2. CASE p = e
      BY <1>5, <1>6, <1>14, <2>1, <3>1, <3>2
    <3>3. CASE p # e
      <4>1. ~U!Follows(e, f)
        BY <3>1, <3>3, OneTurnBefore
      <4>. QED
        BY <1>6, <1>14, <3>1, <3>3, <4>1
    <3>. QED
      BY <3>2, <3>3
  <2>2. ASSUME NEW f \in U!Numbers, row'[f].baseline # Unknown, NEW d \in U!Numbers, d < f, row'[d].thread
        PROVE  row'[d].finished
    <3>1. row[f].baseline # Unknown
      <4>1. CASE row[f].continuous
        BY <1>8, <4>1
      <4>2. CASE ~row[f].continuous
        BY <1>6, <2>2, <4>2
      <4>. QED
        BY <4>1, <4>2
    <3>. QED
      BY <1>5, <2>2, <3>1 DEF U!UsageInv, U!BaselinesAreSound
  <2>3. ASSUME NEW f \in U!Numbers, row'[f].fresh PROVE \A d \in U!Numbers : d < f => ~row'[d].thread
    BY <1>5, <2>3 DEF U!UsageInv, U!BaselinesAreSound
  <2>. QED
    BY <2>1, <2>2, <2>3 DEF U!BaselinesAreSound
<1>16. U!StartsAreSound'
  <2>1. /\ \A f \in U!Numbers : U!Awaits(f)' => U!Awaits(f) /\ codex'.asked \subseteq codex.asked \union {f}
        /\ \A f \in U!Numbers : U!Known(f)' /\ f \in codex.history => U!Known(f)
    <3>1. codex'.asked = codex.asked
      BY <1>10
    <3>2. ASSUME NEW f \in U!Numbers PROVE (U!Known(f)' => U!Known(f)) /\ (U!Awaits(f)' => U!Awaits(f))
      BY <1>12
    <3>. QED
      BY <3>1, <3>2
  <2>2. \A f \in U!Numbers : /\ row'[f].thread = row[f].thread /\ row'[f].fresh = row[f].fresh
                            /\ row'[f].continuous = row[f].continuous
    BY <1>5
  <2>3. codex'.open \subseteq codex.open /\ missed \subseteq missed'
    BY <1>10
  <2>. QED
    BY <1>10, <2>1, <2>2, <2>3, StartsKept
<1>17. U!ReportsAreTracked'
  <2>1. ASSUME NEW f \in U!Numbers, codex.spent[f] > 0, f \notin missed, f \notin codex.owed
        PROVE  \/ row'[f].cumulative = codex.mark[f]
               \/ \E l \in U!Pending' : l.turn = f /\ l.total = codex.mark[f]
    <3>1. \/ row[f].cumulative = codex.mark[f]
          \/ \E l \in U!Pending : l.turn = f /\ l.total = codex.mark[f]
      BY <2>1 DEF U!UsageInv, U!ReportsAreTracked
    <3>2. codex.mark[f] \in Nat
      BY DEF U!UsageInv, U!TypeOK
    <3>3. CASE f # e
      BY <1>6, <3>1, <3>3
    <3>4. CASE f = e /\ row[e].cumulative = codex.mark[e]
      <4>1. PICK g \in Nat : g = row'[e].cumulative
        BY <1>6
      <4>2. row'[e].cumulative >= row[e].cumulative
        <5>1. row' = U!Usage(e, m.total)
          BY DEF U!Record
        <5>2. CASE row[e].cumulative >= m.total
          <6>1. row' = row
            BY <3>2, <3>4, <5>1, <5>2 DEF U!Usage, UsageAssumption
          <6>. QED
            BY <3>2, <3>4, <6>1
        <5>3. CASE ~(row[e].cumulative >= m.total)
          BY <1>1, <3>2, <3>4, <5>3
        <5>. QED
          BY <5>2, <5>3
      <4>. QED
        BY <1>6, <3>2, <3>4, <4>1, <4>2
    <3>5. CASE f = e /\ \E l \in U!Pending : l.turn = e /\ l.total = codex.mark[e]
      <4>1. PICK l \in U!Pending : l.turn = e /\ l.total = codex.mark[e]
        BY <3>5
      <4>2. CASE l = m
        BY <1>6, <3>2, <3>5, <4>1, <4>2
      <4>3. CASE l # m
        BY <3>5, <4>1, <4>3
      <4>. QED
        BY <4>2, <4>3
    <3>. QED
      BY <3>1, <3>3, <3>4, <3>5
  <2>. QED
    BY <2>1 DEF U!ReportsAreTracked
<1>. QED
  BY <1>3, <1>4, <1>9, <1>11, <1>13, <1>15, <1>16, <1>17 DEF U!UsageInv

LEMMA ReplayEarlyKeeps ==
  ASSUME UsageAssumption, U!UsageInv, NEW e \in U!Numbers, U!ReplayEarly(e)
  PROVE  U!UsageInv'
<1>1. /\ driver[e].at = "replaying" /\ handlers' = handlers /\ wire' = wire /\ codex' = codex
      /\ driver \in [U!Numbers -> U!Drivers] /\ driver[e] \in U!Drivers /\ row[e].turn
  BY DEF U!ReplayEarly, U!UsageInv, U!TypeOK, U!RunsInOrder, U!RowFollowsRun
<1>2. CASE driver[e].early = <<>>
  <2>1. row' = row /\ snapshot' = snapshot /\ missed' = missed /\ U!Goes(e, "running")
    BY <1>2 DEF U!ReplayEarly
  <2>2. Moves(e, "running")
    BY <2>1, GoingMoves DEF U!UsageInv, U!Places
  <2>3. U!Pending' = U!Pending /\ U!Elements(wire)' = U!Elements(wire)
    BY <1>1, <2>2, ReportsStay DEF Moves
  <2>4. U!TypeOK'
    BY <1>1, <2>1, <2>2 DEF U!TypeOK, U!UsageInv, Moves
  <2>5. \A f \in U!Numbers : \/ driver'[f].at = driver[f].at
                             \/ driver[f].at = "replaying" /\ driver'[f].at = "running"
    <3>1. ASSUME NEW f \in U!Numbers, f # e PROVE driver'[f].at = driver[f].at
      BY <2>2, <3>1 DEF Moves
    <3>2. driver'[e].at = "running"
      BY <2>2 DEF Moves
    <3>. QED
      BY <1>1, <3>1, <3>2
  <2>. QED
    BY <1>1, <2>1, <2>3, <2>4, <2>5, ReadingKeeps
<1>3. CASE driver[e].early # <<>>
  <2>. DEFINE u == Head(driver[e].early)
              rest == Tail(driver[e].early)
              r == [driver[e] EXCEPT !.early = rest]
  <2>1. /\ driver' = [driver EXCEPT ![e].early = rest]
        /\ \/ u.turn = e /\ U!Record(e, u.total) /\ missed' = missed
           \/ u.turn # e /\ row' = row /\ snapshot' = snapshot /\ missed' = missed \union {u.turn}
    BY <1>1, <1>3 DEF U!ReplayEarly
  <2>2. driver[e].early \in Seq(U!Lines)
    BY <1>1 DEF U!Drivers
  <2>3. u \in U!Lines /\ rest \in Seq(U!Lines) /\ U!Elements(driver[e].early) = U!Elements(rest) \union {u}
    BY <1>3, <2>2, ElementsOfASequence
  <2>. HIDE DEF u, rest
  <2>4. r \in U!Drivers /\ r.early = rest /\ r.at = driver[e].at /\ driver' = [driver EXCEPT ![e] = r]
    BY <1>1, <2>1, <2>3 DEF U!Drivers
  <2>. HIDE DEF r
  <2>5. /\ driver' \in [U!Numbers -> U!Drivers] /\ driver'[e] = r
        /\ \A f \in U!Numbers : f # e => driver'[f] = driver[f]
    BY <1>1, <2>4
  <2>6. \A f \in U!Numbers : driver'[f].at = driver[f].at
    BY <2>4, <2>5
  <2>7. U!Elements(wire)' = U!Elements(wire)
    BY <1>1 DEF U!Elements
  <2>8. /\ U!Elements(driver[e].early)' = U!Elements(rest)
        /\ \A f \in U!Numbers : f # e => U!Elements(driver[f].early)' = U!Elements(driver[f].early)
    BY <2>4, <2>5 DEF U!Elements
  <2>9. u \in U!Pending /\ U!Pending' \subseteq U!Pending /\ \A l \in U!Pending : l \in U!Pending' \/ l = u
    <3>1. ASSUME NEW f \in U!Numbers
          PROVE  /\ U!Elements(driver[f].early)' \subseteq U!Elements(driver[f].early)
                 /\ U!Elements(driver[f].early) \subseteq U!Elements(driver[f].early)' \union {u}
      <4>1. CASE f = e
        BY <2>3, <2>8, <4>1
      <4>2. CASE f # e
        BY <2>8, <4>2
      <4>. QED
        BY <4>1, <4>2
    <3>2. u \in U!Elements(driver[e].early)
      BY <2>3
    <3>. QED
      BY <2>7, <3>1, <3>2 DEF U!Pending
  <2>10. CASE u.turn = e
    <3>1. U!Record(e, u.total) /\ missed' = missed
      BY <2>1, <2>10
    <3>2. wire' \in Seq(U!Lines)
      BY <1>1 DEF U!UsageInv, U!TypeOK
    <3>. QED
      BY <1>1, <2>5, <2>6, <2>7, <2>9, <2>10, <3>1, <3>2, RecordingKeeps
  <2>11. CASE u.turn # e
    <3>1. row' = row /\ snapshot' = snapshot /\ missed' = missed \union {u.turn} /\ u.turn \in U!Numbers
      BY <2>1, <2>3, <2>11 DEF U!Lines
    <3>2. U!TypeOK'
      BY <1>1, <2>5, <3>1 DEF U!UsageInv, U!TypeOK
    <3>. QED
      BY <1>1, <2>6, <2>7, <2>9, <3>1, <3>2, ReadingKeeps
  <2>. QED
    BY <2>10, <2>11
<1>. QED
  BY <1>2, <1>3

LEMMA HandleLineKeeps ==
  ASSUME UsageAssumption, U!UsageInv, U!HandleLine
  PROVE  U!UsageInv'
<1>. DEFINE m == Head(wire)
<1>1. /\ wire # <<>> /\ wire' = Tail(wire) /\ handlers' = handlers /\ codex' = codex
      /\ \/ m.line = "response" /\ U!HandleResponse(m)
         \/ m.line = "usage" /\ U!HandleUsage(m)
         \/ m.line = "completed" /\ U!HandleCompleted(m)
  BY DEF U!HandleLine
<1>2. wire \in Seq(U!Lines) /\ driver \in [U!Numbers -> U!Drivers]
  BY DEF U!UsageInv, U!TypeOK
<1>3. /\ m \in U!Lines /\ wire' \in Seq(U!Lines)
      /\ U!Elements(wire) = U!Elements(wire)' \union {m}
  <2>1. m \in U!Lines /\ Tail(wire) \in Seq(U!Lines) /\ U!Elements(wire) = U!Elements(Tail(wire)) \union {m}
    BY <1>1, <1>2, ElementsOfASequence
  <2>2. U!Elements(wire)' = U!Elements(Tail(wire))
    BY <1>1 DEF U!Elements
  <2>. QED
    BY <1>1, <2>1, <2>2
<1>. HIDE DEF m
<1>4. m.turn \in U!Numbers /\ m.total \in Nat
  BY <1>3 DEF U!Lines
<1>5. ASSUME \A f \in U!Numbers : driver'[f].early = driver[f].early
      PROVE  /\ U!Pending' \subseteq U!Pending
             /\ \A l \in U!Pending : l \in U!Pending' \/ (l = m /\ m.line = "usage")
  <2>1. \A f \in U!Numbers : U!Elements(driver[f].early)' = U!Elements(driver[f].early)
    BY <1>5 DEF U!Elements
  <2>. QED
    BY <1>3, <2>1 DEF U!Pending
<1>6. CASE m.line = "response" /\ U!HandleResponse(m)
  <2>1. /\ row' = row /\ snapshot' = snapshot /\ missed' = missed
        /\ driver' = IF driver[m.turn].at = "asked" THEN [driver EXCEPT ![m.turn].at = "answered"] ELSE driver
    BY <1>6 DEF U!HandleResponse
  <2>2. /\ driver' \in [U!Numbers -> U!Drivers]
        /\ \A f \in U!Numbers : driver'[f].early = driver[f].early
        /\ \A f \in U!Numbers : \/ driver'[f].at = driver[f].at
                                \/ f = m.turn /\ driver[f].at = "asked" /\ driver'[f].at = "answered"
    <3>1. CASE driver[m.turn].at = "asked"
      <4>1. U!Goes(m.turn, "answered")
        BY <2>1, <3>1 DEF U!Goes
      <4>2. Moves(m.turn, "answered")
        BY <1>4, <4>1, GoingMoves DEF U!UsageInv, U!Places
      <4>3. ASSUME NEW f \in U!Numbers, f # m.turn PROVE driver'[f].at = driver[f].at
        BY <4>2, <4>3 DEF Moves
      <4>4. driver'[m.turn].at = "answered"
        BY <1>4, <4>2 DEF Moves
      <4>5. /\ driver' \in [U!Numbers -> U!Drivers]
            /\ \A f \in U!Numbers : driver'[f].early = driver[f].early
        BY <4>2 DEF Moves
      <4>. QED
        BY <3>1, <4>3, <4>4, <4>5
    <3>2. CASE driver[m.turn].at # "asked"
      <4>1. driver' = driver
        BY <2>1, <3>2
      <4>. QED
        BY <1>2, <4>1
    <3>. QED
      BY <3>1, <3>2
  <2>3. m.turn \in codex.history
    BY <1>3, <1>6 DEF U!UsageInv, U!CodexIsSound
  <2>4. U!TypeOK'
    BY <1>1, <1>3, <2>1, <2>2 DEF U!UsageInv, U!TypeOK
  <2>5. U!Pending' \subseteq U!Pending /\ \A l \in U!Pending : l \in U!Pending'
    BY <1>5, <1>6, <2>2
  <2>. QED
    BY <1>1, <1>3, <2>1, <2>2, <2>3, <2>4, <2>5, ReadingKeeps
<1>7. CASE m.line = "completed" /\ U!HandleCompleted(m)
  <2>. DEFINE Ends(f) == f \in U!IdUnknown \/ (f \in U!Active /\ f = m.turn)
  <2>1. /\ row' = row /\ snapshot' = snapshot /\ missed' = missed
        /\ driver' = [f \in U!Numbers |-> IF Ends(f) THEN [driver[f] EXCEPT !.ending = m.turn] ELSE driver[f]]
    BY <1>7 DEF U!HandleCompleted
  <2>2. ASSUME NEW f \in U!Numbers
        PROVE  LET r == [driver[f] EXCEPT !.ending = m.turn] IN
               r \in U!Drivers /\ r.at = driver[f].at /\ r.early = driver[f].early
    BY <1>2, <1>4 DEF U!Drivers
  <2>. HIDE DEF Ends
  <2>3. /\ driver' \in [U!Numbers -> U!Drivers]
        /\ \A f \in U!Numbers : driver'[f].early = driver[f].early
        /\ \A f \in U!Numbers : driver'[f].at = driver[f].at
    BY <1>2, <2>1, <2>2
  <2>4. U!TypeOK'
    BY <1>1, <1>3, <2>1, <2>3 DEF U!UsageInv, U!TypeOK
  <2>5. U!Pending' \subseteq U!Pending /\ \A l \in U!Pending : l \in U!Pending'
    BY <1>5, <1>7, <2>3
  <2>. QED
    BY <1>1, <1>3, <2>1, <2>3, <2>4, <2>5, ReadingKeeps
<1>8. CASE m.line = "usage" /\ U!HandleUsage(m)
  <2>1. m \in U!Pending
    BY <1>3, <1>8 DEF U!Pending
  <2>2. CASE m.turn \in handlers \/ m.turn \in U!Active \ U!IdUnknown
    <3>1. U!Record(m.turn, m.total) /\ driver' = driver /\ missed' = missed
      BY <1>8, <2>2 DEF U!HandleUsage
    <3>2. row[m.turn].turn
      BY <1>4, <2>2 DEF U!UsageInv, U!RunsInOrder, U!RowFollowsRun, U!Active, U!IdUnknown, U!At
    <3>3. U!Pending' \subseteq U!Pending /\ \A l \in U!Pending : l \in U!Pending' \/ l = m
      BY <1>5, <3>1
    <3>. QED
      BY <1>1, <1>2, <1>3, <1>4, <2>1, <3>1, <3>2, <3>3, RecordingKeeps
  <2>3. CASE ~(m.turn \in handlers \/ m.turn \in U!Active \ U!IdUnknown) /\ U!IdUnknown = {}
    <3>1. row' = row /\ snapshot' = snapshot /\ driver' = driver /\ missed' = missed \union {m.turn}
      BY <1>8, <2>3 DEF U!HandleUsage
    <3>2. U!TypeOK'
      BY <1>1, <1>3, <1>4, <3>1 DEF U!UsageInv, U!TypeOK
    <3>3. U!Pending' \subseteq U!Pending /\ \A l \in U!Pending : l \in U!Pending' \/ l.turn \in missed'
      BY <1>5, <3>1
    <3>. QED
      BY <1>1, <1>3, <3>1, <3>2, <3>3, ReadingKeeps
  <2>4. CASE ~(m.turn \in handlers \/ m.turn \in U!Active \ U!IdUnknown) /\ U!IdUnknown # {}
    <3>1. PICK e \in U!IdUnknown : /\ row' = row /\ snapshot' = snapshot /\ missed' = missed
                                  /\ driver' = [driver EXCEPT ![e].early = Append(@, m)]
      BY <1>8, <2>4 DEF U!HandleUsage
    <3>2. e \in U!Numbers /\ driver[e] \in U!Drivers /\ driver[e].early \in Seq(U!Lines)
      BY <1>2, <3>1 DEF U!IdUnknown, U!At, U!Drivers
    <3>. DEFINE more == Append(driver[e].early, m)
                r == [driver[e] EXCEPT !.early = more]
    <3>3. more \in Seq(U!Lines) /\ U!Elements(more) = U!Elements(driver[e].early) \union {m}
      BY <1>3, <3>2, ElementsOfASequence
    <3>4. driver' = [driver EXCEPT ![e] = r]
      BY <1>2, <3>1, <3>2
    <3>. HIDE DEF more
    <3>5. r \in U!Drivers /\ r.early = more /\ r.at = driver[e].at
      BY <3>2, <3>3 DEF U!Drivers
    <3>. HIDE DEF r
    <3>6. /\ driver' \in [U!Numbers -> U!Drivers] /\ driver'[e] = r
          /\ \A f \in U!Numbers : f # e => driver'[f] = driver[f]
      BY <1>2, <3>2, <3>4, <3>5
    <3>7. \A f \in U!Numbers : driver'[f].at = driver[f].at
      BY <3>5, <3>6
    <3>8. /\ U!Elements(driver[e].early)' = U!Elements(driver[e].early) \union {m}
          /\ \A f \in U!Numbers : f # e => U!Elements(driver[f].early)' = U!Elements(driver[f].early)
      BY <3>3, <3>5, <3>6 DEF U!Elements
    <3>9. U!Pending' \subseteq U!Pending /\ \A l \in U!Pending : l \in U!Pending'
      <4>1. ASSUME NEW f \in U!Numbers
            PROVE  /\ U!Elements(driver[f].early) \subseteq U!Elements(driver[f].early)'
                   /\ U!Elements(driver[f].early)' \subseteq U!Elements(driver[f].early) \union {m}
        <5>1. CASE f = e
          BY <3>8, <5>1
        <5>2. CASE f # e
          BY <3>8, <5>2
        <5>. QED
          BY <5>1, <5>2
      <4>2. m \in U!Elements(driver[e].early)'
        BY <3>8
      <4>3. /\ m.line = "usage" /\ e \in U!Numbers /\ U!Elements(wire) = U!Elements(wire)' \union {m}
            /\ m \in U!Pending
        BY <1>3, <1>8, <2>1, <3>2
      <4>4. ASSUME NEW l \in U!Pending' PROVE l \in U!Pending
        <5>1. CASE l \in U!Elements(wire)' /\ l.line = "usage"
          BY <4>3, <5>1 DEF U!Pending
        <5>2. CASE \E f \in U!Numbers : l \in U!Elements(driver[f].early)'
          BY <4>1, <4>3, <5>2 DEF U!Pending
        <5>. QED
          BY <4>4, <5>1, <5>2 DEF U!Pending
      <4>5. ASSUME NEW l \in U!Pending PROVE l \in U!Pending'
        <5>1. CASE l \in U!Elements(wire) /\ l.line = "usage"
          BY <4>2, <4>3, <5>1 DEF U!Pending
        <5>2. CASE \E f \in U!Numbers : l \in U!Elements(driver[f].early)
          BY <4>1, <5>2 DEF U!Pending
        <5>. QED
          BY <4>5, <5>1, <5>2 DEF U!Pending
      <4>. QED
        BY <4>4, <4>5
    <3>10. U!TypeOK'
      BY <1>1, <1>3, <3>1, <3>6 DEF U!UsageInv, U!TypeOK
    <3>. QED
      BY <1>1, <1>3, <3>1, <3>7, <3>9, <3>10, ReadingKeeps
  <2>. QED
    BY <2>2, <2>3, <2>4
<1>. QED
  BY <1>1, <1>6, <1>7, <1>8

\* A step of the provider leaves the ledger and the driver alone.
LEMMA ProviderStepsKeep ==
  ASSUME UsageAssumption, U!UsageInv, row' = row, snapshot' = snapshot, driver' = driver, handlers' = handlers
  PROVE  /\ U!RunsInOrder' /\ U!BaselinesAreSound' /\ U!SnapshotsInOrder'
         /\ \A f \in U!Numbers : (U!Known(f)' <=> U!Known(f))
         /\ \A p, f \in U!Numbers : (U!Follows(p, f)' <=> U!Follows(p, f))
         /\ \A f \in U!Numbers : U!Elements(driver[f].early)' = U!Elements(driver[f].early)
<1>1. U!RunsInOrder'
  <2>1. \A f \in U!Numbers : U!RowFollowsRun(f)' <=> U!RowFollowsRun(f)
    BY DEF U!RowFollowsRun
  <2>. QED
    BY <2>1 DEF U!UsageInv, U!RunsInOrder
<1>2. \A p, f \in U!Numbers : (U!Follows(p, f)' <=> U!Follows(p, f))
  BY DEF U!Follows
<1>3. U!BaselinesAreSound' /\ U!SnapshotsInOrder'
  BY <1>2 DEF U!UsageInv, U!BaselinesAreSound, U!SnapshotsInOrder
<1>4. \A f \in U!Numbers : (U!Known(f)' <=> U!Known(f))
  BY DEF U!Known
<1>5. \A f \in U!Numbers : U!Elements(driver[f].early)' = U!Elements(driver[f].early)
  BY DEF U!Elements
<1>. QED
  BY <1>1, <1>2, <1>3, <1>4, <1>5

CodexType ==
    [total : Nat, spent : [U!Numbers -> Nat], mark : [U!Numbers -> Nat],
     history : SUBSET (U!Numbers \union {U!Outside}), open : SUBSET U!Numbers,
     asked : SUBSET U!Numbers, owed : SUBSET U!Numbers]

\* The facts about the provider that its steps start from.
LEMMA CodexFacts ==
  ASSUME UsageAssumption, U!UsageInv
  PROVE  /\ codex \in CodexType
         /\ codex.open \subseteq codex.history /\ codex.owed \subseteq codex.history
         /\ codex.asked \intersect codex.history = {} /\ codex.asked \subseteq U!Numbers
         /\ \A t, u \in codex.open : t = u
         /\ U!Outside \in codex.history => codex.history \intersect U!Numbers # {}
         /\ codex.history = {} => codex.total = 0
         /\ codex.history # {} /\ U!Outside \notin codex.history =>
               \E t \in codex.history : codex.mark[t] = codex.total
         /\ codex.total \in Nat
         /\ \A t \in U!Numbers :
               /\ codex.spent[t] \in Nat /\ codex.mark[t] \in Nat /\ U!Start(t) = codex.mark[t] - codex.spent[t]
               /\ codex.spent[t] <= codex.mark[t] /\ codex.mark[t] <= codex.total
               /\ t \in codex.open => codex.mark[t] = codex.total
               /\ t \in codex.owed => codex.spent[t] > 0
               /\ codex.spent[t] > 0 => t \in codex.history
               /\ t \in codex.asked \union codex.history =>
                     row[t].thread /\ row[t].requested /\ driver[t].at \notin {"idle", "dispatched", "attached"}
               /\ row[t].turn \/ driver[t].at = "answered" => t \in codex.history
         /\ U!Outside \notin U!Numbers
<1>1. codex \in CodexType /\ U!Outside \notin U!Numbers
  BY DEF U!UsageInv, U!TypeOK, CodexType, U!Outside, U!Numbers
<1>2. /\ codex.total \in Nat /\ codex.asked \subseteq U!Numbers
      /\ \A t \in U!Numbers : codex.spent[t] \in Nat /\ codex.mark[t] \in Nat
  BY <1>1 DEF CodexType
<1>3. \A t \in U!Numbers : U!Start(t) = codex.mark[t] - codex.spent[t]
  BY DEF U!Start
<1>4. U!CodexIsSound
  BY DEF U!UsageInv
<1>. QED
  BY <1>1, <1>2, <1>3, <1>4 DEF U!CodexIsSound

\* A row that has a baseline follows rows that are over, whose turns have begun.
LEMMA PredecessorsHaveBegun ==
  ASSUME UsageAssumption, U!UsageInv, NEW f \in U!Numbers, row[f].continuous,
         NEW p \in U!Numbers, p < f, row[p].thread
  PROVE  row[p].finished /\ row[p].turn /\ U!Known(p) /\ p \in codex.history
<1>1. row[f].baseline # Unknown
  BY DEF U!UsageInv, U!BaselinesAreSound
<1>2. row[p].finished
  BY <1>1 DEF U!UsageInv, U!BaselinesAreSound
<1>3. row[p].turn
  BY <1>2 DEF U!UsageInv, U!RunsInOrder, U!RowFollowsRun
<1>. QED
  BY <1>2, <1>3, CodexFacts DEF U!Known

LEMMA CodexStartsKeeps ==
  ASSUME UsageAssumption, U!UsageInv, NEW t \in U!Numbers, U!CodexStarts(t)
  PROVE  U!UsageInv'
<1>. DEFINE m == U!Line("response", t)
<1>1. /\ row' = row /\ snapshot' = snapshot /\ driver' = driver /\ handlers' = handlers /\ missed' = missed
      /\ wire' = Append(wire, m) /\ t \in codex.asked /\ codex.open = {}
      /\ codex' = [codex EXCEPT !.asked = @ \ {t}, !.open = {t}, !.history = @ \union {t}, !.mark[t] = codex.total]
  BY DEF U!CodexStarts
<1>2. /\ codex' \in CodexType /\ codex'.asked = codex.asked \ {t} /\ codex'.open = {t}
      /\ codex'.history = codex.history \union {t} /\ codex'.total = codex.total /\ codex'.owed = codex.owed
      /\ codex'.spent = codex.spent
      /\ codex'.mark[t] = codex.total /\ \A u \in U!Numbers : u # t => codex'.mark[u] = codex.mark[u]
  BY <1>1, CodexFacts DEF CodexType
<1>3. m \in U!Lines /\ m.line = "response" /\ m.turn = t
  BY CodexFacts DEF U!Line, U!Lines
<1>. HIDE DEF m
<1>4. wire' \in Seq(U!Lines) /\ U!Elements(wire)' = U!Elements(wire) \union {m}
  <2>1. wire \in Seq(U!Lines)
    BY DEF U!UsageInv, U!TypeOK
  <2>. QED
    BY <1>1, <1>3, <2>1, ElementsOfASequence DEF U!Elements
<1>5. U!TypeOK'
  BY <1>1, <1>2, <1>4 DEF U!UsageInv, U!TypeOK, CodexType
<1>6. U!Pending' = U!Pending
  BY <1>1, <1>3, <1>4, ProviderStepsKeep DEF U!Pending
<1>7. t \notin codex.history /\ codex.spent[t] = 0
  BY <1>1, CodexFacts
<1>8. /\ U!Start(t)' = codex.total
      /\ \A u \in U!Numbers : u # t => U!Start(u)' = U!Start(u)
  BY <1>2, <1>7, CodexFacts DEF U!Start
<1>9. \A d \in U!Numbers : d < t => driver[d].at \in U!Over
  BY <1>1, CodexFacts DEF U!UsageInv, U!RunsInOrder
<1>10. \A f \in U!Numbers : U!Known(f) => f \in codex.history \/ driver[f].at = "asked"
  BY CodexFacts DEF U!Known
<1>11. U!CodexIsSound'
  <2>1. \A l \in U!Pending : l.turn \in U!Numbers /\ l.turn # t
    BY <1>7, ReportsAreLines DEF U!UsageInv, U!CodexIsSound
  <2>2. \A l \in U!Pending : /\ l.line = "usage" /\ l.turn \in codex'.history
                             /\ U!Start(l.turn)' < l.total /\ l.total <= codex'.mark[l.turn]
    BY <1>2, <1>8, <2>1 DEF U!UsageInv, U!CodexIsSound
  <2>3. \A l \in U!Elements(wire)' : l.line = "response" => l.turn \in codex'.history
    BY <1>2, <1>3, <1>4 DEF U!UsageInv, U!CodexIsSound
  <2>4. /\ codex'.open \subseteq codex'.history /\ codex'.owed \subseteq codex'.history
        /\ codex'.asked \intersect codex'.history = {}
        /\ \A w, u \in codex'.open : w = u
        /\ U!Outside \in codex'.history => codex'.history \intersect U!Numbers # {}
        /\ codex'.history = {} => codex'.total = 0
        /\ codex'.history # {} /\ U!Outside \notin codex'.history =>
              \E u \in codex'.history : codex'.mark[u] = codex'.total
    BY <1>2, CodexFacts
  <2>5. ASSUME NEW u \in U!Numbers
        PROVE  /\ codex'.spent[u] <= codex'.mark[u] /\ codex'.mark[u] <= codex'.total
               /\ u \in codex'.open => codex'.mark[u] = codex'.total
               /\ u \in codex'.owed => codex'.spent[u] > 0
               /\ codex'.spent[u] > 0 => u \in codex'.history
               /\ u \in codex'.asked \union codex'.history =>
                     row'[u].thread /\ row'[u].requested /\ driver'[u].at \notin {"idle", "dispatched", "attached"}
               /\ row'[u].turn \/ driver'[u].at = "answered" => u \in codex'.history
    <3>1. CASE u = t
      BY <1>1, <1>2, <1>7, <3>1, CodexFacts
    <3>2. CASE u # t
      BY <1>1, <1>2, <3>2, CodexFacts
    <3>. QED
      BY <3>1, <3>2
  <2>. QED
    BY <1>6, <2>2, <2>3, <2>4, <2>5 DEF U!CodexIsSound
<1>12. U!StretchesInOrder'
  <2>1. ASSUME NEW d \in U!Numbers, NEW f \in U!Numbers, d < f, U!Known(d)', f \in codex'.history
        PROVE  d \in codex'.history /\ d \notin codex'.open /\ codex'.mark[d] <= U!Start(f)'
    <3>1. U!Known(d)
      BY <1>1, <2>1, ProviderStepsKeep
    <3>2. CASE f = t
      <4>1. d # t /\ d \in codex.history
        BY <1>9, <1>10, <2>1, <3>1, <3>2 DEF U!Over, U!Numbers
      <4>. QED
        BY <1>2, <1>8, <3>2, <4>1, CodexFacts
    <3>3. CASE f # t
      <4>1. f \in codex.history
        BY <1>2, <2>1, <3>3
      <4>2. d \in codex.history /\ codex.mark[d] <= U!Start(f)
        BY <2>1, <3>1, <4>1 DEF U!UsageInv, U!StretchesInOrder
      <4>. QED
        BY <1>2, <1>7, <1>8, <3>3, <4>2
    <3>. QED
      BY <3>2, <3>3
  <2>2. ASSUME NEW f \in U!Numbers
        PROVE  /\ row'[f].cumulative # Unknown => U!Start(f)' < row'[f].cumulative /\ row'[f].cumulative <= codex'.mark[f]
               /\ snapshot'[f].total # Unknown => row'[f].turn /\ U!Start(f)' < snapshot'[f].total /\ snapshot'[f].total <= codex'.mark[f]
               /\ snapshot'[f].base # Unknown => snapshot'[f].total # Unknown
    <3>1. /\ row[f].cumulative # Unknown => row[f].turn /\ U!Start(f) < row[f].cumulative /\ row[f].cumulative <= codex.mark[f]
          /\ snapshot[f].total # Unknown => row[f].turn /\ U!Start(f) < snapshot[f].total /\ snapshot[f].total <= codex.mark[f]
          /\ snapshot[f].base # Unknown => snapshot[f].total # Unknown
      BY DEF U!UsageInv, U!StretchesInOrder, U!RunsInOrder, U!RowFollowsRun
    <3>2. row[f].turn => f # t
      BY <1>7, CodexFacts
    <3>3. f # t => U!Start(f)' = U!Start(f) /\ codex'.mark[f] = codex.mark[f]
      BY <1>2, <1>8
    <3>. QED
      BY <1>1, <3>1, <3>2, <3>3
  <2>. QED
    BY <2>1, <2>2 DEF U!StretchesInOrder
<1>13. U!StartsAreSound'
  <2>1. ASSUME NEW f \in U!Numbers, U!Awaits(f)' PROVE U!Awaits(f) /\ f # t /\ (f > t \/ f < t)
    BY <1>1, <1>2, <2>1 DEF U!Awaits, U!Numbers, UsageAssumption
  <2>2. \A f \in U!Numbers : U!Known(f)' => U!Known(f)
    BY <1>1, ProviderStepsKeep
  <2>3. \A p, f \in U!Numbers : U!Follows(p, f)' <=> U!Follows(p, f)
    BY <1>1, ProviderStepsKeep
  <2>4. U!Known(t) => U!Awaits(t)
    BY <1>7, <1>10 DEF U!Awaits
  <2>5. ASSUME NEW f \in U!Numbers, row'[f].fresh, U!Awaits(f)' PROVE FALSE
    <3>1. row[f].fresh /\ U!Awaits(f) /\ (f > t \/ f < t)
      BY <1>1, <2>1, <2>5
    <3>2. f > t => ~row[t].thread
      BY <3>1 DEF U!UsageInv, U!BaselinesAreSound, U!Numbers
    <3>3. f < t => driver[f].at \in U!Over
      BY <1>9
    <3>. QED
      BY <1>1, <3>1, <3>2, <3>3, CodexFacts DEF U!Awaits, U!Over
  <2>6. ASSUME NEW f \in U!Numbers, row'[f].fresh, U!Known(f)', f \in codex'.history PROVE U!Start(f)' = 0
    <3>1. CASE f = t
      <4>1. codex.history = {}
        BY <1>1, <2>2, <2>4, <2>6, <3>1 DEF U!UsageInv, U!StartsAreSound
      <4>. QED
        BY <1>8, <3>1, <4>1, CodexFacts
    <3>2. CASE f # t
      BY <1>1, <1>2, <1>8, <2>2, <2>6, <3>2 DEF U!UsageInv, U!StartsAreSound
    <3>. QED
      BY <3>1, <3>2
  <2>7. ASSUME NEW f \in U!Numbers, row'[f].continuous, f \notin missed', U!Awaits(f)' PROVE FALSE
    <3>1. codex.asked \subseteq {f}
      BY <1>1, <2>1, <2>7 DEF U!UsageInv, U!StartsAreSound
    <3>. QED
      BY <1>1, <2>1, <2>7, <3>1
  <2>8. ASSUME NEW f \in U!Numbers, row'[f].continuous, f \notin missed', U!Known(f)', f \in codex'.history,
               NEW p \in U!Numbers, U!Follows(p, f)'
        PROVE  codex'.mark[p] = U!Start(f)'
    <3>1. U!Follows(p, f) /\ row[f].continuous /\ f \notin missed /\ U!Known(f)
      BY <1>1, <2>2, <2>3, <2>8
    <3>2. p # t
      <4>1. p \in codex.history
        BY <3>1, PredecessorsHaveBegun DEF U!Follows
      <4>. QED
        BY <1>7, <4>1
    <3>3. CASE f = t
      <4>1. codex.mark[p] = codex.total
        BY <2>4, <3>1, <3>3 DEF U!UsageInv, U!StartsAreSound
      <4>. QED
        BY <1>2, <1>8, <3>2, <3>3, <4>1
    <3>4. CASE f # t
      <4>1. codex.mark[p] = U!Start(f)
        BY <1>2, <2>8, <3>1, <3>4 DEF U!UsageInv, U!StartsAreSound
      <4>. QED
        BY <1>2, <1>8, <3>2, <3>4, <4>1
    <3>. QED
      BY <3>3, <3>4
  <2>. QED
    BY <2>5, <2>6, <2>7, <2>8 DEF U!StartsAreSound
<1>14. U!ReportsAreTracked'
  <2>1. ASSUME NEW f \in U!Numbers, codex'.spent[f] > 0, f \notin missed', f \notin codex'.owed
        PROVE  \/ row'[f].cumulative = codex'.mark[f]
               \/ \E l \in U!Pending' : l.turn = f /\ l.total = codex'.mark[f]
    <3>1. f # t /\ codex.spent[f] > 0 /\ f \notin missed /\ f \notin codex.owed
      BY <1>1, <1>2, <1>7, <2>1
    <3>2. \/ row[f].cumulative = codex.mark[f]
          \/ \E l \in U!Pending : l.turn = f /\ l.total = codex.mark[f]
      BY <3>1 DEF U!UsageInv, U!ReportsAreTracked
    <3>. QED
      BY <1>1, <1>2, <1>6, <3>1, <3>2
  <2>. QED
    BY <2>1 DEF U!ReportsAreTracked
<1>. QED
  BY <1>1, <1>5, <1>11, <1>12, <1>13, <1>14, ProviderStepsKeep DEF U!UsageInv

LEMMA CodexSpendsKeeps ==
  ASSUME UsageAssumption, U!UsageInv, NEW t \in U!Numbers, U!CodexSpends(t)
  PROVE  U!UsageInv'
<1>1. /\ row' = row /\ snapshot' = snapshot /\ driver' = driver /\ handlers' = handlers /\ missed' = missed
      /\ wire' = wire /\ t \in codex.open
      /\ codex' = [codex EXCEPT !.total = @ + 1, !.spent[t] = @ + 1, !.mark[t] = codex.total + 1,
                                !.owed = @ \union {t}]
  BY DEF U!CodexSpends
<1>2. /\ codex' \in CodexType /\ codex'.asked = codex.asked /\ codex'.open = codex.open
      /\ codex'.history = codex.history /\ codex'.total = codex.total + 1 /\ codex'.owed = codex.owed \union {t}
      /\ codex'.mark[t] = codex.total + 1 /\ codex'.spent[t] = codex.spent[t] + 1
      /\ \A u \in U!Numbers : u # t => codex'.mark[u] = codex.mark[u] /\ codex'.spent[u] = codex.spent[u]
  <2>1. codex \in CodexType
    BY CodexFacts
  <2>2. codex.total \in Nat /\ codex.spent \in [U!Numbers -> Nat] /\ codex.mark \in [U!Numbers -> Nat]
        /\ codex.owed \in SUBSET U!Numbers
    BY ONLY <2>1 DEF CodexType
  <2>. DEFINE total == codex.total + 1
              spent == [codex.spent EXCEPT ![t] = @ + 1]
              mark == [codex.mark EXCEPT ![t] = codex.total + 1]
              owed == codex.owed \union {t}
  <2>3. codex' = [codex EXCEPT !.total = total, !.spent = spent, !.mark = mark, !.owed = owed]
    BY ONLY <1>1, <2>1 DEF CodexType
  <2>4. total \in Nat /\ spent \in [U!Numbers -> Nat] /\ mark \in [U!Numbers -> Nat] /\ owed \in SUBSET U!Numbers
    BY <2>2
  <2>5. /\ mark[t] = codex.total + 1 /\ spent[t] = codex.spent[t] + 1
        /\ \A u \in U!Numbers : u # t => mark[u] = codex.mark[u] /\ spent[u] = codex.spent[u]
    BY <2>2
  <2>6. total = codex.total + 1 /\ owed = codex.owed \union {t}
    OBVIOUS
  <2>. HIDE DEF total, spent, mark, owed
  <2>7. /\ codex' \in CodexType /\ codex'.asked = codex.asked /\ codex'.open = codex.open
        /\ codex'.history = codex.history /\ codex'.total = total /\ codex'.owed = owed
        /\ codex'.mark = mark /\ codex'.spent = spent
    BY ONLY <2>1, <2>3, <2>4 DEF CodexType
  <2>. QED
    BY <2>5, <2>6, <2>7
<1>3. t \in codex.history /\ codex.mark[t] = codex.total
  BY <1>1, CodexFacts
<1>4. \A u \in U!Numbers : U!Start(u)' = U!Start(u)
  <2>1. \A u \in U!Numbers : U!Start(u)' = codex'.mark[u] - codex'.spent[u]
    BY DEF U!Start
  <2>. QED
    BY <1>2, <1>3, <2>1, CodexFacts
<1>5. \A u \in U!Numbers : codex.mark[u] <= codex'.mark[u]
  BY <1>2, <1>3, CodexFacts
<1>6. U!TypeOK'
  BY <1>1, <1>2 DEF U!UsageInv, U!TypeOK, CodexType
<1>7. U!Pending' = U!Pending /\ U!Elements(wire)' = U!Elements(wire)
  BY <1>1, ReportsStay
<1>8. U!CodexIsSound'
  <2>1. \A l \in U!Pending : l.turn \in U!Numbers /\ l.total \in Nat
    BY ReportsAreLines DEF U!UsageInv
  <2>2. ASSUME NEW l \in U!Pending
        PROVE  /\ l.line = "usage" /\ l.turn \in codex'.history
               /\ U!Start(l.turn)' < l.total /\ l.total <= codex'.mark[l.turn]
    <3>1. /\ l.line = "usage" /\ l.turn \in codex.history
          /\ U!Start(l.turn) < l.total /\ l.total <= codex.mark[l.turn]
      BY DEF U!UsageInv, U!CodexIsSound
    <3>2. /\ U!Start(l.turn)' = U!Start(l.turn) /\ codex.mark[l.turn] <= codex'.mark[l.turn]
          /\ codex.mark[l.turn] \in Nat /\ codex'.mark[l.turn] \in Nat /\ l.total \in Nat
      BY <1>2, <1>4, <1>5, <2>1, CodexFacts DEF CodexType
    <3>. QED
      BY <1>2, <3>1, <3>2
  <2>3. \A l \in U!Elements(wire) : l.line = "response" => l.turn \in codex'.history
    BY <1>2 DEF U!UsageInv, U!CodexIsSound
  <2>4. /\ codex'.open \subseteq codex'.history /\ codex'.owed \subseteq codex'.history
        /\ codex'.asked \intersect codex'.history = {}
        /\ \A w, u \in codex'.open : w = u
        /\ U!Outside \in codex'.history => codex'.history \intersect U!Numbers # {}
        /\ codex'.history = {} => codex'.total = 0
        /\ codex'.history # {} /\ U!Outside \notin codex'.history =>
              \E u \in codex'.history : codex'.mark[u] = codex'.total
    BY <1>2, <1>3, CodexFacts
  <2>5. ASSUME NEW u \in U!Numbers
        PROVE  /\ codex'.spent[u] <= codex'.mark[u] /\ codex'.mark[u] <= codex'.total
               /\ u \in codex'.open => codex'.mark[u] = codex'.total
               /\ u \in codex'.owed => codex'.spent[u] > 0
               /\ codex'.spent[u] > 0 => u \in codex'.history
               /\ u \in codex'.asked \union codex'.history =>
                     row'[u].thread /\ row'[u].requested /\ driver'[u].at \notin {"idle", "dispatched", "attached"}
               /\ row'[u].turn \/ driver'[u].at = "answered" => u \in codex'.history
    <3>1. CASE u = t
      BY <1>1, <1>2, <1>3, <3>1, CodexFacts
    <3>2. CASE u # t
      BY <1>1, <1>2, <3>2, CodexFacts
    <3>. QED
      BY <3>1, <3>2
  <2>. QED
    BY <1>7, <2>2, <2>3, <2>4, <2>5 DEF U!CodexIsSound
<1>9. U!StretchesInOrder'
  <2>1. ASSUME NEW d \in U!Numbers, NEW f \in U!Numbers, d < f, U!Known(d)', f \in codex'.history
        PROVE  d \in codex'.history /\ d \notin codex'.open /\ codex'.mark[d] <= U!Start(f)'
    <3>1. U!Known(d) /\ f \in codex.history
      BY <1>1, <1>2, <2>1, ProviderStepsKeep
    <3>2. d \in codex.history /\ d \notin codex.open /\ codex.mark[d] <= U!Start(f)
      BY <2>1, <3>1 DEF U!UsageInv, U!StretchesInOrder
    <3>. QED
      BY <1>1, <1>2, <1>4, <3>2
  <2>2. ASSUME NEW f \in U!Numbers
        PROVE  /\ row'[f].cumulative # Unknown => U!Start(f)' < row'[f].cumulative /\ row'[f].cumulative <= codex'.mark[f]
               /\ snapshot'[f].total # Unknown => row'[f].turn /\ U!Start(f)' < snapshot'[f].total /\ snapshot'[f].total <= codex'.mark[f]
               /\ snapshot'[f].base # Unknown => snapshot'[f].total # Unknown
    <3>1. /\ row[f].cumulative # Unknown => U!Start(f) < row[f].cumulative /\ row[f].cumulative <= codex.mark[f]
          /\ snapshot[f].total # Unknown => row[f].turn /\ U!Start(f) < snapshot[f].total /\ snapshot[f].total <= codex.mark[f]
          /\ snapshot[f].base # Unknown => snapshot[f].total # Unknown
      BY DEF U!UsageInv, U!StretchesInOrder
    <3>2. /\ row[f].cumulative # Unknown => row[f].cumulative \in Nat
          /\ snapshot[f].total # Unknown => snapshot[f].total \in Nat
      BY DEF U!UsageInv, U!TypeOK, U!Rows, U!Counts
    <3>3. /\ U!Start(f)' = U!Start(f) /\ codex.mark[f] <= codex'.mark[f]
          /\ codex.mark[f] \in Nat /\ codex'.mark[f] \in Nat
      BY <1>2, <1>4, <1>5, CodexFacts DEF CodexType
    <3>. QED
      BY <1>1, <3>1, <3>2, <3>3
  <2>. QED
    BY <2>1, <2>2 DEF U!StretchesInOrder
<1>10. U!StartsAreSound'
  <2>1. \A f \in U!Numbers : (U!Known(f)' => U!Known(f)) /\ (U!Awaits(f)' => U!Awaits(f))
    BY <1>1, <1>2 DEF U!Awaits, U!Known
  <2>2. \A p, f \in U!Numbers : U!Follows(p, f)' <=> U!Follows(p, f)
    BY <1>1, ProviderStepsKeep
  <2>3. ASSUME NEW f \in U!Numbers
        PROVE  /\ row'[f].fresh /\ U!Awaits(f)' => codex'.history = {}
               /\ row'[f].fresh /\ U!Known(f)' /\ f \in codex'.history => U!Start(f)' = 0
    BY <1>1, <1>2, <1>4, <2>1 DEF U!UsageInv, U!StartsAreSound
  <2>4. ASSUME NEW f \in U!Numbers, row'[f].continuous, f \notin missed', U!Awaits(f)' PROVE FALSE
    <3>1. codex.open = {}
      BY <1>1, <2>1, <2>4 DEF U!UsageInv, U!StartsAreSound
    <3>. QED
      BY <1>1, <3>1
  <2>5. ASSUME NEW f \in U!Numbers, row'[f].continuous, f \notin missed', U!Known(f)', f \in codex'.history,
               NEW p \in U!Numbers, U!Follows(p, f)'
        PROVE  codex'.mark[p] = U!Start(f)'
    <3>1. U!Follows(p, f) /\ row[f].continuous /\ f \notin missed /\ U!Known(f) /\ f \in codex.history
      BY <1>1, <1>2, <2>1, <2>2, <2>5
    <3>2. codex.mark[p] = U!Start(f)
      BY <3>1 DEF U!UsageInv, U!StartsAreSound
    <3>3. U!Known(p) /\ p < f
      BY <3>1, PredecessorsHaveBegun DEF U!Follows
    <3>4. p # t
      BY <1>1, <3>1, <3>3 DEF U!UsageInv, U!StretchesInOrder
    <3>. QED
      BY <1>2, <1>4, <3>2, <3>4
  <2>. QED
    BY <2>3, <2>4, <2>5 DEF U!StartsAreSound
<1>11. U!ReportsAreTracked'
  <2>1. ASSUME NEW f \in U!Numbers, codex'.spent[f] > 0, f \notin missed', f \notin codex'.owed
        PROVE  \/ row'[f].cumulative = codex'.mark[f]
               \/ \E l \in U!Pending' : l.turn = f /\ l.total = codex'.mark[f]
    <3>1. f # t /\ codex.spent[f] > 0 /\ f \notin missed /\ f \notin codex.owed
      BY <1>1, <1>2, <2>1
    <3>2. \/ row[f].cumulative = codex.mark[f]
          \/ \E l \in U!Pending : l.turn = f /\ l.total = codex.mark[f]
      BY <3>1 DEF U!UsageInv, U!ReportsAreTracked
    <3>. QED
      BY <1>1, <1>2, <1>7, <3>1, <3>2
  <2>. QED
    BY <2>1 DEF U!ReportsAreTracked
<1>. QED
  BY <1>1, <1>6, <1>8, <1>9, <1>10, <1>11, ProviderStepsKeep DEF U!UsageInv

\* A line is written: the report of a turn that is due, or its completion.
LEMMA WritingKeeps ==
  ASSUME UsageAssumption, U!UsageInv, NEW t \in U!Numbers, U!CodexReports(t) \/ U!CodexCompletes(t)
  PROVE  U!UsageInv'
<1>1. /\ row' = row /\ snapshot' = snapshot /\ driver' = driver /\ handlers' = handlers /\ missed' = missed
  BY DEF U!CodexReports, U!CodexCompletes
<1>2. PICK m \in U!Lines :
        /\ wire' = Append(wire, m) /\ m.turn = t
        /\ \/ m.line = "usage" /\ m.total = codex.mark[t] /\ t \in codex.owed
              /\ codex' = [codex EXCEPT !.owed = @ \ {t}]
           \/ m.line = "completed" /\ codex' = [codex EXCEPT !.open = @ \ {t}]
  <2>1. U!Line("usage", t) \in U!Lines /\ U!Line("completed", t) \in U!Lines
    BY CodexFacts DEF U!Line, U!Lines
  <2>2. /\ U!Line("usage", t).line = "usage" /\ U!Line("usage", t).turn = t /\ U!Line("usage", t).total = codex.mark[t]
        /\ U!Line("completed", t).line = "completed" /\ U!Line("completed", t).turn = t
    BY DEF U!Line
  <2>3. CASE U!CodexReports(t)
    BY <2>1, <2>2, <2>3 DEF U!CodexReports
  <2>4. CASE U!CodexCompletes(t)
    BY <2>1, <2>2, <2>4 DEF U!CodexCompletes
  <2>. QED
    BY <2>3, <2>4
<1>3. /\ CodexKept /\ codex'.open \subseteq codex.open /\ codex'.owed \subseteq codex.owed /\ codex'.asked = codex.asked
      /\ codex' \in CodexType /\ (m.line = "usage" => codex.owed \subseteq codex'.owed \union {t})
      /\ (m.line # "usage" => codex'.owed = codex.owed)
  <2>1. codex \in CodexType
    BY CodexFacts
  <2>2. CASE m.line = "usage" /\ codex' = [codex EXCEPT !.owed = @ \ {t}]
    BY <2>1, <2>2 DEF CodexType, CodexKept
  <2>3. CASE m.line = "completed" /\ codex' = [codex EXCEPT !.open = @ \ {t}]
    BY <2>1, <2>3 DEF CodexType, CodexKept
  <2>. QED
    BY <1>2, <2>2, <2>3
<1>4. wire' \in Seq(U!Lines) /\ U!Elements(wire)' = U!Elements(wire) \union {m}
  <2>1. wire \in Seq(U!Lines)
    BY DEF U!UsageInv, U!TypeOK
  <2>. QED
    BY <1>2, <2>1, ElementsOfASequence DEF U!Elements
<1>5. U!TypeOK'
  BY <1>1, <1>3, <1>4 DEF U!UsageInv, U!TypeOK, CodexType
<1>6. U!Pending \subseteq U!Pending' /\ \A l \in U!Pending' : l \in U!Pending \/ (l = m /\ m.line = "usage")
  BY <1>1, <1>4, ProviderStepsKeep DEF U!Pending
<1>7. \A u \in U!Numbers : U!Start(u)' = U!Start(u)
  BY <1>3 DEF U!Start, CodexKept
<1>8. m.line = "usage" => m.total = codex.mark[t] /\ t \in codex.owed /\ t \in codex.history /\ U!Start(t) < codex.mark[t]
  <2>1. m.line = "usage" => m.total = codex.mark[t] /\ t \in codex.owed
    BY <1>2
  <2>2. t \in codex.owed => t \in codex.history /\ codex.spent[t] > 0
    BY CodexFacts
  <2>3. codex.spent[t] > 0 => U!Start(t) < codex.mark[t]
    BY CodexFacts
  <2>. QED
    BY <2>1, <2>2, <2>3
<1>9. U!CodexIsSound'
  <2>1. \A l \in U!Pending' : /\ l.line = "usage" /\ l.turn \in codex'.history
                              /\ U!Start(l.turn)' < l.total /\ l.total <= codex'.mark[l.turn]
    <3>1. ASSUME NEW l \in U!Pending
          PROVE  /\ l.line = "usage" /\ l.turn \in codex'.history
                 /\ U!Start(l.turn)' < l.total /\ l.total <= codex'.mark[l.turn]
      <4>1. l.turn \in U!Numbers
        BY ReportsAreLines DEF U!UsageInv
      <4>. QED
        BY <1>3, <1>7, <4>1 DEF U!UsageInv, U!CodexIsSound, CodexKept
    <3>2. m.line = "usage" => /\ m.turn \in codex'.history
                              /\ U!Start(m.turn)' < m.total /\ m.total <= codex'.mark[m.turn]
      <4>1. m.turn = t /\ codex'.history = codex.history /\ codex'.mark = codex.mark /\ codex.mark[t] \in Nat
        BY <1>2, <1>3, CodexFacts DEF CodexKept
      <4>. QED
        BY <1>7, <1>8, <4>1
    <3>. QED
      BY <1>6, <3>1, <3>2
  <2>2. \A l \in U!Elements(wire)' : l.line = "response" => l.turn \in codex'.history
    BY <1>2, <1>3, <1>4 DEF U!UsageInv, U!CodexIsSound, CodexKept
  <2>3. /\ codex'.open \subseteq codex'.history /\ codex'.owed \subseteq codex'.history
        /\ codex'.asked \intersect codex'.history = {}
        /\ \A w, u \in codex'.open : w = u
        /\ U!Outside \in codex'.history => codex'.history \intersect U!Numbers # {}
        /\ codex'.history = {} => codex'.total = 0
        /\ codex'.history # {} /\ U!Outside \notin codex'.history =>
              \E u \in codex'.history : codex'.mark[u] = codex'.total
    BY <1>3, CodexFacts DEF CodexKept
  <2>4. ASSUME NEW u \in U!Numbers
        PROVE  /\ codex'.spent[u] <= codex'.mark[u] /\ codex'.mark[u] <= codex'.total
               /\ u \in codex'.open => codex'.mark[u] = codex'.total
               /\ u \in codex'.owed => codex'.spent[u] > 0
               /\ codex'.spent[u] > 0 => u \in codex'.history
               /\ u \in codex'.asked \union codex'.history =>
                     row'[u].thread /\ row'[u].requested /\ driver'[u].at \notin {"idle", "dispatched", "attached"}
               /\ row'[u].turn \/ driver'[u].at = "answered" => u \in codex'.history
    BY <1>1, <1>3, CodexFacts DEF CodexKept
  <2>. QED
    BY <2>1, <2>2, <2>3, <2>4 DEF U!CodexIsSound
<1>10. U!StretchesInOrder'
  BY <1>1, <1>3, ProviderStepsKeep, StretchesKept
<1>11. U!StartsAreSound'
  <2>1. /\ \A f \in U!Numbers : U!Awaits(f)' => U!Awaits(f) /\ codex'.asked \subseteq codex.asked \union {f}
        /\ \A f \in U!Numbers : U!Known(f)' /\ f \in codex.history => U!Known(f)
    BY <1>1, <1>3 DEF U!Awaits, U!Known, CodexKept
  <2>. QED
    BY <1>1, <1>3, <2>1, StartsKept
<1>12. U!ReportsAreTracked'
  <2>1. ASSUME NEW f \in U!Numbers, codex.spent[f] > 0, f \notin missed, f \notin codex'.owed
        PROVE  \/ row[f].cumulative = codex.mark[f]
               \/ \E l \in U!Pending' : l.turn = f /\ l.total = codex.mark[f]
    <3>1. CASE f \in codex.owed
      <4>1. m.line = "usage" /\ f = t
        BY <1>3, <2>1, <3>1
      <4>2. m \in U!Pending'
        BY <1>4, <4>1 DEF U!Pending
      <4>. QED
        BY <1>2, <1>8, <4>1, <4>2
    <3>2. CASE f \notin codex.owed
      BY <1>6, <2>1, <3>2 DEF U!UsageInv, U!ReportsAreTracked
    <3>. QED
      BY <3>1, <3>2
  <2>. QED
    BY <1>1, <1>3, <2>1 DEF U!ReportsAreTracked, CodexKept
<1>. QED
  BY <1>1, <1>5, <1>9, <1>10, <1>11, <1>12, ProviderStepsKeep DEF U!UsageInv

LEMMA OutsideTurnKeeps ==
  ASSUME UsageAssumption, U!UsageInv, U!OutsideTurn
  PROVE  U!UsageInv'
<1>1. /\ row' = row /\ snapshot' = snapshot /\ driver' = driver /\ handlers' = handlers /\ wire' = wire
      /\ missed' = missed \union U!At({"attached", "asked"})
      /\ codex.open = {} /\ codex.history # {} /\ U!Outside \notin codex.history
      /\ codex' = [codex EXCEPT !.total = @ + 1, !.history = @ \union {U!Outside}]
  BY DEF U!OutsideTurn
<1>2. /\ codex' \in CodexType /\ codex'.asked = codex.asked /\ codex'.open = codex.open
      /\ codex'.history = codex.history \union {U!Outside} /\ codex'.total = codex.total + 1
      /\ codex'.owed = codex.owed /\ codex'.mark = codex.mark /\ codex'.spent = codex.spent
      /\ codex'.history # {} /\ U!Outside \in codex'.history
  <2>1. codex \in CodexType
    BY CodexFacts
  <2>2. codex.total + 1 \in Nat /\ codex.history \union {U!Outside} \in SUBSET (U!Numbers \union {U!Outside})
    BY ONLY <2>1 DEF CodexType
  <2>. DEFINE total == codex.total + 1
              history == codex.history \union {U!Outside}
  <2>3. codex' = [codex EXCEPT !.total = total, !.history = history]
    BY <1>1
  <2>4. total \in Nat /\ history \in SUBSET (U!Numbers \union {U!Outside}) /\ total = codex.total + 1
        /\ history = codex.history \union {U!Outside} /\ U!Outside \in history /\ history # {}
    BY <2>2
  <2>. HIDE DEF total, history
  <2>5. /\ codex' \in CodexType /\ codex'.asked = codex.asked /\ codex'.open = codex.open
        /\ codex'.history = history /\ codex'.total = total /\ codex'.owed = codex.owed
        /\ codex'.mark = codex.mark /\ codex'.spent = codex.spent
    BY ONLY <2>1, <2>3, <2>4 DEF CodexType
  <2>. QED
    BY <2>4, <2>5
<1>3. \A u \in U!Numbers : U!Start(u)' = U!Start(u) /\ (u \in codex'.history <=> u \in codex.history)
  BY <1>2, CodexFacts DEF U!Start
<1>4. U!TypeOK'
  BY <1>1, <1>2 DEF U!UsageInv, U!TypeOK, CodexType, U!At
<1>5. U!Pending' = U!Pending /\ U!Elements(wire)' = U!Elements(wire)
  BY <1>1, ReportsStay
<1>6. U!CodexIsSound'
  <2>1. \A l \in U!Pending : l.turn \in U!Numbers
    BY ReportsAreLines DEF U!UsageInv
  <2>2. \A l \in U!Pending : /\ l.line = "usage" /\ l.turn \in codex'.history
                             /\ U!Start(l.turn)' < l.total /\ l.total <= codex'.mark[l.turn]
    BY <1>2, <1>3, <2>1 DEF U!UsageInv, U!CodexIsSound
  <2>3. \A l \in U!Elements(wire) : l.line = "response" => l.turn \in codex'.history
    BY <1>2 DEF U!UsageInv, U!CodexIsSound
  <2>4. codex.history \intersect U!Numbers # {} /\ codex.asked \intersect codex'.history = {}
    BY <1>1, <1>2, CodexFacts DEF CodexType
  <2>5. /\ codex'.open \subseteq codex'.history /\ codex'.owed \subseteq codex'.history
        /\ codex'.asked \intersect codex'.history = {}
        /\ \A w, u \in codex'.open : w = u
        /\ U!Outside \in codex'.history => codex'.history \intersect U!Numbers # {}
    BY <1>1, <1>2, <2>4, CodexFacts
  <2>6. ASSUME NEW u \in U!Numbers
        PROVE  /\ codex'.spent[u] <= codex'.mark[u] /\ codex'.mark[u] <= codex'.total
               /\ u \in codex'.open => codex'.mark[u] = codex'.total
               /\ u \in codex'.owed => codex'.spent[u] > 0
               /\ codex'.spent[u] > 0 => u \in codex'.history
               /\ u \in codex'.asked \union codex'.history =>
                     row'[u].thread /\ row'[u].requested /\ driver'[u].at \notin {"idle", "dispatched", "attached"}
               /\ row'[u].turn \/ driver'[u].at = "answered" => u \in codex'.history
    BY <1>1, <1>2, <1>3, CodexFacts
  <2>. QED
    BY <1>2, <1>5, <2>2, <2>3, <2>5, <2>6 DEF U!CodexIsSound
<1>7. U!StretchesInOrder'
  <2>1. \A d \in U!Numbers : U!Known(d)' => U!Known(d)
    BY <1>1, ProviderStepsKeep
  <2>2. ASSUME NEW d \in U!Numbers, NEW f \in U!Numbers, d < f, U!Known(d)', f \in codex'.history
        PROVE  d \in codex'.history /\ d \notin codex'.open /\ codex'.mark[d] <= U!Start(f)'
    BY <1>2, <1>3, <2>1, <2>2 DEF U!UsageInv, U!StretchesInOrder
  <2>3. ASSUME NEW f \in U!Numbers
        PROVE  /\ row'[f].cumulative # Unknown => U!Start(f)' < row'[f].cumulative /\ row'[f].cumulative <= codex'.mark[f]
               /\ snapshot'[f].total # Unknown => row'[f].turn /\ U!Start(f)' < snapshot'[f].total /\ snapshot'[f].total <= codex'.mark[f]
               /\ snapshot'[f].base # Unknown => snapshot'[f].total # Unknown
    BY <1>1, <1>2, <1>3 DEF U!UsageInv, U!StretchesInOrder
  <2>. QED
    BY <2>2, <2>3 DEF U!StretchesInOrder
<1>8. U!StartsAreSound'
  <2>1. \A f \in U!Numbers : (U!Known(f)' => U!Known(f)) /\ (U!Awaits(f)' => U!Awaits(f))
    BY <1>1, <1>3 DEF U!Awaits, U!Known
  <2>2. \A p, f \in U!Numbers : U!Follows(p, f)' <=> U!Follows(p, f)
    BY <1>1, ProviderStepsKeep
  <2>3. ASSUME NEW f \in U!Numbers, row'[f].fresh, U!Awaits(f)' PROVE FALSE
    BY <1>1, <2>1, <2>3 DEF U!UsageInv, U!StartsAreSound
  <2>4. ASSUME NEW f \in U!Numbers, row'[f].fresh, U!Known(f)', f \in codex'.history PROVE U!Start(f)' = 0
    BY <1>1, <1>3, <2>1, <2>4 DEF U!UsageInv, U!StartsAreSound
  <2>5. ASSUME NEW f \in U!Numbers, f \notin missed', U!Awaits(f)' PROVE FALSE
    BY <1>1, <2>1, <2>5 DEF U!At, U!Awaits
  <2>6. ASSUME NEW f \in U!Numbers, row'[f].continuous, f \notin missed', U!Known(f)', f \in codex'.history,
               NEW p \in U!Numbers, U!Follows(p, f)'
        PROVE  codex'.mark[p] = U!Start(f)'
    BY <1>1, <1>2, <1>3, <2>1, <2>2, <2>6 DEF U!UsageInv, U!StartsAreSound
  <2>. QED
    BY <2>3, <2>4, <2>5, <2>6 DEF U!StartsAreSound
<1>9. U!ReportsAreTracked'
  BY <1>1, <1>2, <1>5 DEF U!UsageInv, U!ReportsAreTracked
<1>. QED
  BY <1>1, <1>4, <1>6, <1>7, <1>8, <1>9, ProviderStepsKeep DEF U!UsageInv

\* Init and every step of the turns keep the invariant.
LEMMA UsageBegins ==
  ASSUME UsageAssumption, U!Init
  PROVE  U!UsageInv
<1>1. /\ driver = [e \in U!Numbers |-> [at |-> "idle", early |-> <<>>, ending |-> Unknown]]
      /\ handlers = {} /\ wire = <<>> /\ missed = {}
      /\ row = [e \in U!Numbers |-> U!NewRow]
      /\ snapshot = [e \in U!Numbers |-> [base |-> Unknown, total |-> Unknown]]
      /\ codex = [total |-> 0, spent |-> [t \in U!Numbers |-> 0], mark |-> [t \in U!Numbers |-> 0],
                  history |-> {}, open |-> {}, asked |-> {}, owed |-> {}]
  BY DEF U!Init
<1>2. /\ codex.history = {} /\ codex.open = {} /\ codex.asked = {} /\ codex.owed = {} /\ codex.total = 0
      /\ \A t \in U!Numbers : codex.spent[t] = 0 /\ codex.mark[t] = 0
  BY <1>1
<1>3. \A e \in U!Numbers :
        /\ driver[e].at = "idle" /\ driver[e].early = <<>> /\ snapshot[e].total = Unknown /\ snapshot[e].base = Unknown
        /\ ~row[e].thread /\ ~row[e].fresh /\ ~row[e].continuous /\ ~row[e].turn /\ ~row[e].finished
        /\ row[e].baseline = Unknown /\ row[e].cumulative = Unknown /\ row[e].delta = Unknown
        /\ row[e].quality = "not_used"
  BY <1>1 DEF U!NewRow
<1>4. U!TypeOK
  <2>1. driver \in [U!Numbers -> U!Drivers]
    BY <1>1 DEF U!Drivers, U!Places
  <2>2. row \in [U!Numbers -> U!Rows]
    BY <1>1 DEF U!Rows, U!NewRow, U!Counts
  <2>3. snapshot \in [U!Numbers -> [base : U!Counts, total : U!Counts]]
    BY <1>1 DEF U!Counts
  <2>4. codex \in CodexType
    BY <1>1 DEF CodexType
  <2>. QED
    BY <1>1, <2>1, <2>2, <2>3, <2>4 DEF U!TypeOK, CodexType
<1>5. U!Elements(wire) = {} /\ U!Pending = {}
  BY <1>1, <1>3 DEF U!Elements, U!Pending
<1>6. U!RunsInOrder
  <2>1. \A e \in U!Numbers : U!RowFollowsRun(e)
    BY <1>1, <1>3 DEF U!RowFollowsRun, U!Growth
  <2>. QED
    BY <1>3, <2>1 DEF U!RunsInOrder
<1>7. U!CodexIsSound
  BY <1>2, <1>3, <1>5 DEF U!CodexIsSound
<1>8. U!StretchesInOrder /\ U!SnapshotsInOrder
  BY <1>2, <1>3 DEF U!StretchesInOrder, U!SnapshotsInOrder
<1>9. U!BaselinesAreSound /\ U!StartsAreSound
  BY <1>3 DEF U!BaselinesAreSound, U!StartsAreSound
<1>10. U!ReportsAreTracked
  BY <1>2 DEF U!ReportsAreTracked
<1>. QED
  BY <1>4, <1>6, <1>7, <1>8, <1>9, <1>10 DEF U!UsageInv

LEMMA UsageIsInductive ==
  ASSUME UsageAssumption, U!UsageInv, [U!Next]_U!vars
  PROVE  U!UsageInv'
<1>1. ASSUME NEW e \in U!Numbers,
             \/ U!Dispatch(e) \/ U!NotRequested(e) \/ U!Attach(e) \/ U!Request(e) \/ U!Acknowledge(e)
             \/ U!ReplayEarly(e) \/ U!Settle(e) \/ U!GivesUp(e) \/ U!HandlerExpires(e)
             \/ U!CodexStarts(e) \/ U!CodexSpends(e) \/ U!CodexReports(e) \/ U!CodexCompletes(e)
      PROVE  U!UsageInv'
  <2>1. CASE U!Dispatch(e)
    BY <2>1, DispatchKeeps
  <2>2. CASE U!NotRequested(e)
    BY <2>2, NotRequestedKeeps
  <2>3. CASE U!Attach(e)
    BY <2>3, AttachKeeps
  <2>4. CASE U!Request(e)
    BY <2>4, RequestKeeps
  <2>5. CASE U!Acknowledge(e)
    BY <2>5, AcknowledgeKeeps
  <2>6. CASE U!ReplayEarly(e)
    BY <2>6, ReplayEarlyKeeps
  <2>7. CASE U!Settle(e)
    BY <2>7, SettleKeeps
  <2>8. CASE U!GivesUp(e)
    BY <2>8, GivesUpKeeps
  <2>9. CASE U!HandlerExpires(e)
    BY <2>9, HandlerExpiresKeeps
  <2>10. CASE U!CodexStarts(e)
    BY <2>10, CodexStartsKeeps
  <2>11. CASE U!CodexSpends(e)
    BY <2>11, CodexSpendsKeeps
  <2>12. CASE U!CodexReports(e) \/ U!CodexCompletes(e)
    BY <2>12, WritingKeeps
  <2>. QED
    BY <1>1, <2>1, <2>2, <2>3, <2>4, <2>5, <2>6, <2>7, <2>8, <2>9, <2>10, <2>11, <2>12
<1>2. CASE U!HandleLine
  BY <1>2, HandleLineKeeps
<1>3. CASE U!OutsideTurn
  BY <1>3, OutsideTurnKeeps
<1>4. CASE U!Dies
  BY <1>4, DiesKeeps
<1>5. CASE UNCHANGED U!vars
  <2>1. /\ driver' = driver /\ handlers' = handlers /\ row' = row /\ snapshot' = snapshot /\ wire' = wire
        /\ codex' = codex /\ missed' = missed
    BY <1>5 DEF U!vars
  <2>2. U!TypeOK' /\ U!RunsInOrder'
    BY <2>1, ProviderStepsKeep DEF U!UsageInv, U!TypeOK
  <2>3. ASSUME NEW f \in U!Numbers
        PROVE  /\ CountsKept(f) /\ driver'[f].early = driver[f].early
               /\ (row[f].turn => row'[f].turn) /\ (row[f].finished => row'[f].finished)
               /\ (row[f].requested => row'[f].requested)
               /\ (U!Known(f)' => U!Known(f)) /\ (U!Awaits(f)' => U!Awaits(f))
               /\ driver[f].at \notin {"idle", "dispatched", "attached"} =>
                     driver'[f].at \notin {"idle", "dispatched", "attached"}
               /\ row'[f].turn \/ driver'[f].at = "answered" => row[f].turn \/ driver[f].at = "answered"
               /\ f \in codex.asked \union codex.history => driver[f].at \notin {"idle", "dispatched", "attached"}
    <3>1. f \in codex.asked \union codex.history => driver[f].at \notin {"idle", "dispatched", "attached"}
      BY CodexFacts
    <3>2. (U!Known(f)' => U!Known(f)) /\ (U!Awaits(f)' => U!Awaits(f))
      BY <2>1 DEF U!Known, U!Awaits
    <3>3. CountsKept(f)
      BY <2>1 DEF CountsKept
    <3>. QED
      BY <2>1, <3>1, <3>2, <3>3
  <2>. QED
    BY <2>1, <2>2, <2>3, CountsAreKept
<1>. QED
  BY <1>1, <1>2, <1>3, <1>4, <1>5 DEF U!Next

\* A row that contributes has a count and a baseline, which every count before it respects.
LEMMA SharesAreGrowth ==
  ASSUME UsageAssumption, U!UsageInv, NEW e \in U!Numbers, row[e].delta # Unknown
  PROVE  /\ row[e].cumulative \in Nat /\ row[e].baseline \in Nat /\ row[e].baseline <= row[e].cumulative
         /\ row[e].delta = row[e].cumulative - row[e].baseline /\ row[e].delta \in Nat
         /\ row[e].turn /\ e \in codex.history /\ U!Known(e) /\ codex.spent[e] > 0
         /\ row[e].cumulative <= codex.mark[e]
<1>1. /\ row[e].cumulative \in U!Counts /\ row[e].baseline \in U!Counts
      /\ row[e].delta = U!Growth(row[e].cumulative, row[e].baseline)
  BY DEF U!UsageInv, U!TypeOK, U!Rows, U!RunsInOrder, U!RowFollowsRun
<1>2. /\ row[e].cumulative \in Nat /\ row[e].baseline \in Nat /\ row[e].baseline <= row[e].cumulative
      /\ row[e].delta = row[e].cumulative - row[e].baseline /\ row[e].cumulative # Unknown
  BY <1>1 DEF U!Growth, U!Counts, UsageAssumption
<1>3. row[e].turn
  BY <1>2 DEF U!UsageInv, U!RunsInOrder, U!RowFollowsRun
<1>4. U!Start(e) < row[e].cumulative /\ row[e].cumulative <= codex.mark[e]
  BY <1>2 DEF U!UsageInv, U!StretchesInOrder
<1>5. /\ U!Start(e) = codex.mark[e] - codex.spent[e] /\ codex.mark[e] \in Nat /\ codex.spent[e] \in Nat
      /\ e \in codex.history
  BY <1>3, CodexFacts
<1>6. codex.spent[e] > 0
  BY <1>2, <1>4, <1>5
<1>. QED
  BY <1>2, <1>3, <1>4, <1>5, <1>6 DEF U!Known

LEMMA EarlierCountsAreBelow ==
  ASSUME UsageAssumption, U!UsageInv, NEW d \in U!Numbers, NEW e \in U!Numbers, d < e,
         row[d].delta # Unknown, row[e].delta # Unknown
  PROVE  row[d].cumulative <= row[e].baseline
<1>1. row[d].cumulative \in Nat /\ row[d].turn /\ row[e].baseline \in Nat
  BY SharesAreGrowth
<1>2. row[d].thread
  BY <1>1 DEF U!UsageInv, U!RunsInOrder, U!RowFollowsRun
<1>3. row[e].fresh \/ row[e].continuous
  BY <1>1 DEF U!UsageInv, U!RunsInOrder, U!RowFollowsRun, UsageAssumption
<1>4. CASE row[e].fresh
  BY <1>2, <1>4 DEF U!UsageInv, U!BaselinesAreSound
<1>5. CASE row[e].continuous
  <2>1. PICK p \in U!Numbers : U!Follows(p, e) /\ row[p].cumulative # Unknown /\ row[e].baseline = row[p].cumulative
    BY <1>5 DEF U!UsageInv, U!BaselinesAreSound
  <2>2. d <= p
    BY <1>2, <2>1 DEF U!Follows, U!Numbers, UsageAssumption
  <2>3. CASE d = p
    BY <1>1, <2>1, <2>3
  <2>4. CASE d < p
    <3>1. row[d].cumulative # Unknown
      BY <1>1 DEF UsageAssumption
    <3>2. row[p].cumulative \in Nat /\ row[d].cumulative < row[p].cumulative
      BY <2>1, <2>4, <3>1, CountsDiffer
    <3>. QED
      BY <1>1, <2>1, <3>2
  <2>. QED
    BY <2>2, <2>3, <2>4 DEF U!Numbers, UsageAssumption
<1>. QED
  BY <1>3, <1>4, <1>5

\* The bill up to a row is at most the largest count that contributes to it.
LEMMA BillIsBounded ==
  ASSUME UsageAssumption, U!UsageInv
  PROVE  U!Billed[NumTurns] <= codex.total
<1>. DEFINE v == [n \in U!Numbers |-> IF n \in U!Contributing THEN row[n].delta ELSE 0]
            Bounds(n, x) == \A d \in U!Numbers : d <= n /\ d \in U!Contributing => row[d].cumulative <= x
            S == {n \in Nat : n <= NumTurns =>
                     U!Billed[n] \in Nat /\ \A x \in Nat : Bounds(n, x) => U!Billed[n] <= x}
<1>1. \A n \in U!Contributing : n \in U!Numbers /\ row[n].delta # Unknown
  BY DEF U!Contributing, U!Requested
<1>2. v \in [U!Numbers -> Nat] /\ \A n \in U!Numbers : v[n] = IF n \in U!Contributing THEN row[n].delta ELSE 0
  <2>1. \A n \in U!Contributing : row[n].delta \in Nat
    BY <1>1, SharesAreGrowth
  <2>. QED
    BY <2>1
<1>3. U!Billed[0] = 0 /\ \A n \in U!Numbers : U!Billed[n] = U!Billed[n - 1] + v[n]
  <2>. HIDE DEF v
  <2>. QED
    BY <1>2, SharesAddUp DEF UsageAssumption
<1>4. 0 \in S
  BY <1>3
<1>5. ASSUME NEW n \in Nat, n \in S PROVE n + 1 \in S
  <2>. DEFINE e == n + 1
  <2>1. SUFFICES ASSUME e <= NumTurns
                 PROVE  U!Billed[e] \in Nat /\ \A x \in Nat : Bounds(e, x) => U!Billed[e] <= x
    OBVIOUS
  <2>2. e \in U!Numbers /\ e - 1 = n /\ n <= NumTurns /\ n < e
    BY <2>1 DEF U!Numbers, UsageAssumption
  <2>3. U!Billed[n] \in Nat /\ \A x \in Nat : Bounds(n, x) => U!Billed[n] <= x
    BY <1>5, <2>2
  <2>4. U!Billed[e] = U!Billed[n] + v[e] /\ v[e] \in Nat
    <3>1. v[e] \in Nat
      BY <1>2, <2>2
    <3>. HIDE DEF v, e
    <3>. QED
      BY <1>3, <2>2, <3>1
  <2>5. \A d \in U!Numbers : d <= n => d <= e /\ d < e
    BY <2>2 DEF U!Numbers
  <2>6. ASSUME NEW x \in Nat, Bounds(e, x) PROVE U!Billed[e] <= x
    <3>1. CASE e \in U!Contributing
      <4>1. /\ row[e].cumulative \in Nat /\ row[e].baseline \in Nat /\ row[e].baseline <= row[e].cumulative
            /\ row[e].delta = row[e].cumulative - row[e].baseline /\ row[e].delta \in Nat
        BY <1>1, <3>1, SharesAreGrowth
      <4>2. Bounds(n, row[e].baseline)
        BY <1>1, <2>2, <2>5, <3>1, EarlierCountsAreBelow
      <4>3. U!Billed[n] <= row[e].baseline
        BY <2>3, <4>1, <4>2
      <4>4. v[e] = row[e].delta
        BY <1>2, <2>2, <3>1
      <4>5. row[e].cumulative <= x
        BY <2>2, <2>6, <3>1
      <4>. HIDE DEF v, e
      <4>. QED
        BY <2>3, <2>4, <4>1, <4>3, <4>4, <4>5
    <3>2. CASE e \notin U!Contributing
      <4>1. v[e] = 0
        BY <1>2, <2>2, <3>2
      <4>2. Bounds(n, x)
        BY <2>5, <2>6
      <4>. HIDE DEF v, e
      <4>. QED
        BY <2>3, <2>4, <2>6, <4>1, <4>2
    <3>. QED
      BY <3>1, <3>2
  <2>. HIDE DEF v, e, Bounds
  <2>. QED
    BY <2>3, <2>4, <2>6
<1>6. NumTurns \in S
  <2>. HIDE DEF S
  <2>. QED
    BY <1>4, <1>5, Induction DEF UsageAssumption
<1>7. codex.total \in Nat /\ Bounds(NumTurns, codex.total)
  <2>1. ASSUME NEW d \in U!Contributing PROVE row[d].cumulative <= codex.total
    <3>1. row[d].cumulative \in Nat /\ row[d].cumulative <= codex.mark[d] /\ d \in U!Numbers
      BY <1>1, SharesAreGrowth
    <3>2. codex.mark[d] \in Nat /\ codex.mark[d] <= codex.total /\ codex.total \in Nat
      BY <3>1, CodexFacts
    <3>. QED
      BY <3>1, <3>2
  <2>. QED
    BY <2>1, CodexFacts
<1>. QED
  BY <1>6, <1>7 DEF UsageAssumption

\* A count that nothing is missing from is the last mark of its turn.
LEMMA DeliveredCountsAreMarks ==
  ASSUME UsageAssumption, U!UsageInv, NEW e \in U!Numbers, codex.spent[e] > 0, e \notin missed, ~U!Undelivered(e)
  PROVE  row[e].cumulative = codex.mark[e]
<1>1. e \notin codex.owed
  BY DEF U!Undelivered
<1>2. SUFFICES ASSUME NEW m \in U!Pending, m.turn = e PROVE FALSE
  BY <1>1 DEF U!UsageInv, U!ReportsAreTracked
<1>3. CASE m \in U!Elements(wire) /\ m.line = "usage"
  BY <1>2, <1>3 DEF U!Elements, U!Undelivered
<1>4. CASE \E d \in U!Numbers : m \in U!Elements(driver[d].early)
  BY <1>2, <1>4 DEF U!Elements, U!Undelivered, U!Kept
<1>. QED
  BY <1>2, <1>3, <1>4 DEF U!Pending

LEMMA CompleteReceiptsAreExact ==
  ASSUME UsageAssumption, U!UsageInv
  PROVE  U!CompleteIsExact
<1>. SUFFICES ASSUME NEW e \in U!Numbers, U!Status(e) = "complete",
                     \A d \in 1..e : d \notin missed /\ ~U!Undelivered(d)
              PROVE  row[e].delta = codex.spent[e]
  BY DEF U!CompleteIsExact
<1>1. row[e].delta # Unknown
  BY DEF U!Status
<1>2. /\ row[e].cumulative \in Nat /\ row[e].baseline \in Nat
      /\ row[e].delta = row[e].cumulative - row[e].baseline
      /\ row[e].turn /\ e \in codex.history /\ U!Known(e) /\ codex.spent[e] > 0
  BY <1>1, SharesAreGrowth
<1>3. \A d \in U!Numbers : d <= e => d \in 1..e
  BY DEF U!Numbers
<1>4. e \notin missed /\ ~U!Undelivered(e)
  BY <1>3 DEF U!Numbers
<1>5. row[e].cumulative = codex.mark[e]
  BY <1>2, <1>4, DeliveredCountsAreMarks
<1>6. /\ codex.mark[e] \in Nat /\ codex.spent[e] \in Nat /\ U!Start(e) = codex.mark[e] - codex.spent[e]
  BY CodexFacts
<1>7. row[e].baseline = U!Start(e)
  <2>1. row[e].fresh \/ row[e].continuous
    BY <1>2 DEF U!UsageInv, U!RunsInOrder, U!RowFollowsRun, UsageAssumption
  <2>2. CASE row[e].fresh
    <3>1. row[e].baseline = 0
      BY <2>2 DEF U!UsageInv, U!RunsInOrder, U!RowFollowsRun
    <3>2. U!Start(e) = 0
      BY <1>2, <2>2 DEF U!UsageInv, U!StartsAreSound
    <3>. QED
      BY <3>1, <3>2
  <2>3. CASE row[e].continuous
    <3>1. PICK p \in U!Numbers : U!Follows(p, e) /\ row[p].cumulative # Unknown /\ row[e].baseline = row[p].cumulative
      BY <2>3 DEF U!UsageInv, U!BaselinesAreSound
    <3>2. codex.mark[p] = U!Start(e)
      BY <1>2, <1>4, <2>3, <3>1 DEF U!UsageInv, U!StartsAreSound
    <3>3. codex.spent[p] > 0
      <4>1. U!Start(p) < row[p].cumulative /\ row[p].cumulative <= codex.mark[p]
        BY <3>1 DEF U!UsageInv, U!StretchesInOrder
      <4>2. /\ codex.mark[p] \in Nat /\ codex.spent[p] \in Nat /\ U!Start(p) = codex.mark[p] - codex.spent[p]
        BY CodexFacts
      <4>. QED
        BY <1>2, <3>1, <4>1, <4>2
    <3>4. p \notin missed /\ ~U!Undelivered(p)
      BY <1>3, <3>1 DEF U!Follows, U!Numbers
    <3>. QED
      BY <3>1, <3>2, <3>3, <3>4, DeliveredCountsAreMarks
  <2>. QED
    BY <2>1, <2>2, <2>3
<1>. QED
  BY <1>2, <1>5, <1>6, <1>7

LEMMA TheTruthFollows ==
  ASSUME UsageAssumption, U!UsageInv
  PROVE  U!UsageIsTrue
<1>1. U!Summary.total = U!Billed[NumTurns]
  BY DEF U!Summary
<1>2. U!BilledOnce
  BY <1>1, BillIsBounded DEF U!BilledOnce, U!UsageInv, U!SnapshotsInOrder
<1>3. U!UsedIsNotZero
  <2>1. ASSUME NEW e \in U!Numbers, codex.spent[e] > 0 PROVE row[e].requested
    BY <2>1, CodexFacts
  <2>. QED
    BY <2>1 DEF U!UsedIsNotZero, U!Status
<1>. QED
  BY <1>2, <1>3, CompleteReceiptsAreExact DEF U!UsageIsTrue

\* The rows, the driver and the provider's own account agree in every state, for any number of turns on
\* a thread: reports late, kept or lost, turns given up, an app-server that dies, other clients.
THEOREM UsageIsSound ==
  ASSUME UsageAssumption PROVE U!Spec => []U!UsageInv
<1>1. U!Init => U!UsageInv
  BY UsageBegins
<1>2. U!UsageInv /\ [U!Next]_U!vars => U!UsageInv'
  BY UsageIsInductive
<1>. QED
  BY <1>1, <1>2, PTL DEF U!Spec

\* The token account of a Codex thread is true: no token is billed twice, what a receipt calls complete
\* is what the turn used once nothing is missing, and nothing used is called unused (work-ledger.ts).
THEOREM UsageTellsTheTruth ==
  ASSUME UsageAssumption PROVE U!Spec => []U!UsageIsTrue
<1>1. U!UsageInv => U!UsageIsTrue
  BY TheTruthFollows
<1>. QED
  BY <1>1, UsageIsSound, PTL
-------------------------------------------------------------------------------
(***************************************************************************)
(* Reviews of a workspace (ReviewCheckpoints).                             *)
(***************************************************************************)
\* Ancestors is a function when every commit is younger than its parent.
Lineage(n, p, g) == g = [c \in 0..n |-> IF c = 0 THEN {} ELSE {c} \union g[p[c]]]

LEMMA LineageExists ==
  ASSUME NEW N \in Nat, NEW p \in [1..N -> Nat], \A c \in 1..N : p[c] < c
  PROVE  \E g : Lineage(N, p, g)
<1>. DEFINE Lines(m, g) == /\ DOMAIN g = 0..m /\ g = [c \in 0..m |-> g[c]] /\ g[0] = {}
                           /\ \A c \in 1..m : g[c] = {c} \union g[p[c]]
            S == {m \in Nat : m <= N => \E g : Lines(m, g)}
<1>1. 0 \in S
  <2>1. Lines(0, [c \in 0..0 |-> {}])
    OBVIOUS
  <2>. HIDE DEF Lines
  <2>. QED
    BY <2>1
<1>2. ASSUME NEW m \in Nat, m \in S PROVE m + 1 \in S
  <2>1. SUFFICES ASSUME m + 1 <= N PROVE \E g : Lines(m + 1, g)
    OBVIOUS
  <2>2. PICK g : Lines(m, g)
    BY <1>2, <2>1
  <2>. DEFINE h == [c \in 0..(m + 1) |-> IF c = m + 1 THEN {c} \union g[p[c]] ELSE g[c]]
  <2>3. DOMAIN h = 0..(m + 1) /\ h = [c \in 0..(m + 1) |-> h[c]] /\ h[0] = {}
    BY <2>2
  <2>4. ASSUME NEW c \in 1..(m + 1) PROVE h[c] = {c} \union h[p[c]]
    <3>1. p[c] \in Nat /\ p[c] < c /\ c \in 0..(m + 1)
      BY <2>1
    <3>2. p[c] \in 0..(m + 1) /\ p[c] # m + 1
      BY <3>1
    <3>3. h[p[c]] = g[p[c]]
      BY <3>2
    <3>4. CASE c = m + 1
      BY <3>1, <3>3, <3>4
    <3>5. CASE c # m + 1
      <4>1. c \in 1..m
        BY <3>5
      <4>. QED
        BY <2>2, <3>1, <3>3, <3>5, <4>1
    <3>. QED
      BY <3>4, <3>5
  <2>5. Lines(m + 1, h)
    <3>. HIDE DEF h
    <3>. QED
      BY <2>3, <2>4
  <2>. HIDE DEF Lines, h
  <2>. QED
    BY <2>5
<1>3. N \in S
  <2>. HIDE DEF S
  <2>. QED
    BY <1>1, <1>2, Induction
<1>4. PICK g : Lines(N, g)
  BY <1>3
<1>5. \A c \in 0..N : g[c] = IF c = 0 THEN {} ELSE {c} \union g[p[c]]
  BY <1>4
<1>. QED
  BY <1>4, <1>5 DEF Lineage

Parents(s) == [c \in 1..Len(s) |-> s[c].parent]
LEMMA ParentsOfCommits ==
  ASSUME NEW s \in Seq(R!Commits)
  PROVE  /\ Len(s) \in Nat /\ Parents(s) \in [1..Len(s) -> Nat]
         /\ \A c \in 1..Len(s) : Parents(s)[c] = s[c].parent /\ s[c].parent \in Nat
<1>1. \A c \in 1..Len(s) : s[c] \in R!Commits
  OBVIOUS
<1>2. \A c \in 1..Len(s) : s[c].parent \in Nat
  BY <1>1 DEF R!Commits
<1>. QED
  BY <1>2 DEF Parents

AncestorsIn(s) ==
    CHOOSE g : g = [c \in 0..Len(s) |-> IF c = 0 THEN {} ELSE {c} \union g[s[c].parent]]

LEMMA AncestorsAreLineage ==
  ASSUME NEW s \in Seq(R!Commits), \A c \in 1..Len(s) : s[c].parent < c
  PROVE  Lineage(Len(s), Parents(s), AncestorsIn(s))
<1>. DEFINE Unfolds(g) == [c \in 0..Len(s) |-> IF c = 0 THEN {} ELSE {c} \union g[s[c].parent]]
            Folds(g) == [c \in 0..Len(s) |-> IF c = 0 THEN {} ELSE {c} \union g[Parents(s)[c]]]
<1>1. \A g : Unfolds(g) = Folds(g)
  <2>1. \A c \in 0..Len(s) : c # 0 => Parents(s)[c] = s[c].parent
    <3>1. \A c \in 0..Len(s) : c # 0 => c \in 1..Len(s)
      OBVIOUS
    <3>. QED
      BY <3>1, ParentsOfCommits
  <2>. QED
    BY <2>1
<1>2. \E g : g = Unfolds(g)
  <2>1. PICK g : Lineage(Len(s), Parents(s), g)
    BY ParentsOfCommits, LineageExists
  <2>2. g = Unfolds(g)
    BY <1>1, <2>1 DEF Lineage
  <2>. QED
    BY <2>2
<1>3. AncestorsIn(s) = CHOOSE g : g = Unfolds(g)
  BY DEF AncestorsIn
<1>4. AncestorsIn(s) = Unfolds(AncestorsIn(s))
  <2>. HIDE DEF Unfolds
  <2>. QED
    BY <1>2, <1>3
<1>. QED
  BY <1>1, <1>4 DEF Lineage

\* What is used of a history: a commit, and its parent's ancestors.
LEMMA AncestorsUnfold ==
  ASSUME NEW s \in Seq(R!Commits), \A c \in 1..Len(s) : s[c].parent < c
  PROVE  /\ AncestorsIn(s)[0] = {}
         /\ \A c \in 1..Len(s) : AncestorsIn(s)[c] = {c} \union AncestorsIn(s)[s[c].parent]
         /\ \A c \in 1..Len(s) : s[c].parent \in 0..Len(s) /\ s[c].parent < c
<1>1. /\ Len(s) \in Nat /\ Parents(s) \in [1..Len(s) -> Nat]
      /\ \A c \in 1..Len(s) : /\ Parents(s)[c] < c /\ Parents(s)[c] = s[c].parent
                              /\ s[c].parent \in Nat /\ s[c].parent < c
  BY ParentsOfCommits
<1>2. Lineage(Len(s), Parents(s), AncestorsIn(s))
  BY AncestorsAreLineage
<1>3. AncestorsIn(s) = [c \in 0..Len(s) |-> IF c = 0 THEN {} ELSE {c} \union AncestorsIn(s)[Parents(s)[c]]]
  BY <1>2 DEF Lineage
<1>4. ASSUME NEW c \in 1..Len(s)
      PROVE  /\ s[c].parent \in 0..Len(s) /\ s[c].parent < c
             /\ AncestorsIn(s)[c] = {c} \union AncestorsIn(s)[s[c].parent]
  <2>1. c \in 0..Len(s) /\ c # 0 /\ Parents(s)[c] = s[c].parent /\ s[c].parent \in 0..Len(s) /\ s[c].parent < c
    BY <1>1
  <2>. QED
    BY ONLY <1>3, <2>1
<1>5. AncestorsIn(s)[0] = {}
  BY <1>1, <1>3
<1>. QED
  BY <1>4, <1>5

\* Ancestors are older, and the same in a history that goes on.
LEMMA HistoriesAgree ==
  ASSUME NEW s \in Seq(R!Commits), \A c \in 1..Len(s) : s[c].parent < c,
         NEW t \in Seq(R!Commits), \A c \in 1..Len(t) : t[c].parent < c,
         Len(s) <= Len(t), \A c \in 1..Len(s) : t[c] = s[c]
  PROVE  \A c \in 0..Len(s) : AncestorsIn(t)[c] = AncestorsIn(s)[c] /\ AncestorsIn(s)[c] \subseteq 1..c
<1>. DEFINE g == AncestorsIn(s)
            h == AncestorsIn(t)
            S == {m \in Nat : \A c \in 0..Len(s) : c <= m => h[c] = g[c] /\ g[c] \subseteq 1..c}
<1>1. g[0] = {} /\ h[0] = {} /\ Len(s) \in Nat
  BY AncestorsUnfold
<1>2. 0 \in S
  <2>1. ASSUME NEW c \in 0..Len(s), c <= 0 PROVE h[c] = g[c] /\ g[c] \subseteq 1..c
    <3>1. c = 0
      BY <2>1
    <3>. QED
      BY <1>1, <3>1
  <2>. HIDE DEF g, h
  <2>. QED
    BY <2>1
<1>3. ASSUME NEW m \in Nat, m \in S PROVE m + 1 \in S
  <2>1. SUFFICES ASSUME NEW c \in 0..Len(s), c = m + 1 PROVE h[c] = g[c] /\ g[c] \subseteq 1..c
    <3>. HIDE DEF g, h
    <3>. QED
      BY <1>3
  <2>2. c \in 1..Len(s) /\ c \in 1..Len(t)
    BY <2>1
  <2>3. /\ s[c].parent \in 0..Len(s) /\ s[c].parent <= m /\ s[c].parent < c /\ t[c].parent = s[c].parent
        /\ g[c] = {c} \union g[s[c].parent] /\ h[c] = {c} \union h[t[c].parent]
    <3>1. s[c].parent \in 0..Len(s) /\ s[c].parent < c /\ g[c] = {c} \union g[s[c].parent]
      BY <2>2, AncestorsUnfold
    <3>2. h[c] = {c} \union h[t[c].parent]
      BY <2>2, AncestorsUnfold
    <3>3. t[c].parent = s[c].parent
      BY <2>2
    <3>. QED
      BY <2>1, <3>1, <3>2, <3>3
  <2>. HIDE DEF g, h
  <2>4. h[s[c].parent] = g[s[c].parent] /\ g[s[c].parent] \subseteq 1..s[c].parent
    BY <1>3, <2>3
  <2>5. 1..s[c].parent \subseteq 1..c /\ c \in 1..c
    BY <2>1, <2>2, <2>3
  <2>. QED
    BY <2>3, <2>4, <2>5
<1>4. Len(s) \in S
  <2>. HIDE DEF S
  <2>. QED
    BY <1>1, <1>2, <1>3, Induction
<1>. QED
  BY <1>4

LEMMA HistoryGrows ==
  ASSUME NEW s \in Seq(R!Commits), \A c \in 1..Len(s) : s[c].parent < c,
         NEW x \in R!Commits, x.parent <= Len(s)
  PROVE  /\ Append(s, x) \in Seq(R!Commits) /\ Len(Append(s, x)) = Len(s) + 1
         /\ Append(s, x)[Len(s) + 1] = x /\ \A c \in 1..Len(s) : Append(s, x)[c] = s[c]
         /\ \A c \in 1..Len(Append(s, x)) : Append(s, x)[c].parent < c
         /\ \A c \in 0..Len(s) : AncestorsIn(Append(s, x))[c] = AncestorsIn(s)[c]
<1>. DEFINE t == Append(s, x)
<1>1. /\ t \in Seq(R!Commits) /\ Len(t) = Len(s) + 1 /\ t[Len(s) + 1] = x /\ Len(s) \in Nat
      /\ \A c \in 1..Len(s) : t[c] = s[c]
  OBVIOUS
<1>. HIDE DEF t
<1>2. x.parent \in Nat
  BY DEF R!Commits
<1>3. \A c \in 1..Len(t) : t[c].parent < c
  <2>1. \A c \in 1..Len(t) : c = Len(s) + 1 \/ c \in 1..Len(s)
    BY <1>1
  <2>2. x.parent < Len(s) + 1
    BY <1>1, <1>2
  <2>. QED
    BY <1>1, <2>1, <2>2
<1>4. Len(s) <= Len(t)
  BY <1>1
<1>5. \A c \in 0..Len(s) : AncestorsIn(t)[c] = AncestorsIn(s)[c]
  BY <1>1, <1>3, <1>4, HistoriesAgree
<1>. QED
  BY <1>1, <1>3, <1>5 DEF t

\* What every step does to the history: it stays, or gains a commit.
HistoryKept ==
    /\ commits' \in Seq(R!Commits) /\ R!ParentsAreOlder' /\ Len(commits) <= Len(commits')
    /\ \A c \in 1..Len(commits) : commits'[c] = commits[c]
    /\ \A c \in 0..Len(commits) : AncestorsIn(commits')[c] = AncestorsIn(commits)[c]
CoveredNext(c) ==
    /\ c \in 1..Len(commits')
    /\ refs'.open # 0 =>
         /\ refs'.open \in AncestorsIn(commits')[c]
         /\ \A d \in AncestorsIn(commits')[c] \ AncestorsIn(commits')[refs'.open] : <<commits'[d].parent, d>> \in shown'

LEMMA AncestorsAreIn == R!Ancestors = AncestorsIn(commits) /\ R!Ancestors' = AncestorsIn(commits')
BY DEF R!Ancestors, AncestorsIn

LEMMA HistoryFacts ==
  ASSUME R!ReviewInv
  PROVE  /\ commits \in Seq(R!Commits) /\ Len(commits) \in Nat
         /\ \A c \in 1..Len(commits) : commits[c].parent < c
         /\ \A c \in 1..Len(commits) : AncestorsIn(commits)[c] = {c} \union AncestorsIn(commits)[commits[c].parent]
         /\ \A c \in 0..Len(commits) : AncestorsIn(commits)[c] \subseteq 1..c
<1>1. commits \in Seq(R!Commits) /\ \A c \in 1..Len(commits) : commits[c].parent < c
  BY DEF R!ReviewInv, R!TypeOK, R!ParentsAreOlder
<1>. QED
  <2>1. Len(commits) <= Len(commits) /\ Len(commits) \in Nat
    BY <1>1
  <2>2. \A c \in 0..Len(commits) : AncestorsIn(commits)[c] \subseteq 1..c
    BY <1>1, <2>1, HistoriesAgree
  <2>. QED
    BY <1>1, <2>1, <2>2, AncestorsUnfold

LEMMA HistoryStays ==
  ASSUME R!ReviewInv, commits' = commits
  PROVE  HistoryKept
<1>1. commits \in Seq(R!Commits) /\ Len(commits) \in Nat /\ R!ParentsAreOlder'
  BY HistoryFacts DEF R!ParentsAreOlder
<1>. QED
  BY <1>1 DEF HistoryKept

LEMMA SnapshotGrows ==
  ASSUME R!ReviewInv, NEW parent \in 0..Len(commits), R!Snapshot(parent)
  PROVE  /\ HistoryKept /\ Len(commits') = Len(commits) + 1 /\ Len(commits) + 1 \in 1..Len(commits')
         /\ commits'[Len(commits) + 1].parent = parent
<1>. DEFINE x == [tree |-> work, parent |-> parent]
<1>1. commits' = Append(commits, x) /\ x \in R!Commits /\ x.parent = parent /\ x.parent <= Len(commits)
  BY HistoryFacts DEF R!Snapshot, R!Commits, R!ReviewInv, R!TypeOK
<1>. HIDE DEF x
<1>. QED
  BY <1>1, HistoryFacts, HistoryGrows DEF HistoryKept, R!ParentsAreOlder

LEMMA CoveredStays ==
  ASSUME R!ReviewInv, HistoryKept, shown \subseteq shown', refs'.open = refs.open \/ refs'.open = 0,
         NEW c, R!Covered(c)
  PROVE  CoveredNext(c)
<1>1. /\ c \in 1..Len(commits)
      /\ refs.open # 0 =>
           /\ refs.open \in AncestorsIn(commits)[c]
           /\ \A d \in AncestorsIn(commits)[c] \ AncestorsIn(commits)[refs.open] : <<commits[d].parent, d>> \in shown
  BY AncestorsAreIn DEF R!Covered
<1>2. refs.open # 0 => refs.open \in 0..Len(commits)
  BY HistoryFacts DEF R!ReviewInv, R!RefsAreCovered
<1>3. \A d \in AncestorsIn(commits)[c] : d \in 1..Len(commits)
  BY <1>1, HistoryFacts
<1>4. c \in 0..Len(commits) /\ c \in 1..Len(commits') /\ AncestorsIn(commits')[c] = AncestorsIn(commits)[c]
  BY <1>1, HistoryFacts DEF HistoryKept
<1>5. refs.open # 0 => AncestorsIn(commits')[refs.open] = AncestorsIn(commits)[refs.open]
  BY <1>2 DEF HistoryKept
<1>6. \A d \in AncestorsIn(commits)[c] : commits'[d] = commits[d]
  BY <1>3 DEF HistoryKept
<1>. QED
  BY <1>1, <1>4, <1>5, <1>6 DEF CoveredNext

\* A step that keeps the opening's ref, or loses it, and lets nothing count as covered that was not.
LEMMA ReviewsStayCovered ==
  ASSUME R!ReviewInv, R!TypeOK', HistoryKept, shown \subseteq shown',
         refs'.open = refs.open \/ refs'.open = 0,
         \A b \in Nat : b = refs'.baseline /\ b # 0 => R!Covered(b),
         \A q \in Reviews : \A b \in Nat : review'[q].step # "none" /\ b = review'[q].baseline =>
            memory'.ready /\ R!Covered(b),
         \A q \in Reviews : review'[q].step = "snapped" =>
            /\ review'[q].commit \in 1..Len(commits')
            /\ commits'[review'[q].commit].parent = review'[q].baseline
            /\ <<review'[q].baseline, review'[q].commit>> \in shown',
         R!OpeningIsAlone', R!OnlyReviewsAreRepeated'
  PROVE  R!ReviewInv'
<1>1. /\ refs' \in [open : Nat, baseline : Nat] /\ review' \in [Reviews -> R!ReviewStates]
  BY DEF R!TypeOK
<1>2. refs'.open # 0 => refs'.open \in 1..Len(commits')
  BY HistoryFacts DEF R!ReviewInv, R!RefsAreCovered, HistoryKept
<1>3. refs'.baseline # 0 => CoveredNext(refs'.baseline)
  BY <1>1, CoveredStays
<1>4. ASSUME NEW q \in Reviews, review'[q].step # "none"
      PROVE  memory'.ready /\ CoveredNext(review'[q].baseline)
  <2>1. review'[q].baseline \in Nat
    BY <1>1 DEF R!ReviewStates
  <2>. QED
    BY <1>4, <2>1, CoveredStays
<1>5. R!RefsAreCovered'
  BY <1>2, <1>3, AncestorsAreIn DEF R!RefsAreCovered, R!Covered, CoveredNext
<1>6. R!ReviewsAreCovered'
  BY <1>4, AncestorsAreIn DEF R!ReviewsAreCovered, R!Covered, CoveredNext
<1>. QED
  BY <1>5, <1>6 DEF R!ReviewInv, HistoryKept

LEMMA RefsAreRecords ==
  ASSUME R!TypeOK
  PROVE  /\ refs.open \in Nat /\ refs.baseline \in Nat
         /\ \A q \in Reviews : review[q] \in R!ReviewStates /\ review[q].baseline \in Nat /\ review[q].commit \in Nat
BY DEF R!TypeOK, R!ReviewStates

\* Steps that change neither history nor refs, and let no review go further than it has come.
LEMMA ResumingKeeps ==
  ASSUME R!ReviewInv, R!TypeOK', commits' = commits, refs' = refs, shown' = shown, R!OnlyReviewsAreRepeated',
         memory'.ready = memory.ready \/ \A q \in Reviews : review'[q].step = "none",
         \A q \in Reviews : review'[q] = review[q] \/ review'[q].step = "none",
         R!OpeningIsAlone'
  PROVE  R!ReviewInv'
<1>1. HistoryKept
  BY HistoryStays
<1>2. \A b \in Nat : b = refs'.baseline /\ b # 0 => R!Covered(b)
  BY DEF R!ReviewInv, R!RefsAreCovered
<1>3. \A q \in Reviews : \A b \in Nat : review'[q].step # "none" /\ b = review'[q].baseline =>
         memory'.ready /\ R!Covered(b)
  BY DEF R!ReviewInv, R!ReviewsAreCovered
<1>4. \A q \in Reviews : review'[q].step = "snapped" =>
         /\ review'[q].commit \in 1..Len(commits')
         /\ commits'[review'[q].commit].parent = review'[q].baseline
         /\ <<review'[q].baseline, review'[q].commit>> \in shown'
  BY DEF R!ReviewInv, R!ReviewsAreCovered
<1>. QED
  BY <1>1, <1>2, <1>3, <1>4, ReviewsStayCovered

LEMMA InitializeKeeps ==
  ASSUME R!ReviewInv, R!Initialize
  PROVE  R!ReviewInv'
<1>1. /\ ~memory.ready /\ opening.step = "none" /\ refs' = refs /\ review' = review /\ shown' = shown
      /\ work' = work /\ repeated' = repeated
  BY DEF R!Initialize
<1>2. R!OnlyReviewsAreRepeated'
  BY <1>1 DEF R!ReviewInv, R!OnlyReviewsAreRepeated
<1>3. \A q \in Reviews : review[q].step = "none"
  BY <1>1 DEF R!ReviewInv, R!ReviewsAreCovered
<1>4. CASE refs.open = 0 /\ refs.baseline = 0
  <2>1. /\ R!Snapshot(0) /\ opening' = [step |-> "snapped", commit |-> Len(commits) + 1] /\ memory' = memory
    BY <1>4 DEF R!Initialize
  <2>2. /\ HistoryKept /\ Len(commits) + 1 \in 1..Len(commits') /\ commits' \in Seq(R!Commits)
    BY <2>1, HistoryFacts, SnapshotGrows DEF HistoryKept
  <2>3. R!TypeOK'
    BY <1>1, <2>1, <2>2, HistoryFacts DEF R!ReviewInv, R!TypeOK
  <2>4. R!OpeningIsAlone'
    BY <1>1, <1>4, <2>1, <2>2 DEF R!OpeningIsAlone
  <2>. QED
    BY <1>1, <1>2, <1>3, <1>4, <2>2, <2>3, <2>4, ReviewsStayCovered
<1>5. CASE ~(refs.open = 0 /\ refs.baseline = 0)
  <2>1. /\ commits' = commits /\ opening' = opening
        /\ memory' \in [ready : BOOLEAN, open : BOOLEAN, baseline : BOOLEAN]
    <3>1. /\ commits' = commits /\ opening' = opening
          /\ memory' = [ready |-> TRUE, open |-> refs.open # 0, baseline |-> refs.baseline # 0]
      BY <1>5 DEF R!Initialize, R!Ready
    <3>2. (refs.open # 0) \in BOOLEAN /\ (refs.baseline # 0) \in BOOLEAN
      BY Zenon
    <3>3. \A o, f \in BOOLEAN : [ready |-> TRUE, open |-> o, baseline |-> f]
                                  \in [ready : BOOLEAN, open : BOOLEAN, baseline : BOOLEAN]
      OBVIOUS
    <3>4. [ready |-> TRUE, open |-> refs.open # 0, baseline |-> refs.baseline # 0]
             \in [ready : BOOLEAN, open : BOOLEAN, baseline : BOOLEAN]
      BY ONLY <3>2, <3>3, Zenon
    <3>. QED
      BY ONLY <3>1, <3>4, Zenon
  <2>2. R!TypeOK' /\ R!OpeningIsAlone'
    BY <1>1, <2>1 DEF R!ReviewInv, R!TypeOK, R!OpeningIsAlone
  <2>. QED
    BY <1>1, <1>2, <1>3, <2>1, <2>2, ResumingKeeps
<1>. QED
  BY <1>4, <1>5

\* The opening's ref is set before there is a baseline, or a review.
LEMMA SetOpenRefKeeps ==
  ASSUME R!ReviewInv, R!SetOpenRef
  PROVE  R!ReviewInv'
<1>1. /\ opening.step = "snapped" /\ opening' = [opening EXCEPT !.step = "open"]
      /\ refs' = [refs EXCEPT !.open = opening.commit] /\ work' = work /\ commits' = commits
      /\ memory' = memory /\ review' = review /\ shown' = shown /\ repeated' = repeated
  BY DEF R!SetOpenRef
<1>2. /\ ~memory.ready /\ refs.baseline = 0 /\ opening.commit \in 1..Len(commits)
  BY <1>1 DEF R!ReviewInv, R!OpeningIsAlone
<1>3. \A q \in Reviews : review[q].step = "none"
  BY <1>2 DEF R!ReviewInv, R!ReviewsAreCovered
<1>4. /\ opening'.step = "open" /\ opening'.commit = opening.commit
      /\ refs'.open = opening.commit /\ refs'.baseline = 0 /\ R!TypeOK'
  BY <1>1, <1>2, HistoryFacts DEF R!ReviewInv, R!TypeOK
<1>5. R!RefsAreCovered' /\ R!ReviewsAreCovered' /\ R!OpeningIsAlone'
  BY <1>1, <1>2, <1>3, <1>4 DEF R!RefsAreCovered, R!ReviewsAreCovered, R!OpeningIsAlone
<1>6. R!ParentsAreOlder' /\ R!OnlyReviewsAreRepeated'
  BY <1>1 DEF R!ReviewInv, R!ParentsAreOlder, R!OnlyReviewsAreRepeated
<1>. QED
  BY <1>4, <1>5, <1>6 DEF R!ReviewInv

LEMMA SetBaselineRefKeeps ==
  ASSUME R!ReviewInv, R!SetBaselineRef
  PROVE  R!ReviewInv'
<1>1. /\ opening.step = "open" /\ opening' = [step |-> "none", commit |-> 0]
      /\ refs' = [refs EXCEPT !.baseline = opening.commit] /\ work' = work /\ commits' = commits
      /\ memory' = [ready |-> TRUE, open |-> TRUE, baseline |-> TRUE]
      /\ review' = review /\ shown' = shown /\ repeated' = repeated
  BY DEF R!SetBaselineRef, R!Ready
<1>2. /\ ~memory.ready /\ opening.commit \in 1..Len(commits) /\ refs.open \in {0, opening.commit}
  BY <1>1 DEF R!ReviewInv, R!OpeningIsAlone
<1>3. \A q \in Reviews : review[q].step = "none"
  BY <1>2 DEF R!ReviewInv, R!ReviewsAreCovered
<1>4. /\ opening'.step = "none" /\ refs'.baseline = opening.commit /\ refs'.open = refs.open /\ R!TypeOK'
  BY <1>1, <1>2, HistoryFacts DEF R!ReviewInv, R!TypeOK
<1>5. R!Covered(opening.commit)
  <2>1. opening.commit \in AncestorsIn(commits)[opening.commit]
    BY <1>2, HistoryFacts
  <2>. QED
    BY <1>2, <2>1, AncestorsAreIn DEF R!Covered
<1>6. \A b \in Nat : b = refs'.baseline /\ b # 0 => R!Covered(b)
  BY <1>4, <1>5
<1>7. R!OpeningIsAlone' /\ R!OnlyReviewsAreRepeated'
  BY <1>1, <1>4 DEF R!ReviewInv, R!OpeningIsAlone, R!OnlyReviewsAreRepeated
<1>. QED
  BY <1>1, <1>3, <1>4, <1>6, <1>7, HistoryStays, ReviewsStayCovered

LEMMA BeginKeeps ==
  ASSUME R!ReviewInv, NEW q \in Reviews, NEW since \in {"last_shown", "workspace_open"}, NEW mark \in BOOLEAN,
         R!Begin(q, since, mark)
  PROVE  R!ReviewInv'
<1>1. /\ memory.ready /\ work' = work /\ commits' = commits /\ refs' = refs /\ memory' = memory
      /\ opening' = opening /\ shown' = shown /\ repeated' = repeated
  BY DEF R!Begin
<1>2. PICK b \in {refs.open, refs.baseline} :
        b # 0 /\ review' = [review EXCEPT ![q] = [R!NoReview EXCEPT !.step = "began", !.baseline = b, !.mark = mark]]
  BY DEF R!Begin
<1>3. b \in Nat
  BY RefsAreRecords DEF R!ReviewInv
<1>4. R!Covered(b)
  <2>1. CASE b = refs.open
    <3>1. b \in 1..Len(commits) /\ b \in AncestorsIn(commits)[b]
      BY <1>2, <2>1, HistoryFacts DEF R!ReviewInv, R!RefsAreCovered
    <3>. QED
      BY <2>1, <3>1, AncestorsAreIn DEF R!Covered
  <2>2. CASE b = refs.baseline
    BY <1>2, <2>2 DEF R!ReviewInv, R!RefsAreCovered
  <2>. QED
    BY <2>1, <2>2
<1>5. /\ review'[q].step = "began" /\ review'[q].baseline = b /\ review'[q] \in R!ReviewStates
      /\ \A p \in Reviews : p # q => review'[p] = review[p]
      /\ review' \in [Reviews -> R!ReviewStates]
  <2>. DEFINE r == [R!NoReview EXCEPT !.step = "began", !.baseline = b, !.mark = mark]
  <2>1. r.step = "began" /\ r.baseline = b /\ r \in R!ReviewStates
    BY <1>3 DEF R!NoReview, R!ReviewStates
  <2>2. review' = [review EXCEPT ![q] = r] /\ review \in [Reviews -> R!ReviewStates]
    BY <1>2 DEF R!ReviewInv, R!TypeOK
  <2>. HIDE DEF r
  <2>. QED
    BY <2>1, <2>2
<1>6. R!TypeOK' /\ R!OpeningIsAlone' /\ R!OnlyReviewsAreRepeated'
  BY <1>1, <1>5 DEF R!ReviewInv, R!TypeOK, R!OpeningIsAlone, R!OnlyReviewsAreRepeated
<1>7. \A d \in Nat : d = refs'.baseline /\ d # 0 => R!Covered(d)
  BY <1>1 DEF R!ReviewInv, R!RefsAreCovered
<1>8. \A p \in Reviews : \A d \in Nat : review'[p].step # "none" /\ d = review'[p].baseline =>
         memory'.ready /\ R!Covered(d)
  BY <1>1, <1>4, <1>5 DEF R!ReviewInv, R!ReviewsAreCovered
<1>9. \A p \in Reviews : review'[p].step = "snapped" =>
         /\ review'[p].commit \in 1..Len(commits')
         /\ commits'[review'[p].commit].parent = review'[p].baseline
         /\ <<review'[p].baseline, review'[p].commit>> \in shown'
  BY <1>1, <1>5 DEF R!ReviewInv, R!ReviewsAreCovered
<1>. QED
  BY <1>1, <1>6, <1>7, <1>8, <1>9, HistoryStays, ReviewsStayCovered

LEMMA TakeSnapshotKeeps ==
  ASSUME R!ReviewInv, NEW q \in Reviews, R!TakeSnapshot(q)
  PROVE  R!ReviewInv'
<1>. DEFINE b == review[q].baseline
            k == Len(commits) + 1
<1>1. /\ review[q].step = "began" /\ R!Snapshot(b)
      /\ review' = [review EXCEPT ![q].step = "snapped", ![q].commit = k]
      /\ shown' = shown \union {<<b, k>>}
      /\ work' = work /\ refs' = refs /\ memory' = memory /\ opening' = opening /\ repeated' = repeated
  BY DEF R!TakeSnapshot
<1>2. R!Covered(b) /\ memory.ready /\ b \in 0..Len(commits)
  <2>1. R!Covered(b) /\ memory.ready
    BY <1>1 DEF R!ReviewInv, R!ReviewsAreCovered
  <2>2. b \in 1..Len(commits)
    BY <2>1 DEF R!Covered
  <2>3. Len(commits) \in Nat
    BY HistoryFacts
  <2>. HIDE DEF b
  <2>. QED
    BY <2>1, <2>2, <2>3
<1>3. HistoryKept /\ k \in 1..Len(commits') /\ commits'[k].parent = b /\ k \in Nat
  BY <1>1, <1>2, HistoryFacts, SnapshotGrows
<1>4. /\ review'[q].step = "snapped" /\ review'[q].baseline = b /\ review'[q].commit = k
      /\ \A p \in Reviews : p # q => review'[p] = review[p]
      /\ review' \in [Reviews -> R!ReviewStates]
  <2>. DEFINE r == [review[q] EXCEPT !.step = "snapped", !.commit = k]
  <2>1. review \in [Reviews -> R!ReviewStates] /\ review[q] \in R!ReviewStates
    BY DEF R!ReviewInv, R!TypeOK
  <2>2. r.step = "snapped" /\ r.baseline = b /\ r.commit = k /\ r \in R!ReviewStates
    BY <1>3, <2>1 DEF R!ReviewStates
  <2>3. review' = [review EXCEPT ![q] = r]
    BY <1>1, <2>1
  <2>. HIDE DEF r, b, k
  <2>. QED
    BY <2>1, <2>2, <2>3
<1>. HIDE DEF b, k
<1>5. R!TypeOK' /\ R!OpeningIsAlone' /\ R!OnlyReviewsAreRepeated'
  <2>1. commits' \in Seq(R!Commits)
    BY <1>3 DEF HistoryKept
  <2>2. opening.step = "none"
    BY <1>2 DEF R!ReviewInv, R!OpeningIsAlone
  <2>. QED
    BY <1>1, <1>4, <2>1, <2>2 DEF R!ReviewInv, R!TypeOK, R!OpeningIsAlone, R!OnlyReviewsAreRepeated
<1>6. \A d \in Nat : d = refs'.baseline /\ d # 0 => R!Covered(d)
  BY <1>1 DEF R!ReviewInv, R!RefsAreCovered
<1>7. \A p \in Reviews : \A d \in Nat : review'[p].step # "none" /\ d = review'[p].baseline =>
         memory'.ready /\ R!Covered(d)
  BY <1>1, <1>2, <1>4 DEF R!ReviewInv, R!ReviewsAreCovered
<1>8. ASSUME NEW p \in Reviews, review'[p].step = "snapped"
      PROVE  /\ review'[p].commit \in 1..Len(commits')
             /\ commits'[review'[p].commit].parent = review'[p].baseline
             /\ <<review'[p].baseline, review'[p].commit>> \in shown'
  <2>1. CASE p = q
    BY <1>1, <1>3, <1>4, <2>1
  <2>2. CASE p # q
    <3>1. /\ review[p].commit \in 1..Len(commits) /\ review'[p] = review[p]
          /\ commits[review[p].commit].parent = review[p].baseline
          /\ <<review[p].baseline, review[p].commit>> \in shown
      BY <1>4, <1>8, <2>2 DEF R!ReviewInv, R!ReviewsAreCovered
    <3>2. review[p].commit \in 1..Len(commits') /\ commits'[review[p].commit] = commits[review[p].commit]
      BY <1>3, <3>1, HistoryFacts DEF HistoryKept
    <3>3. /\ review'[p].commit = review[p].commit /\ review'[p].baseline = review[p].baseline
          /\ shown \subseteq shown'
      BY <1>1, <3>1
    <3>. QED
      BY ONLY <3>1, <3>2, <3>3
  <2>. QED
    BY <2>1, <2>2
<1>. QED
  BY <1>1, <1>3, <1>5, <1>6, <1>7, <1>8, ReviewsStayCovered

\* A review leads one commit further than what it started from.
LEMMA SnapshotsAreCovered ==
  ASSUME R!ReviewInv, NEW q \in Reviews, review[q].step = "snapped"
  PROVE  R!Covered(review[q].commit)
<1>. DEFINE b == review[q].baseline
            k == review[q].commit
<1>1. R!Covered(b) /\ k \in 1..Len(commits) /\ commits[k].parent = b /\ <<b, k>> \in shown
  BY DEF R!ReviewInv, R!ReviewsAreCovered
<1>. HIDE DEF b, k
<1>2. AncestorsIn(commits)[k] = {k} \union AncestorsIn(commits)[b]
  BY <1>1, HistoryFacts
<1>3. R!Covered(k)
  BY <1>1, <1>2, AncestorsAreIn DEF R!Covered
<1>. QED
  BY <1>3 DEF k

LEMMA MarkKeeps ==
  ASSUME R!ReviewInv, NEW q \in Reviews, R!Mark(q)
  PROVE  R!ReviewInv'
<1>1. /\ review[q].step = "snapped" /\ review' = [review EXCEPT ![q] = R!NoReview]
      /\ work' = work /\ commits' = commits /\ opening' = opening /\ shown' = shown /\ repeated' = repeated
  BY DEF R!Mark
<1>2. /\ \A p \in Reviews : review'[p] = review[p] \/ review'[p].step = "none"
      /\ review' \in [Reviews -> R!ReviewStates]
  BY <1>1 DEF R!ReviewInv, R!TypeOK, R!NoReview, R!ReviewStates
<1>3. memory.ready /\ opening.step = "none"
  BY <1>1 DEF R!ReviewInv, R!ReviewsAreCovered, R!OpeningIsAlone
<1>4. R!OpeningIsAlone' /\ R!OnlyReviewsAreRepeated'
  BY <1>1, <1>3 DEF R!ReviewInv, R!OpeningIsAlone, R!OnlyReviewsAreRepeated
<1>5. CASE review[q].mark
  <2>1. /\ refs' = [refs EXCEPT !.baseline = review[q].commit] /\ memory' = [memory EXCEPT !.baseline = TRUE]
    BY <1>5 DEF R!Mark
  <2>2. /\ refs'.open = refs.open /\ refs'.baseline = review[q].commit /\ memory'.ready /\ R!TypeOK'
    BY <1>1, <1>2, <1>3, <2>1, RefsAreRecords DEF R!ReviewInv, R!TypeOK
  <2>3. \A d \in Nat : d = refs'.baseline /\ d # 0 => R!Covered(d)
    BY <1>1, <2>2, SnapshotsAreCovered
  <2>4. \A p \in Reviews : \A d \in Nat : review'[p].step # "none" /\ d = review'[p].baseline =>
           memory'.ready /\ R!Covered(d)
    BY <1>2, <2>2 DEF R!ReviewInv, R!ReviewsAreCovered
  <2>5. \A p \in Reviews : review'[p].step = "snapped" =>
           /\ review'[p].commit \in 1..Len(commits')
           /\ commits'[review'[p].commit].parent = review'[p].baseline
           /\ <<review'[p].baseline, review'[p].commit>> \in shown'
    BY <1>1, <1>2 DEF R!ReviewInv, R!ReviewsAreCovered
  <2>. QED
    BY <1>1, <1>4, <2>2, <2>3, <2>4, <2>5, HistoryStays, ReviewsStayCovered
<1>6. CASE ~review[q].mark
  <2>1. refs' = refs /\ memory' = memory
    BY <1>6 DEF R!Mark
  <2>2. R!TypeOK'
    BY <1>1, <1>2, <2>1 DEF R!ReviewInv, R!TypeOK
  <2>. QED
    BY <1>1, <1>2, <1>4, <2>1, <2>2, ResumingKeeps
<1>. QED
  BY <1>5, <1>6

\* What may be read by reference lies between the two refs, where every commit is a review.
LEMMA ReadableIsShown ==
  ASSUME R!ReviewInv, NEW c \in 1..Len(commits), R!IsReview(c)
  PROVE  <<commits[c].parent, c>> \in shown
<1>1. /\ refs.open # 0 /\ refs.baseline # 0 /\ c # refs.open
      /\ refs.open \in AncestorsIn(commits)[c] /\ c \in AncestorsIn(commits)[refs.baseline]
  BY AncestorsAreIn DEF R!IsReview, R!IsAncestor
<1>2. refs.open \in 1..Len(commits)
  BY <1>1 DEF R!ReviewInv, R!RefsAreCovered
<1>3. AncestorsIn(commits)[c] \subseteq 1..c /\ AncestorsIn(commits)[refs.open] \subseteq 1..refs.open
  BY <1>2, HistoryFacts
<1>4. c \notin AncestorsIn(commits)[refs.open]
  BY <1>1, <1>2, <1>3
<1>. QED
  BY <1>1, <1>4, AncestorsAreIn DEF R!ReviewInv, R!RefsAreCovered, R!Covered

LEMMA LoseRefKeeps ==
  ASSUME R!ReviewInv, NEW kind \in {"open", "baseline"}, R!LoseRef(kind)
  PROVE  R!ReviewInv'
<1>1. /\ refs' = [refs EXCEPT ![kind] = 0] /\ work' = work /\ commits' = commits /\ memory' = memory
      /\ opening' = opening /\ review' = review /\ shown' = shown /\ repeated' = repeated
  BY DEF R!LoseRef
<1>2. /\ refs'.open \in {refs.open, 0} /\ refs'.baseline \in {refs.baseline, 0} /\ R!TypeOK'
  <2>1. CASE kind = "open"
    BY <1>1, <2>1 DEF R!ReviewInv, R!TypeOK
  <2>2. CASE kind = "baseline"
    BY <1>1, <2>2 DEF R!ReviewInv, R!TypeOK
  <2>. QED
    BY <2>1, <2>2
<1>3. R!OpeningIsAlone' /\ R!OnlyReviewsAreRepeated'
  BY <1>1, <1>2 DEF R!ReviewInv, R!OpeningIsAlone, R!OnlyReviewsAreRepeated
<1>4. \A d \in Nat : d = refs'.baseline /\ d # 0 => R!Covered(d)
  BY <1>2 DEF R!ReviewInv, R!RefsAreCovered
<1>5. \A p \in Reviews : \A d \in Nat : review'[p].step # "none" /\ d = review'[p].baseline =>
         memory'.ready /\ R!Covered(d)
  BY <1>1 DEF R!ReviewInv, R!ReviewsAreCovered
<1>6. \A p \in Reviews : review'[p].step = "snapped" =>
         /\ review'[p].commit \in 1..Len(commits')
         /\ commits'[review'[p].commit].parent = review'[p].baseline
         /\ <<review'[p].baseline, review'[p].commit>> \in shown'
  BY <1>1 DEF R!ReviewInv, R!ReviewsAreCovered
<1>. QED
  BY <1>1, <1>2, <1>3, <1>4, <1>5, <1>6, HistoryStays, ReviewsStayCovered

LEMMA ReviewsAreInductive ==
  ASSUME R!ReviewInv, [R!Next]_R!vars
  PROVE  R!ReviewInv'
<1>1. CASE R!Edit \/ R!InitializationFails \/ R!Restart \/ (\E q \in Reviews : R!ReviewFails(q)) \/ UNCHANGED R!vars
  <2>1. /\ commits' = commits /\ refs' = refs /\ shown' = shown /\ repeated' = repeated
    BY <1>1 DEF R!Edit, R!InitializationFails, R!Restart, R!ReviewFails, R!vars
  <2>2. /\ work' = work \/ work' = work + 1
        /\ \/ memory' = memory /\ (opening' = opening \/ opening' = [step |-> "none", commit |-> 0])
           \/ memory' = R!NoMemory /\ opening' = [step |-> "none", commit |-> 0]
              /\ review' = [q \in Reviews |-> R!NoReview]
        /\ \/ review' = review \/ review' = [q \in Reviews |-> R!NoReview]
           \/ \E q \in Reviews : review' = [review EXCEPT ![q] = R!NoReview]
    BY <1>1 DEF R!Edit, R!InitializationFails, R!Restart, R!ReviewFails, R!vars
  <2>3. R!NoReview \in R!ReviewStates /\ R!NoReview.step = "none"
    BY DEF R!NoReview, R!ReviewStates
  <2>4. /\ review' \in [Reviews -> R!ReviewStates]
        /\ \A q \in Reviews : review'[q] = review[q] \/ review'[q].step = "none"
    BY <2>2, <2>3 DEF R!ReviewInv, R!TypeOK
  <2>5. R!TypeOK'
    <3>0. R!TypeOK
      BY DEF R!ReviewInv
    <3>1. work' \in Nat
      BY <2>2, <3>0 DEF R!TypeOK
    <3>2. memory' \in [ready : BOOLEAN, open : BOOLEAN, baseline : BOOLEAN]
      <4>1. R!NoMemory \in [ready : BOOLEAN, open : BOOLEAN, baseline : BOOLEAN]
        BY DEF R!NoMemory
      <4>2. memory \in [ready : BOOLEAN, open : BOOLEAN, baseline : BOOLEAN]
        BY <3>0 DEF R!TypeOK
      <4>. QED
        BY ONLY <2>2, <4>1, <4>2, Zenon
    <3>3. opening' \in [step : {"none", "snapped", "open"}, commit : Nat]
      BY <2>2, <3>0 DEF R!TypeOK
    <3>. QED
      BY <2>1, <2>4, <3>0, <3>1, <3>2, <3>3 DEF R!TypeOK
  <2>6. R!OpeningIsAlone' /\ R!OnlyReviewsAreRepeated'
    BY <2>1, <2>2 DEF R!ReviewInv, R!OpeningIsAlone, R!OnlyReviewsAreRepeated
  <2>7. memory'.ready = memory.ready \/ \A q \in Reviews : review'[q].step = "none"
    BY <2>2, <2>3
  <2>. QED
    BY <2>1, <2>4, <2>5, <2>6, <2>7, ResumingKeeps
<1>2. CASE R!Initialize
  BY <1>2, InitializeKeeps
<1>3. CASE R!SetOpenRef
  BY <1>3, SetOpenRefKeeps
<1>4. CASE R!SetBaselineRef
  BY <1>4, SetBaselineRefKeeps
<1>5. ASSUME NEW q \in Reviews,
             (\E since \in {"last_shown", "workspace_open"}, mark \in BOOLEAN : R!Begin(q, since, mark))
             \/ R!TakeSnapshot(q) \/ R!Mark(q)
      PROVE  R!ReviewInv'
  BY <1>5, BeginKeeps, TakeSnapshotKeeps, MarkKeeps
<1>6. ASSUME NEW c \in DOMAIN commits, R!ReviewByRef(c) PROVE R!ReviewInv'
  <2>1. /\ work' = work /\ commits' = commits /\ refs' = refs /\ memory' = memory /\ opening' = opening
        /\ review' = review /\ shown' = shown /\ repeated' = repeated \union {<<commits[c].parent, c>>}
        /\ R!IsReview(c)
    BY <1>6 DEF R!ReviewByRef
  <2>2. c \in 1..Len(commits)
    BY HistoryFacts
  <2>3. R!OnlyReviewsAreRepeated'
    BY <2>1, <2>2, ReadableIsShown DEF R!ReviewInv, R!OnlyReviewsAreRepeated
  <2>4. R!TypeOK' /\ R!OpeningIsAlone'
    BY <2>1 DEF R!ReviewInv, R!TypeOK, R!OpeningIsAlone
  <2>. QED
    BY <2>1, <2>3, <2>4, ResumingKeeps
<1>7. ASSUME NEW kind \in {"open", "baseline"}, R!LoseRef(kind) PROVE R!ReviewInv'
  BY <1>7, LoseRefKeeps
<1>. QED
  BY <1>1, <1>2, <1>3, <1>4, <1>5, <1>6, <1>7 DEF R!Next

\* What the refs of a workspace lead over is made of reviews, in every state, for any number of reviews,
\* commits and edits, restarts and lost refs.
THEOREM ReviewsAreSound == R!Spec => []R!ReviewInv
<1>1. R!Init => R!ReviewInv
  <2>1. ASSUME R!Init PROVE R!TypeOK
    BY <2>1 DEF R!Init, R!TypeOK, R!NoMemory, R!NoReview, R!ReviewStates, R!Commits
  <2>2. ASSUME R!Init PROVE R!ParentsAreOlder /\ R!RefsAreCovered /\ R!OpeningIsAlone /\ R!OnlyReviewsAreRepeated
    BY <2>2 DEF R!Init, R!ParentsAreOlder, R!RefsAreCovered, R!OpeningIsAlone, R!OnlyReviewsAreRepeated
  <2>3. ASSUME R!Init PROVE R!ReviewsAreCovered
    BY <2>3 DEF R!Init, R!ReviewsAreCovered, R!NoReview
  <2>. QED
    BY <2>1, <2>2, <2>3 DEF R!ReviewInv
<1>2. R!ReviewInv /\ [R!Next]_R!vars => R!ReviewInv'
  BY ReviewsAreInductive
<1>. QED
  BY <1>1, <1>2, PTL DEF R!Spec

\* Reviews show every change between the opening of a workspace and its baseline, and what is read again
\* by reference is a review that was made (review-checkpoints.ts).
THEOREM ReviewsShowEverything == R!Spec => []R!ReviewsAreComplete
<1>1. R!ReviewInv => R!ReviewsAreComplete
  <2>1. ASSUME R!ReviewInv PROVE R!NothingUnseen
    BY <2>1 DEF R!ReviewInv, R!RefsAreCovered, R!Covered, R!NothingUnseen, R!IsAncestor
  <2>. QED
    BY <2>1 DEF R!ReviewInv, R!ReviewsAreComplete
<1>. QED
  BY <1>1, ReviewsAreSound, PTL

-------------------------------------------------------------------------------
(***************************************************************************)
(* Work: the part that moves behaves as its own specification says.        *)
(***************************************************************************)
\* Turns are billed what they used, in Work as in CodexTurns alone.
THEOREM WorkIsBilledTruly == ASSUME UsageAssumption PROVE WorkSpec => []UsageIsTrue
<1>1. WorkInit /\ part = "thread" => U!Init
  BY DEF WorkInit
<1>2. [WorkNext]_workVars => ((part = "thread")' <=> part = "thread") /\ (part = "thread" => [U!Next]_(U!vars))
  <2>. SUFFICES ASSUME [WorkNext]_workVars PROVE part' = part /\ (part = "thread" => [U!Next]_(U!vars))
    OBVIOUS
  <2>1. part' = part /\ ((part = "thread" /\ U!Next) \/ part # "thread" \/ UNCHANGED thread)
    BY DEF WorkNext, workVars
  <2>2. UNCHANGED thread => UNCHANGED U!vars
    BY DEF thread, U!vars
  <2>. QED
    BY <2>1, <2>2
<1>. QED
  BY <1>1, <1>2, UsageTellsTheTruth, PTL DEF WorkSpec, UsageIsTrue, U!Spec

\* Reviews of Work show every change, and repeat only what they showed.
THEOREM WorkIsReviewed == WorkSpec => []ReviewsAreComplete
<1>1. WorkInit /\ part = "reviews" => R!Init
  BY DEF WorkInit
<1>2. [WorkNext]_workVars => ((part = "reviews")' <=> part = "reviews") /\ (part = "reviews" => [R!Next]_(R!vars))
  <2>. SUFFICES ASSUME [WorkNext]_workVars PROVE part' = part /\ (part = "reviews" => [R!Next]_(R!vars))
    OBVIOUS
  <2>1. part' = part /\ ((part = "reviews" /\ R!Next) \/ part # "reviews" \/ UNCHANGED reviews)
    BY DEF WorkNext, workVars
  <2>2. UNCHANGED reviews => UNCHANGED R!vars
    BY DEF reviews, R!vars
  <2>. QED
    BY <2>1, <2>2
<1>. QED
  BY <1>1, <1>2, ReviewsShowEverything, PTL DEF WorkSpec, ReviewsAreComplete, R!Spec
===============================================================================
