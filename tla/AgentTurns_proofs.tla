-------------------------- MODULE AgentTurns_proofs --------------------------
(***************************************************************************)
(* Proofs about AgentTurns, for any sets of agents, keys and callers.      *)
(*                                                                         *)
(* The types depend on two facts that are proved with them: a claim of     *)
(* this daemon is not one of before the last boot, which the recovery      *)
(* script may delete, and a control key that is being answered is open.    *)
(***************************************************************************)
EXTENDS AgentTurns, TLAPS

TypeInv == TypeOK /\ HeldIsRecent /\ ControlIsOpen

-------------------------------------------------------------------------------
\* Ending the newest turn of an agent changes its outcome and nothing else.
LEMMA EndedKeepsTheRest ==
    ASSUME NEW s \in Seq(Turns), NEW o \in {"completed", "failed", "stopped"}
    PROVE  /\ History!Ended(s, o) \in Seq(Turns)
           /\ Len(History!Ended(s, o)) = Len(s)
           /\ \A i \in DOMAIN s :
                 /\ History!Ended(s, o)[i].key = s[i].key
                 /\ i # Len(s) => History!Ended(s, o)[i] = s[i]
           /\ s # <<>> => History!Ended(s, o)[Len(s)].status = o
<1> DEFINE e == [s EXCEPT ![Len(s)].status = o]
<1>0. History!Ended(s, o) = e
  BY DEF History!Ended
<1>1. \A i \in DOMAIN s : s[i] \in Turns
  OBVIOUS
<1>2. \A i \in DOMAIN s : [s[i] EXCEPT !.status = o] \in Turns
  BY <1>1 DEF Turns
<1>3. \A i \in DOMAIN s : e[i] \in Turns
  BY <1>1, <1>2
<1>4. DOMAIN e = 1..Len(s)
  OBVIOUS
<1>5. e \in [1..Len(s) -> Turns]
  BY <1>3, <1>4
<1>6. e \in Seq(Turns) /\ Len(e) = Len(s)
  BY <1>5
<1>7. ASSUME NEW i \in DOMAIN s
      PROVE  e[i].key = s[i].key /\ (i # Len(s) => e[i] = s[i])
  BY <1>1, <1>7 DEF Turns
<1>8. ASSUME s # <<>>
      PROVE  e[Len(s)].status = o
  <2>1. Len(s) \in DOMAIN s
    BY <1>8
  <2>2. s[Len(s)] \in Turns
    BY <1>1, <2>1
  <2> QED  BY <2>1, <2>2 DEF Turns
<1> QED  BY <1>0, <1>6, <1>7, <1>8

\* A restart does as much to every turn it finds running.
LEMMA FailingKeepsTheRest ==
    ASSUME NEW s \in Seq(Turns)
    PROVE  /\ FailRunning(s) \in Seq(Turns)
           /\ Len(FailRunning(s)) = Len(s)
           /\ \A i \in DOMAIN s :
                 /\ FailRunning(s)[i].key = s[i].key
                 /\ FailRunning(s)[i].status # "running"
                 /\ s[i].status # "running" => FailRunning(s)[i] = s[i]
<1>1. \A i \in DOMAIN s : s[i] \in Turns
  OBVIOUS
<1>2. \A i \in DOMAIN s : [s[i] EXCEPT !.status = "failed"] \in Turns
  BY <1>1 DEF Turns
<1>3. FailRunning(s) \in [1..Len(s) -> Turns]
  BY <1>1, <1>2 DEF FailRunning
<1>4. FailRunning(s) \in Seq(Turns) /\ Len(FailRunning(s)) = Len(s)
  BY <1>3
<1>5. ASSUME NEW i \in DOMAIN s
      PROVE  /\ FailRunning(s)[i].key = s[i].key
             /\ FailRunning(s)[i].status # "running"
             /\ s[i].status # "running" => FailRunning(s)[i] = s[i]
  BY <1>1, <1>5 DEF FailRunning, Turns
<1> QED  BY <1>4, <1>5

-------------------------------------------------------------------------------
\* Every step keeps the types.
LEMMA TypeIsInductive ==
    ASSUME TypeInv, [Next]_vars
    PROVE  TypeInv'
<1> USE DEF TypeInv, HeldIsRecent, ControlIsOpen
<1> DEFINE Statuses == Pending \union Settled \union {"none"}
<1> DEFINE Executions == {"none", "queued", "running", "completed", "failed",
                          "cancelled", "reconciliation_required"}
<1> DEFINE Places == Standing \union Outstanding \union {"none"}
<1> DEFINE BeginRecord == [at: BeginSteps, agent: Agents, key: Keys]
<1>1. ASSUME NEW a \in Agents, NEW o \in {"completed", "failed", "stopped"},
             EndTurn(a, o)
      PROVE  turns' \in [Agents -> Seq(Turns)]
  <2>1. turns[a] \in Seq(Turns)
    BY DEF TypeOK
  <2>2. History!Ended(turns[a], o) \in Seq(Turns)
    BY <2>1, EndedKeepsTheRest
  <2> QED  BY <1>1, <2>2 DEF TypeOK, EndTurn, History!Ended
<1>2. ASSUME NEW a \in Agents, NEW o \in {"completed", "failed", "stopped"},
             NEW s \in {"idle", "error", "stopped"}, Finish(a, o, s),
             UNCHANGED <<control, known, execution, keys, claims, loop, handles, world>>
      PROVE  TypeInv'
  <2>1. turns' \in [Agents -> Seq(Turns)]
    BY <1>1, <1>2 DEF Finish
  <2> QED  BY <1>2, <2>1 DEF TypeOK, Finish, Settled, Outstanding, keys, loop, handles, world
<1>3. ASSUME Account
      PROVE  TypeInv'
  <2>1. step \in BeginRecord
    BY <1>3 DEF TypeOK, Account, Doing, Idle, BeginSteps
  <2>2. step' \in BeginRecord \union {Idle} /\ step'.at \notin {"control", "receipt"}
    BY <1>3, <2>1 DEF Account, BeginSteps, Idle
  <2> QED  BY <1>3, <2>1, <2>2 DEF TypeOK, Account, Pending, Settled, keys, handles
<1>4. ASSUME AccountRefuses
      PROVE  TypeInv'
  <2>1. step \in BeginRecord
    BY <1>4 DEF TypeOK, AccountRefuses, Doing, Idle, BeginSteps
  <2>2. step' \in BeginRecord \union {Idle} /\ step'.at \notin {"control", "receipt"}
    BY <1>4, <2>1 DEF AccountRefuses, BeginSteps, Idle
  <2> QED  BY <1>4, <2>1, <2>2 DEF TypeOK, AccountRefuses, Pending, Settled, rows, keys,
     handles, world
<1>5. ASSUME Admit
      PROVE  TypeInv'
  <2>1. step \in BeginRecord
    BY <1>5 DEF TypeOK, Admit, Doing, Idle, BeginSteps
  <2>2. step' \in BeginRecord \union {Idle} /\ step'.at \notin {"control", "receipt"}
    BY <1>5, <2>1 DEF Admit, BeginSteps, Idle
  <2> QED  BY <1>5, <2>1, <2>2 DEF TypeOK, Admit, Pending, Settled, keys, world
<1>6. ASSUME Enqueue
      PROVE  TypeInv'
  <2>1. step \in BeginRecord
    BY <1>6 DEF TypeOK, Enqueue, Doing, Idle, BeginSteps
  <2>2. step' \in BeginRecord \union {Idle} /\ step'.at \notin {"control", "receipt"}
    BY <1>6, <2>1 DEF Enqueue, BeginSteps, Idle
  <2> QED  BY <1>6, <2>1, <2>2 DEF TypeOK, Enqueue, Pending, Settled, rows, keys, handles,
     world
<1>7. ASSUME AdmissionFails
      PROVE  TypeInv'
  <2>1. step \in BeginRecord
    BY <1>7 DEF TypeOK, AdmissionFails, Doing, Idle, BeginSteps
  <2>2. step' \in BeginRecord \union {Idle} /\ step'.at \notin {"control", "receipt"}
    BY <1>7, <2>1 DEF AdmissionFails, BeginSteps, Idle
  <2> QED  BY <1>7, <2>1, <2>2 DEF TypeOK, AdmissionFails, Pending, Settled, keys, handles,
     world
<1>8. ASSUME Unaccount
      PROVE  TypeInv'
  <2>1. step \in BeginRecord
    BY <1>8 DEF TypeOK, Unaccount, Doing, Idle, BeginSteps
  <2>2. step' \in BeginRecord \union {Idle} /\ step'.at \notin {"control", "receipt"}
    BY <1>8, <2>1 DEF Unaccount, BeginSteps, Idle
  <2> QED  BY <1>8, <2>1, <2>2 DEF TypeOK, Unaccount, Pending, Settled, keys, handles, world
<1>9. ASSUME Refuse
      PROVE  TypeInv'
  <2>1. step \in BeginRecord
    BY <1>9 DEF TypeOK, Refuse, Doing, Idle, BeginSteps
  <2>2. step' \in BeginRecord \union {Idle} /\ step'.at \notin {"control", "receipt"}
    BY <1>9, <2>1 DEF Refuse, BeginSteps, Idle
  <2> QED  BY <1>9, <2>1, <2>2 DEF TypeOK, Refuse, Pending, Settled, keys, handles, world
<1>10. ASSUME BeginTurn
      PROVE  TypeInv'
  <2>1. step \in BeginRecord
    BY <1>10 DEF TypeOK, BeginTurn, Idle, BeginSteps
  <2>2. [key |-> step.key, status |-> "running"] \in Turns
    BY <2>1 DEF Turns
  <2>3. turns' \in [Agents -> Seq(Turns)]
    BY <1>10, <2>1, <2>2 DEF TypeOK, BeginTurn
  <2>4. step' \in BeginRecord \union {Idle}
    BY <1>10, <2>1 DEF BeginTurn, BeginSteps
  <2>5. step'.at \notin {"control", "receipt"}
    BY <2>4 DEF BeginSteps, Idle
  <2> QED  BY <1>10, <2>1, <2>3, <2>4, <2>5
           DEF TypeOK, BeginTurn, Pending, Standing, Outstanding, keys, handles, world
<1>11. ASSUME Queue
      PROVE  TypeInv'
  <2>1. step \in BeginRecord
    BY <1>11 DEF TypeOK, Queue, Doing, Idle, BeginSteps
  <2>2. step' \in BeginRecord \union {Idle} /\ step'.at \notin {"control", "receipt"}
    BY <1>11, <2>1 DEF Queue, BeginSteps, Idle
  <2> QED  BY <1>11, <2>1, <2>2 DEF TypeOK, Queue, Pending, Settled, keys, handles, world
<1>12. ASSUME NEW a \in Agents, NEW t \in Tasks, Start(a, t)
      PROVE  TypeInv'
  <2>1. step' \in BeginRecord /\ step'.at = "account"
    BY <1>12 DEF Start, At, BeginSteps, Keys
  <2> QED  BY <1>12, <2>1 DEF TypeOK, Start, Pending, keys, handles, world
<1>13. ASSUME NEW c \in Callers, NEW a \in Agents, NEW k \in Continues, ContinueReads(c, a, k)
      PROVE  TypeInv'
  BY <1>13 DEF TypeOK, ContinueReads, At, rows, keys, handles, world
<1>14. ASSUME NEW c \in Callers, ContinueReserves(c)
      PROVE  TypeInv'
  <2> DEFINE a == caller[c].agent
  <2> DEFINE k == caller[c].key
  <2>1. a \in Agents /\ k \in Continues
    BY <1>14 DEF TypeOK, ContinueReserves
  <2>2. step' \in BeginRecord /\ step'.at = "account"
    BY <1>14, <2>1 DEF ContinueReserves, At, BeginSteps, Keys
  <2>3. continueKeys' \in [Agents -> SUBSET Continues]
    BY <1>14, <2>1 DEF TypeOK, ContinueReserves
  <2> QED  BY <1>14, <2>1, <2>2, <2>3 DEF TypeOK, ContinueReserves, Pending, handles, world
<1>15. ASSUME NEW c \in Callers, ContinueReturns(c)
      PROVE  TypeInv'
  BY <1>15 DEF TypeOK, ContinueReturns, rows, keys, handles, world
<1>16. ASSUME NEW a \in Agents, QueueAdmits(a)
      PROVE  TypeInv'
  BY <1>16 DEF TypeOK, QueueAdmits, Pending, Settled, Standing, Outstanding, ActiveControl,
     keys, loop, world
<1>17. ASSUME NEW a \in Agents, QueueGivesUp(a)
      PROVE  TypeInv'
  BY <1>2, <1>17 DEF QueueGivesUp
<1>18. ASSUME NEW a \in Agents, QueueCancelled(a)
      PROVE  TypeInv'
  BY <1>2, <1>18 DEF QueueCancelled
<1>19. ASSUME NEW a \in Agents, LeaveQueue(a)
      PROVE  TypeInv'
  BY <1>2, <1>19 DEF LeaveQueue
<1>20. ASSUME NEW a \in Agents, Dispatch(a)
      PROVE  TypeInv'
  BY <1>20 DEF TypeOK, Dispatch, Pending, Settled, Standing, Outstanding, ActiveControl,
     rows, keys, loop, handles, world
<1>21. ASSUME NEW a \in Agents, PreparationFails(a)
      PROVE  TypeInv'
  BY <1>2, <1>21 DEF PreparationFails
<1>22. ASSUME NEW a \in Agents, SessionReported(a)
      PROVE  TypeInv'
  BY <1>22 DEF TypeOK, SessionReported, Pending, Settled, Standing, Outstanding,
     ActiveControl, keys, process, loop, handles, world
<1>23. ASSUME NEW a \in Agents, RequestStarted(a)
      PROVE  TypeInv'
  BY <1>23 DEF TypeOK, RequestStarted, Pending, Settled, Standing, Outstanding,
     ActiveControl, keys, process, loop, handles, world
<1>24. ASSUME NEW a \in Agents, ControlReady(a)
      PROVE  TypeInv'
  BY <1>24 DEF TypeOK, ControlReady, Pending, Settled, Standing, Outstanding, ActiveControl,
     keys, loop, world
<1>25. ASSUME NEW a \in Agents, ProviderCompletes(a)
      PROVE  TypeInv'
  BY <1>2, <1>25 DEF ProviderCompletes
<1>26. ASSUME NEW a \in Agents, ProviderFails(a)
      PROVE  TypeInv'
  BY <1>2, <1>26 DEF ProviderFails
<1>27. ASSUME NEW a \in Agents, EndExecution(a)
      PROVE  TypeInv'
  BY <1>27 DEF TypeOK, EndExecution, Pending, Settled, Standing, Outstanding, ActiveControl,
     keys, loop, handles, world
<1>28. ASSUME NEW a \in Agents, LetControlGo(a)
      PROVE  TypeInv'
  BY <1>28 DEF TypeOK, LetControlGo, Pending, Settled, Standing, Outstanding, ActiveControl,
     keys, process, loop, handles, world
<1>29. ASSUME NEW a \in Agents, LetGo(a)
      PROVE  TypeInv'
  BY <1>29 DEF TypeOK, LetGo, Pending, Settled, Standing, Outstanding, ActiveControl, keys,
     loop, world
<1>30. ASSUME NEW x \in Controls, NEW a \in Agents, NEW action \in ControlActions,
             NEW exact \in BOOLEAN, ControlReserves(x, a, action, exact)
      PROVE  TypeInv'
  BY <1>30 DEF TypeOK, ControlReserves, Unasked, NoRequest, handles, world
<1>31. ASSUME NEW x \in Controls, SteerAccepted(x)
      PROVE  TypeInv'
  BY <1>31 DEF TypeOK, SteerAccepted, Receipt, Receipts, Unconfirmed, ActiveControl,
     OwnedElsewhere, NoRpc, NoRequest, keys, world
<1>32. ASSUME NEW x \in Controls, InterruptAcknowledged(x)
      PROVE  TypeInv'
  BY <1>32 DEF TypeOK, InterruptAcknowledged, Receipts, Unconfirmed, ActiveControl,
     OwnedElsewhere, NoRpc, NoRequest, rows, keys, loop, world
<1>33. ASSUME NEW x \in Controls, InterruptCompletes(x)
      PROVE  TypeInv'
  <2>1. request[x].status = "pending"
    BY <1>33 DEF TypeOK, InterruptCompletes, NoRpc
  <2>2. step' \in [at: {"receipt"}, key: Controls, outcome: Receipts] /\ step'.key = x
    BY <1>33 DEF InterruptCompletes, Receipt, Receipts
  <2>3. control' \in [Agents -> ActiveControl \union OwnedElsewhere \union {"terminal"}]
    BY <1>33 DEF TypeOK, InterruptCompletes, OwnedElsewhere
  <2>4. rpc' \in [Controls -> {NoRpc} \union [at: {"sent", "acked"}, turn: Nat]]
    BY <1>33 DEF TypeOK, InterruptCompletes
  <2>5. rpc'[x] = NoRpc /\ \A y \in Controls : rpc'[y] # NoRpc => rpc[y] # NoRpc
    BY <1>33 DEF TypeOK, InterruptCompletes
  <2>6. UNCHANGED <<status, known, turns, execution, keys, claims, mode, caller,
                    phase, held, ready, world>>
    BY <1>33 DEF InterruptCompletes
  <2> QED  BY <2>1, <2>2, <2>3, <2>4, <2>5, <2>6 DEF TypeOK, keys, world
<1>34. ASSUME NEW x \in Controls, ControlUnknown(x)
      PROVE  TypeInv'
  BY <1>34 DEF TypeOK, ControlUnknown, Receipt, Receipts, Unconfirmed, ActiveControl,
     OwnedElsewhere, NoRpc, NoRequest, keys, world
<1>35. ASSUME ControlRejected
      PROVE  TypeInv'
  BY <1>35 DEF TypeOK, ControlRejected, Doing, Idle, Receipt, Receipts, ActiveControl,
     OwnedElsewhere, NoRpc, NoRequest, BeginSteps, rows, keys, handles, world
<1>36. ASSUME ControlReturned
      PROVE  TypeInv'
  BY <1>36 DEF TypeOK, ControlReturned, Doing, Idle, Receipt, Receipts, ActiveControl,
     OwnedElsewhere, NoRpc, NoRequest, BeginSteps, keys, handles, world
<1>37. ASSUME ControlSent
      PROVE  TypeInv'
  BY <1>37 DEF TypeOK, ControlSent, Doing, Idle, Receipts, ActiveControl, OwnedElsewhere,
     NoRpc, NoRequest, BeginSteps, keys
<1>38. ASSUME ReceiptSaved
      PROVE  TypeInv'
  <2> DEFINE x == step.key
  <2>1. x \in Controls /\ step.outcome \in Receipts
    BY <1>38 DEF TypeOK, ReceiptSaved, Doing, Idle, BeginSteps
  <2>2. request[x] \in [status: Receipts \union {"pending"}, agent: Agents, action: ControlActions]
    BY <1>38, <2>1 DEF TypeOK, ReceiptSaved, Doing, NoRequest
  <2>3. [request[x] EXCEPT !.status = step.outcome]
            \in [status: Receipts \union {"pending"}, agent: Agents, action: ControlActions]
    BY <2>1, <2>2
  <2>4. request' = [request EXCEPT ![x] = [request[x] EXCEPT !.status = step.outcome]]
    BY <1>38 DEF ReceiptSaved
  <2>5. rpc[x] = NoRpc
    BY <1>38 DEF ReceiptSaved, Doing
  <2>6. request' \in [Controls -> {NoRequest} \union
            [status: Receipts \union {"pending"}, agent: Agents, action: ControlActions]]
    BY <2>1, <2>3, <2>4 DEF TypeOK
  <2>7. ControlIsOpen'
    BY <1>38, <2>1, <2>4, <2>5 DEF TypeOK, ReceiptSaved, Idle, handles
  <2> QED  BY <1>38, <2>6, <2>7 DEF TypeOK, ReceiptSaved, handles, world
<1>39. ASSUME CloseStarts
      PROVE  TypeInv'
  BY <1>39 DEF TypeOK, CloseStarts, Idle, Away, NoRpc, Standing, Outstanding, rows, keys,
     handles, world
<1>40. ASSUME CloseFinishes
      PROVE  TypeInv'
  BY <1>40 DEF TypeOK, CloseFinishes, Stop, Idle, Away, NoRpc, Standing, Outstanding, rows,
     keys
<1>41. ASSUME Crash
      PROVE  TypeInv'
  BY <1>41 DEF TypeOK, Crash, Stop, Idle, Away, NoRpc, Standing, Outstanding, rows, keys
<1>42. ASSUME Reboot
      PROVE  TypeInv'
  BY <1>42 DEF TypeOK, Reboot, Stop, Idle, Away, NoRpc, Standing, Outstanding, rows, keys
<1>43. ASSUME ReconcileLedger
      PROVE  TypeInv'
  BY <1>43 DEF TypeOK, ReconcileLedger, Idle, Away, NoRpc, Standing, Outstanding, keys,
     handles, world
<1>44. ASSUME ReconcileStore
      PROVE  TypeInv'
  <2>1. turns' \in [Agents -> Seq(Turns)]
    BY <1>44, FailingKeepsTheRest DEF TypeOK, ReconcileStore
  <2> QED  BY <1>44, <2>1 DEF TypeOK, ReconcileStore, Pending, Settled, ActiveControl,
     OwnedElsewhere, keys, handles, world
<1>45. ASSUME NEW a \in Agents, PoolCloses(a)
      PROVE  TypeInv'
  BY <1>45, <1>26 DEF PoolCloses
<1>46. ASSUME NEW a \in Agents, OrphanEnds(a)
      PROVE  TypeInv'
  BY <1>46 DEF TypeOK, OrphanEnds, BeforeBoot, rows, keys, process, loop, handles, world
<1>47. ASSUME NEW a \in Agents, RecoverClaim(a)
      PROVE  TypeInv'
  BY <1>47 DEF TypeOK, RecoverClaim, BeforeBoot, rows, keys, process, loop, handles, world
<1>48. ASSUME UNCHANGED vars
      PROVE  TypeInv'
  BY <1>48 DEF TypeOK, vars, rows, keys, process, loop, handles, world
<1> QED
  BY <1>3, <1>4, <1>5, <1>6, <1>7, <1>8, <1>9, <1>10, <1>11, <1>12, <1>13, <1>14, <1>15,
     <1>16, <1>17, <1>18, <1>19, <1>20, <1>21, <1>22, <1>23, <1>24, <1>25, <1>26, <1>27,
     <1>28, <1>29, <1>30, <1>31, <1>32, <1>33, <1>34, <1>35, <1>36, <1>37, <1>38, <1>39,
     <1>40, <1>41, <1>42, <1>43, <1>44, <1>45, <1>46, <1>47, <1>48
  DEF Next, Begins, Requests, TurnStep, ControlStep, ControlDecides, Daemon

-------------------------------------------------------------------------------
(***************************************************************************)
(* The rows of an agent follow its turn.                                   *)
(***************************************************************************)

\* No turn is left running by the end of the newest one.
LEMMA EndingStopsTurn ==
    ASSUME TypeOK, OnlyLastRuns, NEW a \in Agents,
           NEW o \in {"completed", "failed", "stopped"}, EndTurn(a, o)
    PROVE  /\ OnlyLastRuns'
           /\ ~History!IsRunning(turns'[a])
           /\ turns'[a] = <<>> => turns[a] = <<>>
           /\ \A b \in Agents : b # a => turns'[b] = turns[b]
           /\ DOMAIN turns'[a] = DOMAIN turns[a]
           /\ \A i \in DOMAIN turns[a] : turns'[a][i].key = turns[a][i].key
<1> DEFINE s == turns[a]
<1> DEFINE e == History!Ended(s, o)
<1>1. s \in Seq(Turns)
  BY DEF TypeOK
<1>2. /\ e \in Seq(Turns) /\ Len(e) = Len(s)
      /\ \A i \in DOMAIN s : e[i].key = s[i].key /\ (i # Len(s) => e[i] = s[i])
      /\ s # <<>> => e[Len(s)].status = o
  BY <1>1, EndedKeepsTheRest
<1>3. turns' = [turns EXCEPT ![a] = e]
  BY DEF EndTurn, History!Ended
<1>4. turns'[a] = e /\ \A b \in Agents : b # a => turns'[b] = turns[b]
  BY <1>3 DEF TypeOK
<1>5. DOMAIN e = DOMAIN s
  BY <1>1, <1>2
<1>6. \A i \in DOMAIN e : e[i].status # "running"
  <2> SUFFICES ASSUME NEW i \in DOMAIN e PROVE e[i].status # "running"
    OBVIOUS
  <2>1. CASE i = Len(s)
    BY <1>1, <1>2, <1>5, <2>1
  <2>2. CASE i # Len(s)
    BY <1>2, <1>5, <2>2 DEF OnlyLastRuns
  <2> QED  BY <2>1, <2>2
<1>7. ~History!IsRunning(e)
  BY <1>2, <1>6 DEF History!IsRunning
<1>8. OnlyLastRuns'
  BY <1>4, <1>6 DEF OnlyLastRuns
<1>9. e = <<>> => s = <<>>
  BY <1>1, <1>2
<1> QED  BY <1>2, <1>4, <1>5, <1>7, <1>8, <1>9

\* An agent that a step does not concern stays in its place.
LEMMA OthersStayPlaced ==
    ASSUME NEW b \in Agents, AgentIsPlaced(b),
           turns'[b] = turns[b], status'[b] = status[b], execution'[b] = execution[b],
           phase'[b] = phase[b],
           \/ step'.at = step.at /\ Beginning(b)' = Beginning(b)
           \/ ~Beginning(b) /\ ~Beginning(b)'
    PROVE  AgentIsPlaced(b)'
BY DEF AgentIsPlaced, BeginIsAlone, TurnIsPlaced, StatusIsPlaced, ExecutionIsPlaced,
       History!IsRunning

\* A turn that ends, in whichever way, leaves its agent with rows that say so.
LEMMA FinishKeepsRows ==
    ASSUME TypeOK, RowInv, Running, step = Idle, NEW a \in Agents,
           NEW o \in {"completed", "failed", "stopped"},
           NEW after \in {"idle", "error", "stopped"}, Finish(a, o, after),
           phase[a] \in Unfinished,
           UNCHANGED <<execution, loop>>
    PROVE  RowInv'
<1>1. OnlyLastRuns' /\ ~History!IsRunning(turns'[a])
      /\ (turns'[a] = <<>> => turns[a] = <<>>)
      /\ \A b \in Agents : b # a => turns'[b] = turns[b]
  BY EndingStopsTurn DEF RowInv, Finish
<1>2. step' = Idle /\ Running'
  BY DEF loop, Running
<1>3. \A b \in Agents : AgentIsPlaced(b)
  BY DEF RowInv, RowsArePlaced
<1>4. \A b \in Agents : ~Beginning(b) /\ ~Beginning(b)'
  BY <1>2 DEF Beginning, Idle, BeginSteps
<1>5. ASSUME NEW b \in Agents, b # a
      PROVE  AgentIsPlaced(b)'
  BY <1>1, <1>3, <1>4, <1>5, OthersStayPlaced DEF Finish, TypeOK
<1>6. phase'[a] = "ended" /\ status'[a] = after /\ execution'[a] = execution[a]
  BY DEF Finish, TypeOK
<1>7. AgentIsPlaced(a)'
  BY <1>1, <1>3, <1>4, <1>6
     DEF AgentIsPlaced, BeginIsAlone, TurnIsPlaced, StatusIsPlaced, ExecutionIsPlaced,
         History!IsRunning, Unfinished, Standing, Pending
<1> QED  BY <1>1, <1>2, <1>5, <1>7 DEF RowInv, RowsArePlaced, DownIsQuiet

\* The turn that begin() begins is the one that runs.
LEMMA BeginningRunsTurn ==
    ASSUME TypeOK, OnlyLastRuns, NEW a \in Agents, NEW k \in Keys,
           ~History!IsRunning(turns[a]),
           turns' = [turns EXCEPT ![a] = Append(@, [key |-> k, status |-> "running"])]
    PROVE  /\ OnlyLastRuns'
           /\ History!IsRunning(turns'[a])
           /\ \A b \in Agents : b # a => turns'[b] = turns[b]
<1> DEFINE s == turns[a]
<1> DEFINE t == [key |-> k, status |-> "running"]
<1>1. s \in Seq(Turns) /\ t \in Turns
  BY DEF TypeOK, Turns
<1>2. turns'[a] = Append(s, t) /\ \A b \in Agents : b # a => turns'[b] = turns[b]
  BY DEF TypeOK
<1>3. /\ Len(Append(s, t)) = Len(s) + 1 /\ Append(s, t)[Len(s) + 1] = t
      /\ DOMAIN Append(s, t) = 1..(Len(s) + 1)
      /\ \A i \in 1..Len(s) : Append(s, t)[i] = s[i]
  BY <1>1
<1>4. \A i \in 1..Len(s) : s[i].status # "running"
  <2>1. \A i \in 1..Len(s) : s[i].status = "running" => i = Len(s)
    BY <1>1 DEF OnlyLastRuns
  <2>2. ASSUME s # <<>> PROVE s[Len(s)].status # "running"
    BY <2>2 DEF History!IsRunning
  <2>3. s = <<>> => 1..Len(s) = {}
    OBVIOUS
  <2> QED  BY <2>1, <2>2, <2>3
<1>5. History!IsRunning(turns'[a])
  BY <1>1, <1>2, <1>3 DEF History!IsRunning
<1>6. \A i \in DOMAIN turns'[a] : turns'[a][i].status = "running" => i = Len(turns'[a])
  BY <1>1, <1>2, <1>3, <1>4
<1> QED  BY <1>2, <1>5, <1>6 DEF OnlyLastRuns

\* After a restart no turn is running.
LEMMA RestartStopsTurns ==
    ASSUME TypeOK, ReconcileStore
    PROVE  OnlyLastRuns' /\ \A a \in Agents : ~History!IsRunning(turns'[a])
<1>1. ASSUME NEW a \in Agents
      PROVE  /\ DOMAIN turns'[a] = DOMAIN turns[a]
             /\ \A i \in DOMAIN turns[a] : turns'[a][i].status # "running"
             /\ turns'[a] \in Seq(Turns)
  <2>1. turns[a] \in Seq(Turns) /\ turns'[a] = FailRunning(turns[a])
    BY DEF TypeOK, ReconcileStore
  <2> QED  BY <2>1, FailingKeepsTheRest
<1>2. OnlyLastRuns'
  BY <1>1 DEF OnlyLastRuns
<1>3. ASSUME NEW a \in Agents PROVE ~History!IsRunning(turns'[a])
  <2>1. turns'[a] # <<>> => Len(turns'[a]) \in DOMAIN turns'[a]
    BY <1>1
  <2> QED  BY <1>1, <2>1 DEF History!IsRunning
<1> QED  BY <1>2, <1>3

\* Steps that leave alone the rows of turns, the handler at work and what is tracked.
LEMMA UntouchedKeepsRows ==
    ASSUME RowInv, UNCHANGED <<turns, status, execution, phase, mode, step, caller>>
    PROVE  RowInv'
BY DEF RowInv, OnlyLastRuns, DownIsQuiet, RowsArePlaced, Running, Beginning, History!IsRunning,
       AgentIsPlaced, BeginIsAlone, TurnIsPlaced, StatusIsPlaced, ExecutionIsPlaced

\* What begin() leaves alone, and where it goes.
LEMMA BeginsTouch ==
    ASSUME TypeOK, Begins
    PROVE  /\ Running /\ step.at \in BeginSteps
           /\ step'.at \in BeginSteps => step'.agent = step.agent /\ step'.key = step.key
           /\ step'.at \notin BeginSteps => step' = Idle
           /\ UNCHANGED <<control, known, keys, mode, caller, ready, rpc, orphan, sent>>
<1>1. step \in [at: BeginSteps, agent: Agents, key: Keys]
  BY DEF Begins, Account, AccountRefuses, Admit, Enqueue, AdmissionFails, Unaccount, Refuse,
         BeginTurn, Queue, Doing, TypeOK, Idle, BeginSteps
<1>2. /\ step'.at \in BeginSteps => step'.agent = step.agent /\ step'.key = step.key
      /\ step'.at \notin BeginSteps => step' = Idle
  BY <1>1 DEF Begins, Account, AccountRefuses, Admit, Enqueue, AdmissionFails, Unaccount, Refuse,
              BeginTurn, Queue, Idle, BeginSteps
<1>3. Running /\ UNCHANGED <<control, known, keys, mode, caller, ready, rpc, orphan, sent>>
  BY DEF Begins, Account, AccountRefuses, Admit, Enqueue, AdmissionFails, Unaccount, Refuse,
         BeginTurn, Queue, rows, handles, world
<1> QED  BY <1>1, <1>2, <1>3

\* A step of begin() changes the rows of its agent, and where begin() stands.
LEMMA BeginKeepsRows ==
    ASSUME TypeOK, RowInv, Running, NEW a \in Agents, Running', OnlyLastRuns',
           \A b \in Agents : b # a =>
              /\ turns'[b] = turns[b] /\ status'[b] = status[b]
              /\ execution'[b] = execution[b] /\ phase'[b] = phase[b]
              /\ ~Beginning(b) /\ ~Beginning(b)',
           AgentIsPlaced(a)'
    PROVE  RowInv'
<1>1. ASSUME NEW b \in Agents PROVE AgentIsPlaced(b)'
  <2>1. AgentIsPlaced(b)
    BY DEF RowInv, RowsArePlaced
  <2> QED  BY <2>1, OthersStayPlaced
<1> QED  BY <1>1 DEF RowInv, RowsArePlaced, DownIsQuiet

\* Every step keeps the rows true to the turns.
LEMMA RowsAreInductive ==
    ASSUME TypeInv, RowInv, [Next]_vars
    PROVE  RowInv'
<1> USE DEF TypeInv
<1>0. /\ Running => \A b \in Agents : AgentIsPlaced(b)
      /\ OnlyLastRuns
  BY DEF RowInv, RowsArePlaced
<1>1. ASSUME Begins
      PROVE  RowInv'
  <2>1. PICK a \in Agents : a = step.agent /\ step.key \in Keys /\ Beginning(a) /\ Running
    <3>1. step.agent \in Agents /\ step.key \in Keys
      BY <1>1, BeginsTouch DEF TypeOK, Idle, BeginSteps
    <3> QED  BY <1>1, <3>1, BeginsTouch DEF Beginning
  <2>2. Running' /\ \A b \in Agents : b # a => ~Beginning(b) /\ ~Beginning(b)'
    BY <1>1, <2>1, BeginsTouch DEF Running, Beginning, Idle, BeginSteps
  <2>3. /\ OnlyLastRuns' /\ \A b \in Agents : b # a => turns'[b] = turns[b]
        /\ BeginTurn => History!IsRunning(turns'[a])
        /\ ~BeginTurn => turns'[a] = turns[a] /\ phase' = phase
    <3>1. CASE BeginTurn
      <4>1. ~History!IsRunning(turns[a])
        BY <1>0, <2>1, <3>1
           DEF BeginTurn, AgentIsPlaced, BeginIsAlone, TurnIsPlaced, Unfinished, Standing
      <4> QED  BY <1>0, <2>1, <3>1, <4>1, BeginningRunsTurn DEF BeginTurn
    <3>2. CASE ~BeginTurn
      <4>1. turns' = turns /\ phase' = phase
        BY <1>1, <3>2 DEF Begins, Account, AccountRefuses, Admit, Enqueue, AdmissionFails,
            Unaccount,
                       Refuse, Queue, rows
      <4> QED  BY <1>0, <3>2, <4>1 DEF OnlyLastRuns
    <3> QED  BY <3>1, <3>2
  <2>4. \A b \in Agents : b # a =>
            status'[b] = status[b] /\ execution'[b] = execution[b] /\ phase'[b] = phase[b]
    BY <1>1, <2>1 DEF Begins, Account, AccountRefuses, Admit, Enqueue, AdmissionFails, Unaccount,
                   Refuse, BeginTurn, Queue, TypeOK, rows
  <2>5. AgentIsPlaced(a)'
    <3> USE DEF Doing, AgentIsPlaced, BeginIsAlone, TurnIsPlaced, StatusIsPlaced,
                ExecutionIsPlaced, Beginning, Idle, BeginSteps, BeforeTurn, Active, Pending,
                Standing, Unfinished, History!IsRunning, TypeOK
    <3>1. CASE Account
      BY <1>0, <2>1, <2>3, <3>1 DEF Account
    <3>2. CASE AccountRefuses
      BY <1>0, <2>1, <2>3, <3>2 DEF AccountRefuses, rows, process
    <3>3. CASE Admit
      BY <1>0, <2>1, <2>3, <3>3 DEF Admit
    <3>4. CASE Enqueue
      BY <1>0, <2>1, <2>3, <3>4 DEF Enqueue, rows, process
    <3>5. CASE AdmissionFails
      BY <1>0, <2>1, <2>3, <3>5 DEF AdmissionFails
    <3>6. CASE Unaccount
      BY <1>0, <2>1, <2>3, <3>6 DEF Unaccount
    <3>7. CASE Refuse
      BY <1>0, <2>1, <2>3, <3>7 DEF Refuse
    <3>8. CASE BeginTurn
      BY <1>0, <2>1, <2>3, <3>8 DEF BeginTurn
    <3>9. CASE Queue
      BY <1>0, <2>1, <2>3, <3>9 DEF Queue
    <3> QED  BY <1>1, <3>1, <3>2, <3>3, <3>4, <3>5, <3>6, <3>7, <3>8, <3>9 DEF Begins
  <2> QED  BY <2>1, <2>2, <2>3, <2>4, <2>5, BeginKeepsRows
<1>2. ASSUME NEW a \in Agents, NEW t \in Tasks, Start(a, t)
      PROVE  RowInv'
  <2>1. a \in Agents
    OBVIOUS
  <2>2. Running /\ Running' /\ \A b \in Agents : b # a => ~Beginning(b) /\ ~Beginning(b)'
    BY <1>2, <2>1 DEF Start, Free, Running, Beginning, Idle, BeginSteps, At
  <2>3. turns' = turns /\ phase' = phase /\ execution' = execution
    BY <1>2 DEF Start, handles
  <2>4. OnlyLastRuns'
    BY <1>0, <2>3 DEF OnlyLastRuns
  <2>5. ~Beginning(a) /\ phase[a] = "none"
    <3>1. step = Idle /\ phase[a] \notin Outstanding /\ status[a] \notin Pending
      BY <1>2, <2>1 DEF Start, Free, Resumable, Pending, Settled
    <3> QED  BY <1>0, <2>1, <2>2, <3>1
             DEF AgentIsPlaced, StatusIsPlaced, Beginning, Idle, BeginSteps, Pending, Outstanding,
                 Standing, TypeOK
  <2>6. AgentIsPlaced(a)'
    BY <1>2, <1>0, <2>1, <2>2, <2>3, <2>5
       DEF Start, At, TypeOK, AgentIsPlaced, BeginIsAlone, TurnIsPlaced, StatusIsPlaced,
           ExecutionIsPlaced, Beginning, BeginSteps, BeforeTurn,
           Active, Standing, Unfinished, History!IsRunning
  <2>7. \A b \in Agents : b # a => status'[b] = status[b]
    BY <1>2, <2>1 DEF Start, TypeOK
  <2> QED  BY <2>1, <2>2, <2>3, <2>4, <2>6, <2>7, BeginKeepsRows
<1>3. ASSUME NEW c \in Callers, ContinueReserves(c)
      PROVE  RowInv'
  <2>1. PICK a \in Agents : a = caller[c].agent
    BY <1>3 DEF ContinueReserves, TypeOK
  <2>2. Running /\ Running' /\ \A b \in Agents : b # a => ~Beginning(b) /\ ~Beginning(b)'
    BY <1>3, <2>1 DEF ContinueReserves, Free, Running, Beginning, Idle, BeginSteps, At
  <2>3. turns' = turns /\ phase' = phase /\ execution' = execution
    BY <1>3 DEF ContinueReserves, handles
  <2>4. OnlyLastRuns'
    BY <1>0, <2>3 DEF OnlyLastRuns
  <2>5. ~Beginning(a) /\ phase[a] = "none"
    <3>1. step = Idle /\ phase[a] \notin Outstanding /\ status[a] \notin Pending
      BY <1>3, <2>1 DEF ContinueReserves, Free, Reservable, Pending, Settled
    <3> QED  BY <1>0, <2>1, <2>2, <3>1
             DEF AgentIsPlaced, StatusIsPlaced, Beginning, Idle, BeginSteps, Pending, Outstanding,
                 Standing, TypeOK
  <2>6. AgentIsPlaced(a)'
    BY <1>3, <1>0, <2>1, <2>2, <2>3, <2>5
       DEF ContinueReserves, At, TypeOK, AgentIsPlaced, BeginIsAlone, TurnIsPlaced,
           StatusIsPlaced, ExecutionIsPlaced, Beginning, BeginSteps, BeforeTurn,
           Active, Standing, Unfinished, History!IsRunning
  <2>7. \A b \in Agents : b # a => status'[b] = status[b]
    BY <1>3, <2>1 DEF ContinueReserves, TypeOK
  <2> QED  BY <2>1, <2>2, <2>3, <2>4, <2>6, <2>7, BeginKeepsRows
<1>4. ASSUME NEW c \in Callers, NEW a \in Agents, NEW k \in Continues, ContinueReads(c, a, k)
      PROVE  RowInv'
  <2>1. UNCHANGED <<turns, status, execution, phase, mode, step>> /\ Running
    BY <1>4 DEF ContinueReads, Free, rows
  <2> QED  BY <2>1 DEF RowInv, OnlyLastRuns, DownIsQuiet, RowsArePlaced, Running, Beginning,
                       History!IsRunning, AgentIsPlaced, BeginIsAlone, TurnIsPlaced,
                       StatusIsPlaced, ExecutionIsPlaced
<1>5. ASSUME NEW c \in Callers, ContinueReturns(c)
      PROVE  RowInv'
  <2>1. UNCHANGED <<turns, status, execution, phase, mode, step>> /\ Running
    BY <1>5 DEF ContinueReturns, Free, rows
  <2> QED  BY <2>1 DEF RowInv, OnlyLastRuns, DownIsQuiet, RowsArePlaced, Running, Beginning,
                       History!IsRunning, AgentIsPlaced, BeginIsAlone, TurnIsPlaced,
                       StatusIsPlaced, ExecutionIsPlaced
<1>6. ASSUME NEW a \in Agents,
             \/ QueueGivesUp(a) \/ QueueCancelled(a) \/ LeaveQueue(a)
      PROVE  RowInv'
  BY <1>6, FinishKeepsRows
     DEF QueueGivesUp, QueueCancelled, LeaveQueue, Free, Unfinished, Standing
<1>7. ASSUME NEW a \in Agents,
             \/ PreparationFails(a) \/ ProviderCompletes(a) \/ ProviderFails(a) \/ PoolCloses(a)
      PROVE  RowInv'
  BY <1>7, FinishKeepsRows
     DEF PreparationFails, ProviderCompletes, ProviderFails, PoolCloses, Free, Unfinished, Standing
<1>8. ASSUME NEW a \in Agents,
             \/ QueueAdmits(a) \/ Dispatch(a) \/ RequestStarted(a) \/ EndExecution(a)
             \/ LetGo(a)
      PROVE  RowInv'
  <2>1. /\ Running /\ step = Idle /\ UNCHANGED <<mode, step, turns>>
        /\ \A b \in Agents : ~Beginning(b) /\ ~Beginning(b)'
    BY <1>8 DEF QueueAdmits, Dispatch, RequestStarted, EndExecution, LetGo, Free, Beginning, Idle,
             BeginSteps, rows, process, loop
  <2>2. OnlyLastRuns' /\ Running'
    BY <1>0, <2>1 DEF OnlyLastRuns, Running
  <2>3. \A b \in Agents : b # a =>
            status'[b] = status[b] /\ execution'[b] = execution[b] /\ phase'[b] = phase[b]
    BY <1>8 DEF QueueAdmits, Dispatch, RequestStarted, EndExecution, LetGo, TypeOK, rows, process
  <2>4. AgentIsPlaced(a)'
    <3> USE <1>0, <2>1 DEF AgentIsPlaced, BeginIsAlone, TurnIsPlaced, StatusIsPlaced,
                           ExecutionIsPlaced, Active, Pending, Standing, Unfinished,
                           History!IsRunning, TypeOK
    <3>1. CASE QueueAdmits(a)
      BY <3>1 DEF QueueAdmits
    <3>2. CASE Dispatch(a)
      BY <3>2 DEF Dispatch, rows
    <3>3. CASE RequestStarted(a)
      BY <3>3 DEF RequestStarted, process
    <3>4. CASE EndExecution(a)
      BY <3>4 DEF EndExecution
    <3>5. CASE LetGo(a)
      BY <3>5 DEF LetGo
    <3> QED  BY <1>8, <3>1, <3>2, <3>3, <3>4, <3>5
  <2> QED  BY <2>1, <2>2, <2>3, <2>4, BeginKeepsRows
<1>9. ASSUME NEW a \in Agents,
             \/ SessionReported(a) \/ ControlReady(a) \/ LetControlGo(a)
             \/ OrphanEnds(a) \/ RecoverClaim(a)
      PROVE  RowInv'
  <2>1. UNCHANGED <<turns, status, execution, phase, mode, step, caller>>
    BY <1>9 DEF SessionReported, ControlReady, LetControlGo, OrphanEnds, RecoverClaim, rows,
        process, loop
  <2> QED  BY <2>1, UntouchedKeepsRows
<1>10. ASSUME NEW x \in Controls, NEW a \in Agents, NEW action \in ControlActions,
             NEW exact \in BOOLEAN, ControlReserves(x, a, action, exact)
      PROVE  RowInv'
  <2>1. Running /\ Running' /\ UNCHANGED <<turns, status, execution, phase>>
    BY <1>10 DEF ControlReserves, Free, Running, rows, handles
  <2>2. \A b \in Agents : ~Beginning(b) /\ ~Beginning(b)'
    BY <1>10 DEF ControlReserves, Free, Doing, Beginning, Idle, BeginSteps, Receipt
  <2>3. OnlyLastRuns' /\ \A b \in Agents : AgentIsPlaced(b)'
    BY <1>0, <2>1, <2>2, OthersStayPlaced DEF OnlyLastRuns
  <2> QED  BY <2>1, <2>3 DEF RowInv, RowsArePlaced, DownIsQuiet
<1>11. ASSUME NEW x \in Controls,
             SteerAccepted(x) \/ InterruptCompletes(x) \/ ControlUnknown(x)
      PROVE  RowInv'
  <2>1. Running /\ Running' /\ UNCHANGED <<turns, status, execution, phase>>
    BY <1>11 DEF SteerAccepted, InterruptCompletes, ControlUnknown, Free, Running, rows, handles
  <2>2. \A b \in Agents : ~Beginning(b) /\ ~Beginning(b)'
    BY <1>11 DEF SteerAccepted, InterruptCompletes, ControlUnknown, Free, Doing, Beginning,
        Idle, BeginSteps, Receipt
  <2>3. OnlyLastRuns' /\ \A b \in Agents : AgentIsPlaced(b)'
    BY <1>0, <2>1, <2>2, OthersStayPlaced DEF OnlyLastRuns
  <2> QED  BY <2>1, <2>3 DEF RowInv, RowsArePlaced, DownIsQuiet
<1>12. ASSUME NEW x \in Controls, InterruptAcknowledged(x)
      PROVE  RowInv'
  BY <1>12, UntouchedKeepsRows DEF InterruptAcknowledged, rows, keys, process, loop, handles,
      world, vars
<1>13. ASSUME ControlRejected \/ ControlReturned \/ ControlSent \/ ReceiptSaved
      PROVE  RowInv'
  <2>1. Running /\ Running' /\ UNCHANGED <<turns, status, execution, phase>>
    BY <1>13 DEF ControlRejected, ControlReturned, ControlSent, ReceiptSaved, Free, Running,
        rows, handles
  <2>2. \A b \in Agents : ~Beginning(b) /\ ~Beginning(b)'
    BY <1>13 DEF ControlRejected, ControlReturned, ControlSent, ReceiptSaved, Free, Doing,
        Beginning, Idle, BeginSteps, Receipt
  <2>3. OnlyLastRuns' /\ \A b \in Agents : AgentIsPlaced(b)'
    BY <1>0, <2>1, <2>2, OthersStayPlaced DEF OnlyLastRuns
  <2> QED  BY <2>1, <2>3 DEF RowInv, RowsArePlaced, DownIsQuiet
<1>14. ASSUME CloseStarts
      PROVE  RowInv'
  <2>1. Running /\ Running' /\ step = Idle /\ UNCHANGED <<turns, status, execution, step>>
    BY <1>14 DEF CloseStarts, Free, Running, Accepting, rows
  <2>2. OnlyLastRuns'
    BY <1>0, <2>1 DEF OnlyLastRuns
  <2>3. ASSUME NEW b \in Agents PROVE AgentIsPlaced(b)'
    <3>1. ~Beginning(b) /\ ~Beginning(b)'
      BY <2>1 DEF Beginning, Idle, BeginSteps
    <3>2. phase'[b] = IF phase[b] = "queued" THEN "aborted" ELSE phase[b]
      BY <1>14 DEF CloseStarts
    <3> QED  BY <1>0, <2>1, <3>1, <3>2
             DEF AgentIsPlaced, BeginIsAlone, TurnIsPlaced, StatusIsPlaced, ExecutionIsPlaced,
                 Unfinished, Standing, History!IsRunning
  <2> QED  BY <2>1, <2>2, <2>3 DEF RowInv, RowsArePlaced, DownIsQuiet
<1>15. ASSUME CloseFinishes \/ Crash \/ Reboot
      PROVE  RowInv'
  BY <1>15 DEF CloseFinishes, Crash, Reboot, Stop, RowInv, OnlyLastRuns, DownIsQuiet,
      RowsArePlaced, Running, rows
<1>16. ASSUME ReconcileLedger
      PROVE  RowInv'
  <2>1. ~Running /\ ~Running' /\ UNCHANGED <<turns, step, caller, phase>>
    BY <1>16 DEF ReconcileLedger, Running
  <2>2. \A b \in Agents : execution'[b] \notin Active
    BY <1>16 DEF ReconcileLedger, Active
  <2> QED  BY <1>0, <2>1, <2>2 DEF RowInv, OnlyLastRuns, DownIsQuiet, RowsArePlaced
<1>17. ASSUME ReconcileStore
      PROVE  RowInv'
  <2>1. Running' /\ step' = Idle /\ \A b \in Agents : phase'[b] = "none" /\ execution'[b] \notin Active
    BY <1>17 DEF ReconcileStore, Running, RowInv, DownIsQuiet
  <2>2. \A b \in Agents : status'[b] \notin Pending
    BY <1>17 DEF ReconcileStore, Pending
  <2>3. OnlyLastRuns' /\ \A b \in Agents : ~History!IsRunning(turns'[b])
    BY <1>17, RestartStopsTurns
  <2>4. ASSUME NEW b \in Agents PROVE AgentIsPlaced(b)'
    BY <2>1, <2>2, <2>3
       DEF AgentIsPlaced, BeginIsAlone, TurnIsPlaced, StatusIsPlaced, ExecutionIsPlaced,
           Beginning, Idle, BeginSteps,
           Unfinished, Standing, History!IsRunning
  <2> QED  BY <2>1, <2>3, <2>4 DEF RowInv, RowsArePlaced, DownIsQuiet
<1>18. ASSUME UNCHANGED vars
      PROVE  RowInv'
  BY <1>18, UntouchedKeepsRows DEF vars, rows, process, loop
<1> QED  BY <1>1, <1>2, <1>3, <1>4, <1>5, <1>6, <1>7, <1>8, <1>9, <1>10, <1>11, <1>12, <1>13, <1>14,
         <1>15, <1>16, <1>17, <1>18
         DEF Next, Requests, TurnStep, ControlStep, ControlDecides, Daemon

\* How the rows of turns change: begin() adds one, the newest one comes to its end, a restart
\* fails those that run, and nothing else.
LEMMA TurnsChangeSo ==
    ASSUME [Next]_vars
    PROVE  \/ BeginTurn
           \/ \E a \in Agents, o \in {"completed", "failed", "stopped"} :
                 EndTurn(a, o) /\ Running /\ phase[a] \in Unfinished
           \/ ReconcileStore
           \/ turns' = turns
<1> DEFINE Changes ==
        \/ BeginTurn
        \/ \E a \in Agents, o \in {"completed", "failed", "stopped"} :
              EndTurn(a, o) /\ Running /\ phase[a] \in Unfinished
        \/ ReconcileStore
        \/ turns' = turns
<1>1. ASSUME \/ Account \/ AccountRefuses \/ Admit \/ Enqueue \/ AdmissionFails
      PROVE  Changes
  BY <1>1 DEF Account, AccountRefuses, Admit, Enqueue, AdmissionFails, rows, keys, handles,
     world
<1>2. ASSUME \/ Unaccount \/ Refuse \/ BeginTurn \/ Queue \/ ControlRejected
      PROVE  Changes
  BY <1>2 DEF Unaccount, Refuse, Queue, ControlRejected, rows, keys, handles, world
<1>3. ASSUME NEW a \in Agents, NEW t \in Tasks, Start(a, t)
      PROVE  Changes
  BY <1>3 DEF Start, handles, world
<1>4. ASSUME NEW c \in Callers, NEW a \in Agents, NEW k \in Continues, ContinueReads(c, a, k)
      PROVE  Changes
  BY <1>4 DEF ContinueReads, rows, keys, handles, world
<1>5. ASSUME NEW c \in Callers,
             \/ ContinueReserves(c) \/ ContinueReturns(c)
      PROVE  Changes
  BY <1>5 DEF ContinueReserves, ContinueReturns, rows, keys, handles, world
<1>6. ASSUME NEW a \in Agents,
             \/ QueueAdmits(a) \/ QueueGivesUp(a) \/ QueueCancelled(a)
             \/ LeaveQueue(a) \/ Dispatch(a)
      PROVE  Changes
  BY <1>6 DEF QueueAdmits, QueueGivesUp, Finish, Free, ProviderFails, Unfinished, Standing,
     QueueCancelled, LeaveQueue, Dispatch, rows, keys, loop, handles, world
<1>7. ASSUME NEW a \in Agents,
             \/ PreparationFails(a) \/ SessionReported(a) \/ RequestStarted(a)
             \/ ControlReady(a) \/ ProviderCompletes(a)
      PROVE  Changes
  BY <1>7 DEF PreparationFails, Finish, Free, ProviderFails, Unfinished, Standing,
     SessionReported, RequestStarted, ControlReady, ProviderCompletes, keys, process, loop,
     handles, world
<1>8. ASSUME NEW a \in Agents,
             \/ ProviderFails(a) \/ EndExecution(a) \/ LetControlGo(a) \/ LetGo(a)
             \/ PoolCloses(a)
      PROVE  Changes
  BY <1>8 DEF ProviderFails, Finish, Free, Unfinished, Standing, EndExecution, LetControlGo,
     LetGo, PoolCloses, keys, process, loop, handles, world
<1>9. ASSUME NEW x \in Controls, NEW a \in Agents, NEW action \in ControlActions,
             NEW exact \in BOOLEAN, ControlReserves(x, a, action, exact)
      PROVE  Changes
  BY <1>9 DEF ControlReserves, handles, world
<1>10. ASSUME NEW x \in Controls,
             \/ SteerAccepted(x) \/ InterruptAcknowledged(x)
             \/ InterruptCompletes(x) \/ ControlUnknown(x)
      PROVE  Changes
  BY <1>10 DEF SteerAccepted, InterruptAcknowledged, InterruptCompletes, ControlUnknown,
     rows, keys, loop, world
<1>11. ASSUME \/ ControlReturned \/ ControlSent \/ ReceiptSaved \/ CloseStarts
             \/ CloseFinishes
      PROVE  Changes
  BY <1>11 DEF ControlReturned, ControlSent, ReceiptSaved, CloseStarts, CloseFinishes, rows,
     keys, handles, world
<1>12. ASSUME \/ Crash \/ Reboot \/ ReconcileLedger \/ ReconcileStore \/ UNCHANGED vars
      PROVE  Changes
  BY <1>12 DEF Crash, Reboot, ReconcileLedger, rows, keys, process, loop, handles, world,
     vars
<1>13. ASSUME NEW a \in Agents,
             \/ OrphanEnds(a) \/ RecoverClaim(a)
      PROVE  Changes
  BY <1>13 DEF OrphanEnds, RecoverClaim, rows, keys, process, loop, handles
<1> QED
  BY <1>1, <1>2, <1>3, <1>4, <1>5, <1>6, <1>7, <1>8, <1>9, <1>10, <1>11, <1>12, <1>13
  DEF Next, Begins, Requests, TurnStep, ControlStep, ControlDecides, Daemon

\* The turns of an agent are only added to, one by one and by begin().
LEMMA HistoriesGrow ==
    ASSUME TypeInv, OnlyLastRuns, [Next]_vars, NEW a \in Agents
    PROVE  /\ DOMAIN turns[a] \subseteq DOMAIN turns'[a]
           /\ \A i \in DOMAIN turns[a] : turns'[a][i].key = turns[a][i].key
           /\ \A i \in DOMAIN turns'[a] \ DOMAIN turns[a] :
                 BeginTurn /\ step.agent = a /\ turns'[a][i].key = step.key
<1> USE DEF TypeInv
<1>1. CASE BeginTurn
  <2>1. step.agent \in Agents /\ step.key \in Keys
    BY <1>1 DEF TypeOK, BeginTurn, Idle, BeginSteps
  <2> DEFINE t == [key |-> step.key, status |-> "running"]
  <2>2. turns[a] \in Seq(Turns) /\ t \in Turns
    BY <2>1 DEF TypeOK, Turns
  <2>3. turns'[a] = IF a = step.agent THEN Append(turns[a], t) ELSE turns[a]
    BY <1>1, <2>1 DEF TypeOK, BeginTurn
  <2>4. /\ DOMAIN Append(turns[a], t) = 1..(Len(turns[a]) + 1)
        /\ \A i \in 1..Len(turns[a]) : Append(turns[a], t)[i] = turns[a][i]
        /\ Append(turns[a], t)[Len(turns[a]) + 1] = t
        /\ DOMAIN turns[a] = 1..Len(turns[a])
    BY <2>2
  <2>5. CASE a # step.agent
    BY <2>3, <2>5
  <2>6. CASE a = step.agent
    <3>1. turns'[a] = Append(turns[a], t) /\ Len(turns[a]) \in Nat
      BY <2>2, <2>3, <2>6
    <3>2. DOMAIN turns'[a] \ DOMAIN turns[a] = {Len(turns[a]) + 1}
      BY <2>4, <3>1
    <3>3. t.key = step.key
      OBVIOUS
    <3> HIDE DEF t
    <3> QED  BY <1>1, <2>4, <2>6, <3>1, <3>2, <3>3
  <2> QED  BY <2>5, <2>6
<1>2. ASSUME NEW b \in Agents, NEW o \in {"completed", "failed", "stopped"}, EndTurn(b, o)
      PROVE  DOMAIN turns'[a] = DOMAIN turns[a]
             /\ \A i \in DOMAIN turns[a] : turns'[a][i].key = turns[a][i].key
  BY <1>2, EndingStopsTurn
<1>3. CASE ReconcileStore
  <2>1. turns[a] \in Seq(Turns) /\ turns'[a] = FailRunning(turns[a])
    BY <1>3 DEF TypeOK, ReconcileStore
  <2> QED  BY <2>1, FailingKeepsTheRest
<1>4. CASE turns' = turns
  BY <1>4
<1> QED  BY <1>1, <1>2, <1>3, <1>4, TurnsChangeSo

-------------------------------------------------------------------------------
(***************************************************************************)
(* Claims and what they guard.                                             *)
(***************************************************************************)

\* Steps that touch neither claims nor what is tracked.
LEMMA UntouchedKeepsClaims ==
    ASSUME OrphansAreClaimed, ProvidersAreHeld,
           UNCHANGED <<phase, held, ready, orphan, preBoot, claims>>,
           step' = step \/ step'.at # "claimed"
    PROVE  OrphansAreClaimed' /\ ProvidersAreHeld'
BY DEF OrphansAreClaimed, ProvidersAreHeld

\* Every step keeps a provider under its claim, and an orphan under the claim it left.
LEMMA ClaimsAreInductive ==
    ASSUME TypeInv, RowInv, OrphansAreClaimed, ProvidersAreHeld, [Next]_vars
    PROVE  OrphansAreClaimed' /\ ProvidersAreHeld'
<1> USE DEF TypeInv
<1>1. ASSUME Account
      PROVE  OrphansAreClaimed' /\ ProvidersAreHeld'
  BY <1>1 DEF Account, Doing, OrphansAreClaimed, ProvidersAreHeld, HeldIsRecent, TypeOK,
     Idle, Standing, keys, handles
<1>2. ASSUME AccountRefuses
      PROVE  OrphansAreClaimed' /\ ProvidersAreHeld'
  BY <1>2, UntouchedKeepsClaims DEF AccountRefuses, Doing, Idle, rows, keys, handles, world
<1>3. ASSUME Admit
      PROVE  OrphansAreClaimed' /\ ProvidersAreHeld'
  BY <1>3 DEF Admit, Doing, OrphansAreClaimed, ProvidersAreHeld, HeldIsRecent, TypeOK, Idle,
     Standing, keys, world
<1>4. ASSUME Enqueue
      PROVE  OrphansAreClaimed' /\ ProvidersAreHeld'
  BY <1>4, UntouchedKeepsClaims DEF Enqueue, Doing, Idle, rows, keys, handles, world
<1>5. ASSUME AdmissionFails
      PROVE  OrphansAreClaimed' /\ ProvidersAreHeld'
  BY <1>5, UntouchedKeepsClaims DEF AdmissionFails, Doing, Idle, keys, handles, world
<1>6. ASSUME Unaccount
      PROVE  OrphansAreClaimed' /\ ProvidersAreHeld'
  BY <1>6, UntouchedKeepsClaims DEF Unaccount, Doing, Idle, keys, handles, world
<1>7. ASSUME Refuse
      PROVE  OrphansAreClaimed' /\ ProvidersAreHeld'
  BY <1>7, UntouchedKeepsClaims DEF Refuse, Doing, Idle, keys, handles, world
<1>8. ASSUME BeginTurn
      PROVE  OrphansAreClaimed' /\ ProvidersAreHeld'
  <2>1. PICK a \in Agents : a = step.agent /\ phase[a] = "none"
    BY <1>8 DEF TypeOK, BeginTurn, Idle, BeginSteps, RowInv, RowsArePlaced, AgentIsPlaced,
             BeginIsAlone, Beginning
  <2>2. phase'[a] = "preparing" => a \in held
    BY <1>8, <2>1 DEF BeginTurn, Doing, ProvidersAreHeld, TypeOK
  <2>3. phase' = [phase EXCEPT ![a] = phase'[a]] /\ phase'[a] # "dispatched"
    BY <1>8, <2>1 DEF BeginTurn, TypeOK
  <2> QED  BY <1>8, <2>1, <2>2, <2>3
           DEF BeginTurn, OrphansAreClaimed, ProvidersAreHeld, TypeOK, Idle, handles, world
<1>9. ASSUME Queue
      PROVE  OrphansAreClaimed' /\ ProvidersAreHeld'
  BY <1>9, UntouchedKeepsClaims DEF Queue, Doing, Idle, keys, handles, world
<1>10. ASSUME NEW a \in Agents, NEW t \in Tasks, Start(a, t)
      PROVE  OrphansAreClaimed' /\ ProvidersAreHeld'
  BY <1>10, UntouchedKeepsClaims DEF Start, At, Idle, handles, world
<1>11. ASSUME NEW c \in Callers, NEW a \in Agents, NEW k \in Continues, ContinueReads(c, a, k)
      PROVE  OrphansAreClaimed' /\ ProvidersAreHeld'
  BY <1>11, UntouchedKeepsClaims DEF ContinueReads, At, Idle, rows, keys, handles, world
<1>12. ASSUME NEW c \in Callers,
             \/ ContinueReserves(c) \/ ContinueReturns(c)
      PROVE  OrphansAreClaimed' /\ ProvidersAreHeld'
  BY <1>12, UntouchedKeepsClaims DEF ContinueReserves, At, Idle, ContinueReturns, rows,
     keys, handles, world
<1>13. ASSUME NEW a \in Agents, QueueAdmits(a)
      PROVE  OrphansAreClaimed' /\ ProvidersAreHeld'
  BY <1>13 DEF QueueAdmits, Free, OrphansAreClaimed, ProvidersAreHeld, HeldIsRecent, TypeOK,
     Idle, Standing, keys, loop, world
<1>14. ASSUME NEW a \in Agents, QueueGivesUp(a)
      PROVE  OrphansAreClaimed' /\ ProvidersAreHeld'
  BY <1>14 DEF QueueGivesUp, Finish, Free, OrphansAreClaimed, ProvidersAreHeld,
     HeldIsRecent, TypeOK, Idle, Standing, keys, loop, handles, world
<1>15. ASSUME NEW a \in Agents, QueueCancelled(a)
      PROVE  OrphansAreClaimed' /\ ProvidersAreHeld'
  BY <1>15 DEF QueueCancelled, Finish, Free, OrphansAreClaimed, ProvidersAreHeld,
     HeldIsRecent, TypeOK, Idle, Standing, keys, loop, handles, world
<1>16. ASSUME NEW a \in Agents, LeaveQueue(a)
      PROVE  OrphansAreClaimed' /\ ProvidersAreHeld'
  <2>1. phase' = [phase EXCEPT ![a] = "ended"] /\ UNCHANGED <<claims, loop, handles, world>>
    BY <1>16 DEF LeaveQueue, Finish
  <2> QED  BY <1>16, <2>1 DEF LeaveQueue, OrphansAreClaimed, ProvidersAreHeld, TypeOK, loop,
      handles,
                         world
<1>17. ASSUME NEW a \in Agents, Dispatch(a)
      PROVE  OrphansAreClaimed' /\ ProvidersAreHeld'
  BY <1>17 DEF Dispatch, Free, OrphansAreClaimed, ProvidersAreHeld, HeldIsRecent, TypeOK,
     Idle, Standing, rows, keys, loop, handles, world
<1>18. ASSUME NEW a \in Agents, PreparationFails(a)
      PROVE  OrphansAreClaimed' /\ ProvidersAreHeld'
  BY <1>18 DEF PreparationFails, Finish, Free, OrphansAreClaimed, ProvidersAreHeld,
     HeldIsRecent, TypeOK, Idle, Standing, keys, loop, handles, world
<1>19. ASSUME NEW a \in Agents,
             \/ SessionReported(a) \/ RequestStarted(a) \/ LetControlGo(a)
      PROVE  OrphansAreClaimed' /\ ProvidersAreHeld'
  BY <1>19, UntouchedKeepsClaims DEF SessionReported, Idle, RequestStarted, LetControlGo,
     keys, process, loop, handles, world
<1>20. ASSUME NEW a \in Agents, ControlReady(a)
      PROVE  OrphansAreClaimed' /\ ProvidersAreHeld'
  BY <1>20 DEF ControlReady, Free, OrphansAreClaimed, ProvidersAreHeld, HeldIsRecent,
     TypeOK, Idle, Standing, keys, loop, world
<1>21. ASSUME NEW a \in Agents, ProviderCompletes(a)
      PROVE  OrphansAreClaimed' /\ ProvidersAreHeld'
  BY <1>21 DEF ProviderCompletes, Finish, Free, OrphansAreClaimed, ProvidersAreHeld,
     HeldIsRecent, TypeOK, Idle, Standing, keys, loop, handles, world
<1>22. ASSUME NEW a \in Agents, ProviderFails(a)
      PROVE  OrphansAreClaimed' /\ ProvidersAreHeld'
  BY <1>22 DEF ProviderFails, Finish, Free, OrphansAreClaimed, ProvidersAreHeld,
     HeldIsRecent, TypeOK, Idle, Standing, keys, loop, handles, world
<1>23. ASSUME NEW a \in Agents, EndExecution(a)
      PROVE  OrphansAreClaimed' /\ ProvidersAreHeld'
  BY <1>23 DEF EndExecution, OrphansAreClaimed, ProvidersAreHeld, HeldIsRecent, TypeOK,
     Idle, Standing, keys, loop, handles, world
<1>24. ASSUME NEW a \in Agents, LetGo(a)
      PROVE  OrphansAreClaimed' /\ ProvidersAreHeld'
  BY <1>24 DEF LetGo, OrphansAreClaimed, ProvidersAreHeld, HeldIsRecent, TypeOK, Idle,
     Standing, keys, loop, world
<1>25. ASSUME NEW x \in Controls, NEW a \in Agents, NEW action \in ControlActions,
             NEW exact \in BOOLEAN, ControlReserves(x, a, action, exact)
      PROVE  OrphansAreClaimed' /\ ProvidersAreHeld'
  BY <1>25, UntouchedKeepsClaims DEF ControlReserves, Idle, handles, world
<1>26. ASSUME NEW x \in Controls,
             \/ SteerAccepted(x) \/ InterruptAcknowledged(x)
             \/ InterruptCompletes(x) \/ ControlUnknown(x)
      PROVE  OrphansAreClaimed' /\ ProvidersAreHeld'
  BY <1>26, UntouchedKeepsClaims DEF SteerAccepted, Receipt, Idle, InterruptAcknowledged,
     InterruptCompletes, ControlUnknown, rows, keys, loop, world
<1>27. ASSUME \/ ControlRejected \/ ControlReturned \/ ControlSent \/ ReceiptSaved
             \/ ReconcileLedger
      PROVE  OrphansAreClaimed' /\ ProvidersAreHeld'
  BY <1>27, UntouchedKeepsClaims DEF ControlRejected, Doing, Receipt, Idle, ControlReturned,
     ControlSent, ReceiptSaved, ReconcileLedger, rows, keys, handles, world
<1>28. ASSUME CloseStarts
      PROVE  OrphansAreClaimed' /\ ProvidersAreHeld'
  BY <1>28 DEF CloseStarts, Free, OrphansAreClaimed, ProvidersAreHeld, HeldIsRecent, TypeOK,
     Idle, Standing, rows, keys, handles, world
<1>29. ASSUME CloseFinishes
      PROVE  OrphansAreClaimed' /\ ProvidersAreHeld'
  BY <1>29 DEF CloseFinishes, Stop, Free, OrphansAreClaimed, ProvidersAreHeld, HeldIsRecent,
     TypeOK, Idle, Standing, rows, keys
<1>30. ASSUME Crash
      PROVE  OrphansAreClaimed' /\ ProvidersAreHeld'
  BY <1>30 DEF Crash, Stop, OrphansAreClaimed, ProvidersAreHeld, HeldIsRecent, TypeOK, Idle,
     Standing, rows, keys
<1>31. ASSUME Reboot
      PROVE  OrphansAreClaimed' /\ ProvidersAreHeld'
  BY <1>31 DEF Reboot, Stop, OrphansAreClaimed, ProvidersAreHeld, HeldIsRecent, TypeOK,
     Idle, Standing, rows, keys
<1>32. ASSUME \/ ReconcileStore \/ UNCHANGED vars
      PROVE  OrphansAreClaimed' /\ ProvidersAreHeld'
  BY <1>32, UntouchedKeepsClaims DEF ReconcileStore, Idle, rows, keys, process, loop,
     handles, world, vars
<1>33. ASSUME NEW a \in Agents, PoolCloses(a)
      PROVE  OrphansAreClaimed' /\ ProvidersAreHeld'
  BY <1>33 DEF PoolCloses, ProviderFails, Finish, Free, OrphansAreClaimed, ProvidersAreHeld,
     HeldIsRecent, TypeOK, Idle, Standing, keys, loop, handles, world
<1>34. ASSUME NEW a \in Agents, OrphanEnds(a)
      PROVE  OrphansAreClaimed' /\ ProvidersAreHeld'
  BY <1>34 DEF OrphanEnds, OrphansAreClaimed, ProvidersAreHeld, HeldIsRecent, TypeOK, Idle,
     Standing, rows, keys, process, loop, handles
<1>35. ASSUME NEW a \in Agents, RecoverClaim(a)
      PROVE  OrphansAreClaimed' /\ ProvidersAreHeld'
  BY <1>35 DEF RecoverClaim, BeforeBoot, OrphansAreClaimed, ProvidersAreHeld, HeldIsRecent,
     TypeOK, Idle, Standing, keys, process, loop, handles
<1> QED
  BY <1>1, <1>2, <1>3, <1>4, <1>5, <1>6, <1>7, <1>8, <1>9, <1>10, <1>11, <1>12, <1>13,
     <1>14, <1>15, <1>16, <1>17, <1>18, <1>19, <1>20, <1>21, <1>22, <1>23, <1>24, <1>25,
     <1>26, <1>27, <1>28, <1>29, <1>30, <1>31, <1>32, <1>33, <1>34, <1>35
  DEF Next, Begins, Requests, TurnStep, ControlStep, ControlDecides, Daemon

-------------------------------------------------------------------------------
(***************************************************************************)
(* Control requests.                                                       *)
(***************************************************************************)

\* Steps that concern no control request.
LEMMA UntouchedKeepsSent ==
    ASSUME SentIsAsked, UNCHANGED <<request, sent>>, step' = step \/ step'.at # "control"
    PROVE  SentIsAsked'
BY DEF SentIsAsked, ControlSentOnce

\* A key is sent once: it is asked once, and is with the handler until it is sent.
LEMMA KeysAreSentOnce ==
    ASSUME TypeInv, SentIsAsked, [Next]_vars
    PROVE  SentIsAsked'
<1> USE DEF TypeInv
<1>1. ASSUME Begins
      PROVE  SentIsAsked'
  BY <1>1, BeginsTouch, UntouchedKeepsSent DEF keys, Idle, BeginSteps
<1>2. ASSUME NEW a \in Agents, NEW t \in Tasks, Start(a, t)
      PROVE  SentIsAsked'
  BY <1>2, UntouchedKeepsSent DEF Start, At, Idle, handles, world
<1>3. ASSUME NEW c \in Callers, NEW a \in Agents, NEW k \in Continues, ContinueReads(c, a, k)
      PROVE  SentIsAsked'
  BY <1>3, UntouchedKeepsSent DEF ContinueReads, At, Idle, rows, keys, handles, world
<1>4. ASSUME NEW c \in Callers,
             \/ ContinueReserves(c) \/ ContinueReturns(c)
      PROVE  SentIsAsked'
  BY <1>4, UntouchedKeepsSent DEF ContinueReserves, At, Idle, ContinueReturns, rows, keys,
     handles, world
<1>5. ASSUME NEW a \in Agents,
             \/ QueueAdmits(a) \/ QueueGivesUp(a) \/ QueueCancelled(a)
             \/ LeaveQueue(a) \/ Dispatch(a)
      PROVE  SentIsAsked'
  BY <1>5, UntouchedKeepsSent DEF QueueAdmits, Idle, QueueGivesUp, Finish, QueueCancelled,
     LeaveQueue, Dispatch, rows, keys, loop, handles, world
<1>6. ASSUME NEW a \in Agents,
             \/ PreparationFails(a) \/ SessionReported(a) \/ RequestStarted(a)
             \/ ControlReady(a) \/ ProviderCompletes(a)
      PROVE  SentIsAsked'
  BY <1>6, UntouchedKeepsSent DEF PreparationFails, Finish, Idle, SessionReported,
     RequestStarted, ControlReady, ProviderCompletes, keys, process, loop, handles, world
<1>7. ASSUME NEW a \in Agents,
             \/ ProviderFails(a) \/ EndExecution(a) \/ LetControlGo(a) \/ LetGo(a)
             \/ PoolCloses(a)
      PROVE  SentIsAsked'
  BY <1>7, UntouchedKeepsSent DEF ProviderFails, Finish, Idle, EndExecution, LetControlGo,
     LetGo, PoolCloses, keys, process, loop, handles, world
<1>8. ASSUME NEW x \in Controls, NEW a \in Agents, NEW action \in ControlActions,
             NEW exact \in BOOLEAN, ControlReserves(x, a, action, exact)
      PROVE  SentIsAsked'
  BY <1>8 DEF ControlReserves, Unasked, SentIsAsked, ControlSentOnce, ControlIsOpen,
     NoRequest, TypeOK, Idle, BeginSteps, handles, world
<1>9. ASSUME NEW x \in Controls,
             \/ SteerAccepted(x) \/ InterruptAcknowledged(x)
             \/ InterruptCompletes(x) \/ ControlUnknown(x)
      PROVE  SentIsAsked'
  BY <1>9, UntouchedKeepsSent DEF SteerAccepted, Receipt, Idle, InterruptAcknowledged,
     InterruptCompletes, ControlUnknown, rows, keys, loop, world
<1>10. ASSUME \/ ControlRejected \/ ControlReturned \/ CloseStarts \/ CloseFinishes
             \/ Crash
      PROVE  SentIsAsked'
  BY <1>10, UntouchedKeepsSent DEF ControlRejected, Doing, Receipt, Idle, Stop,
     ControlReturned, CloseStarts, CloseFinishes, Crash, rows, keys, handles, world
<1>11. ASSUME ControlSent
      PROVE  SentIsAsked'
  BY <1>11 DEF ControlSent, Doing, SentIsAsked, ControlSentOnce, ControlIsOpen, NoRequest,
     TypeOK, Idle, BeginSteps, keys
<1>12. ASSUME ReceiptSaved
      PROVE  SentIsAsked'
  <2>1. step.key \in Controls /\ step.outcome \in Receipts
    BY <1>12 DEF TypeOK, ReceiptSaved, Doing, Idle, BeginSteps
  <2>2. request[step.key] \in [status: Receipts \union {"pending"}, agent: Agents, action: ControlActions]
    BY <1>12, <2>1 DEF TypeOK, ReceiptSaved, Doing, NoRequest, ControlIsOpen
  <2>3. request'[step.key].status \in Receipts
    BY <1>12, <2>1, <2>2 DEF ReceiptSaved, TypeOK
  <2>4. \A x \in Controls : request'[x] = NoRequest => request[x] = NoRequest
    BY <1>12, <2>1, <2>3 DEF ReceiptSaved, TypeOK, NoRequest, Receipts
  <2> QED  BY <1>12, <2>4 DEF ReceiptSaved, SentIsAsked, ControlSentOnce, Idle, world
<1>13. ASSUME \/ Reboot \/ ReconcileLedger \/ ReconcileStore \/ UNCHANGED vars
      PROVE  SentIsAsked'
  BY <1>13, UntouchedKeepsSent DEF Reboot, Idle, Stop, ReconcileLedger, ReconcileStore,
     rows, keys, process, loop, handles, world, vars
<1>14. ASSUME NEW a \in Agents,
             \/ OrphanEnds(a) \/ RecoverClaim(a)
      PROVE  SentIsAsked'
  BY <1>14, UntouchedKeepsSent DEF OrphanEnds, Idle, RecoverClaim, rows, keys, process,
     loop, handles
<1> QED
  BY <1>1, <1>2, <1>3, <1>4, <1>5, <1>6, <1>7, <1>8, <1>9, <1>10, <1>11, <1>12, <1>13,
     <1>14
  DEF Next, Requests, TurnStep, ControlStep, ControlDecides, Daemon

\* A request to the provider names a turn its agent has.
LEMMA ControlsKeepTheirTurn ==
    ASSUME TypeInv, RowInv, ProvidersAreHeld, ControlHasTurn, [Next]_vars
    PROVE  ControlHasTurn'
<1> USE DEF TypeInv
<1>0. \A x \in Controls : rpc[x] # NoRpc => request[x].agent \in Agents /\ request[x] # NoRequest
  BY DEF ControlIsOpen, TypeOK, NoRequest
<1>1. ASSUME \A x \in Controls : rpc'[x] # NoRpc =>
                 rpc[x] # NoRpc /\ rpc'[x].turn = rpc[x].turn /\ request'[x].agent = request[x].agent
      PROVE  ControlHasTurn'
  <2>1. \A a \in Agents : DOMAIN turns[a] \subseteq DOMAIN turns'[a]
    BY HistoriesGrow DEF RowInv
  <2> QED  BY <1>0, <1>1, <2>1 DEF ControlHasTurn
<1>2. ASSUME Begins
      PROVE  ControlHasTurn'
  BY <1>2, <1>1, BeginsTouch DEF keys
<1>3. ASSUME NEW a \in Agents, NEW t \in Tasks, Start(a, t)
      PROVE  ControlHasTurn'
  BY <1>3, <1>1 DEF Start, handles, world
<1>4. ASSUME NEW c \in Callers, NEW a \in Agents, NEW k \in Continues, ContinueReads(c, a, k)
      PROVE  ControlHasTurn'
  BY <1>4, <1>1 DEF ContinueReads, rows, keys, handles, world
<1>5. ASSUME NEW c \in Callers,
             \/ ContinueReserves(c) \/ ContinueReturns(c)
      PROVE  ControlHasTurn'
  BY <1>5, <1>1 DEF ContinueReserves, ContinueReturns, rows, keys, handles, world
<1>6. ASSUME NEW a \in Agents,
             \/ QueueAdmits(a) \/ QueueGivesUp(a) \/ QueueCancelled(a)
             \/ LeaveQueue(a) \/ Dispatch(a)
      PROVE  ControlHasTurn'
  BY <1>6, <1>1 DEF QueueAdmits, QueueGivesUp, Finish, QueueCancelled, LeaveQueue, Dispatch,
     rows, keys, loop, handles, world
<1>7. ASSUME NEW a \in Agents,
             \/ PreparationFails(a) \/ SessionReported(a) \/ RequestStarted(a)
             \/ ControlReady(a) \/ ProviderCompletes(a)
      PROVE  ControlHasTurn'
  BY <1>7, <1>1 DEF PreparationFails, Finish, SessionReported, RequestStarted, ControlReady,
     ProviderCompletes, keys, process, loop, handles, world
<1>8. ASSUME NEW a \in Agents,
             \/ ProviderFails(a) \/ EndExecution(a) \/ LetControlGo(a) \/ LetGo(a)
             \/ PoolCloses(a)
      PROVE  ControlHasTurn'
  BY <1>8, <1>1 DEF ProviderFails, Finish, EndExecution, LetControlGo, LetGo, PoolCloses,
     keys, process, loop, handles, world
<1>9. ASSUME NEW x \in Controls, NEW a \in Agents, NEW action \in ControlActions,
             NEW exact \in BOOLEAN, ControlReserves(x, a, action, exact)
      PROVE  ControlHasTurn'
  <2>1. rpc' = rpc /\ \A y \in Controls : rpc[y] # NoRpc => request'[y] = request[y]
    BY <1>0, <1>9 DEF ControlReserves, Unasked, Doing, ControlIsOpen, TypeOK, handles
  <2> QED  BY <1>1, <2>1
<1>10. ASSUME NEW x \in Controls,
             \/ SteerAccepted(x) \/ InterruptCompletes(x) \/ ControlUnknown(x)
      PROVE  ControlHasTurn'
  BY <1>10, <1>1 DEF SteerAccepted, TypeOK, InterruptCompletes, ControlUnknown, keys
<1>11. ASSUME NEW x \in Controls, InterruptAcknowledged(x)
      PROVE  ControlHasTurn'
  <2>1. rpc[x] \in [at: {"sent", "acked"}, turn: Nat]
    BY <1>11 DEF InterruptAcknowledged, TypeOK, NoRpc
  <2>2. \A y \in Controls : rpc'[y] # NoRpc => rpc[y] # NoRpc /\ rpc'[y].turn = rpc[y].turn
    BY <1>11, <2>1 DEF InterruptAcknowledged, TypeOK, NoRpc
  <2> QED  BY <1>11, <1>1, <2>2 DEF InterruptAcknowledged, rows, keys
<1>12. ASSUME \/ ControlRejected \/ ControlReturned \/ CloseStarts \/ CloseFinishes
             \/ Crash
      PROVE  ControlHasTurn'
  BY <1>12, <1>1 DEF ControlRejected, ControlReturned, CloseStarts, CloseFinishes, Stop,
     Crash, rows, keys, handles, world
<1>13. ASSUME ControlSent
      PROVE  ControlHasTurn'
  <2> DEFINE r == request[step.key]
  <2>1. PICK a \in Agents : a = r.agent /\ a \in ready /\ step.key \in Controls
    BY <1>13 DEF ControlSent, Doing, Allowed, ControlIsOpen, TypeOK, NoRequest, Idle, BeginSteps,
             ControlActions
  <2>2. turns[a] # <<>>
    BY <1>13, <2>1 DEF ControlSent, RowInv, RowsArePlaced, AgentIsPlaced, TurnIsPlaced,
        ProvidersAreHeld
  <2>3. Len(turns[a]) \in DOMAIN turns[a]
    BY <2>2 DEF TypeOK
  <2>4. rpc' = [rpc EXCEPT ![step.key] = [at |-> "sent", turn |-> Len(turns[a])]]
        /\ turns' = turns /\ request' = request
    BY <1>13, <2>1 DEF ControlSent, keys
  <2> QED  BY <1>0, <2>1, <2>3, <2>4 DEF ControlHasTurn, TypeOK
<1>14. ASSUME ReceiptSaved
      PROVE  ControlHasTurn'
  <2>1. rpc' = rpc /\ \A x \in Controls : rpc[x] # NoRpc => request'[x] = request[x]
    BY <1>0, <1>14 DEF ReceiptSaved, Doing, ControlIsOpen, TypeOK, handles
  <2> QED  BY <1>1, <2>1
<1>15. ASSUME \/ Reboot \/ ReconcileLedger \/ ReconcileStore \/ UNCHANGED vars
      PROVE  ControlHasTurn'
  BY <1>15, <1>1 DEF Reboot, Stop, ReconcileLedger, ReconcileStore, rows, keys, process,
     loop, handles, world, vars
<1>16. ASSUME NEW a \in Agents,
             \/ OrphanEnds(a) \/ RecoverClaim(a)
      PROVE  ControlHasTurn'
  BY <1>16, <1>1 DEF OrphanEnds, RecoverClaim, rows, keys, process, loop, handles
<1> QED
  BY <1>2, <1>3, <1>4, <1>5, <1>6, <1>7, <1>8, <1>9, <1>10, <1>11, <1>12, <1>13, <1>14,
     <1>15, <1>16
  DEF Next, Requests, TurnStep, ControlStep, ControlDecides, Daemon

-------------------------------------------------------------------------------
(***************************************************************************)
(* Request keys.                                                           *)
(***************************************************************************)

\* A key in use stays in use.
LEMMA KeysStayUsed ==
    ASSUME TypeInv, [Next]_vars
    PROVE  /\ taskKeys \subseteq taskKeys'
           /\ \A a \in Agents : continueKeys[a] \subseteq continueKeys'[a]
<1> USE DEF TypeInv
<1> DEFINE Stay == /\ taskKeys \subseteq taskKeys'
                   /\ \A a \in Agents : continueKeys[a] \subseteq continueKeys'[a]
<1>1. ASSUME Begins
      PROVE  Stay
  BY <1>1, BeginsTouch DEF keys
<1>2. ASSUME NEW a \in Agents, NEW t \in Tasks, Start(a, t)
      PROVE  Stay
  BY <1>2 DEF Start, TypeOK, handles, world
<1>3. ASSUME NEW c \in Callers, NEW a \in Agents, NEW k \in Continues, ContinueReads(c, a, k)
      PROVE  Stay
  BY <1>3 DEF ContinueReads, TypeOK, rows, keys, handles, world
<1>4. ASSUME NEW c \in Callers, ContinueReserves(c)
      PROVE  Stay
  BY <1>4 DEF ContinueReserves, TypeOK, handles, world
<1>5. ASSUME NEW c \in Callers, ContinueReturns(c)
      PROVE  Stay
  BY <1>5 DEF ContinueReturns, TypeOK, rows, keys, handles, world
<1>6. ASSUME NEW a \in Agents,
             \/ QueueAdmits(a) \/ QueueGivesUp(a) \/ QueueCancelled(a)
             \/ LeaveQueue(a) \/ Dispatch(a)
      PROVE  Stay
  BY <1>6 DEF QueueAdmits, TypeOK, QueueGivesUp, Finish, QueueCancelled, LeaveQueue,
     Dispatch, rows, keys, loop, handles, world
<1>7. ASSUME NEW a \in Agents,
             \/ PreparationFails(a) \/ SessionReported(a) \/ RequestStarted(a)
             \/ ControlReady(a) \/ ProviderCompletes(a)
      PROVE  Stay
  BY <1>7 DEF PreparationFails, Finish, TypeOK, SessionReported, RequestStarted,
     ControlReady, ProviderCompletes, keys, process, loop, handles, world
<1>8. ASSUME NEW a \in Agents,
             \/ ProviderFails(a) \/ EndExecution(a) \/ LetControlGo(a) \/ LetGo(a)
             \/ PoolCloses(a)
      PROVE  Stay
  BY <1>8 DEF ProviderFails, Finish, TypeOK, EndExecution, LetControlGo, LetGo, PoolCloses,
     keys, process, loop, handles, world
<1>9. ASSUME NEW x \in Controls, NEW a \in Agents, NEW action \in ControlActions,
             NEW exact \in BOOLEAN, ControlReserves(x, a, action, exact)
      PROVE  Stay
  BY <1>9 DEF ControlReserves, TypeOK, handles, world
<1>10. ASSUME NEW x \in Controls,
             \/ SteerAccepted(x) \/ InterruptAcknowledged(x)
             \/ InterruptCompletes(x) \/ ControlUnknown(x)
      PROVE  Stay
  BY <1>10 DEF SteerAccepted, TypeOK, InterruptAcknowledged, InterruptCompletes,
     ControlUnknown, rows, keys, loop, world
<1>11. ASSUME \/ ControlRejected \/ ControlReturned \/ ControlSent \/ ReceiptSaved
             \/ CloseStarts
      PROVE  Stay
  BY <1>11 DEF ControlRejected, TypeOK, ControlReturned, ControlSent, ReceiptSaved,
     CloseStarts, rows, keys, handles, world
<1>12. ASSUME \/ CloseFinishes \/ Crash \/ Reboot \/ ReconcileLedger \/ ReconcileStore
      PROVE  Stay
  BY <1>12 DEF CloseFinishes, Stop, TypeOK, Crash, Reboot, ReconcileLedger, ReconcileStore,
     rows, keys, handles, world
<1>13. ASSUME NEW a \in Agents,
             \/ OrphanEnds(a) \/ RecoverClaim(a)
      PROVE  Stay
  BY <1>13 DEF OrphanEnds, TypeOK, RecoverClaim, rows, keys, process, loop, handles
<1>14. ASSUME UNCHANGED vars
      PROVE  Stay
  BY <1>14 DEF TypeOK, rows, keys, process, loop, handles, world, vars
<1> QED
  BY <1>1, <1>2, <1>3, <1>4, <1>5, <1>6, <1>7, <1>8, <1>9, <1>10, <1>11, <1>12, <1>13,
     <1>14
  DEF Next, Requests, TurnStep, ControlStep, ControlDecides, Daemon

\* Only a key that was not in use is begun with.
LEMMA NewKeysAreBegun ==
    ASSUME TypeInv, RowInv, RanKeysAreUsed, BegunKeyIsNew, [Next]_vars
    PROVE  BegunKeyIsNew'
<1> USE DEF TypeInv
<1>0. ASSUME turns' = turns, taskKeys' = taskKeys, continueKeys' = continueKeys,
             \/ step' = step
             \/ step.at \in BeforeTurn /\ step'.agent = step.agent /\ step'.key = step.key
      PROVE  BegunKeyIsNew'
  BY <1>0 DEF BegunKeyIsNew, History!Ran, History!RanBy
<1>a. ASSUME step'.at \notin BeforeTurn
       PROVE  BegunKeyIsNew'
  BY <1>a DEF BegunKeyIsNew
<1>1. ASSUME Account
      PROVE  BegunKeyIsNew'
  <2>1. step \in [at: BeginSteps, agent: Agents, key: Keys]
    BY <1>1 DEF TypeOK, Account, Doing, Idle, BeginSteps
  <2>2. step.at \in BeforeTurn /\ step'.agent = step.agent /\ step'.key = step.key
    BY <1>1, <2>1 DEF Account, Doing, BeforeTurn
  <2> QED  BY <1>1, <1>0, <2>2 DEF Account, rows, keys
<1>2. ASSUME \/ AccountRefuses \/ AdmissionFails \/ Unaccount \/ Refuse \/ BeginTurn
      PROVE  BegunKeyIsNew'
  BY <1>2, <1>a DEF AccountRefuses, Doing, Idle, BeginSteps, BeforeTurn, TypeOK,
     AdmissionFails, Unaccount, Refuse, BeginTurn, rows, keys, handles, world
<1>3. ASSUME Admit
      PROVE  BegunKeyIsNew'
  <2>1. step \in [at: BeginSteps, agent: Agents, key: Keys]
    BY <1>3 DEF TypeOK, Admit, Doing, Idle, BeginSteps
  <2>2. step.at \in BeforeTurn /\ step'.agent = step.agent /\ step'.key = step.key
    BY <1>3, <2>1 DEF Admit, Doing, BeforeTurn
  <2> QED  BY <1>3, <1>0, <2>2 DEF Admit, rows, keys
<1>4. ASSUME Enqueue
      PROVE  BegunKeyIsNew'
  <2>1. step \in [at: BeginSteps, agent: Agents, key: Keys]
    BY <1>4 DEF TypeOK, Enqueue, Doing, Idle, BeginSteps
  <2>2. step.at \in BeforeTurn /\ step'.agent = step.agent /\ step'.key = step.key
    BY <1>4, <2>1 DEF Enqueue, Doing, BeforeTurn
  <2> QED  BY <1>4, <1>0, <2>2 DEF Enqueue, rows, keys
<1>5. ASSUME \/ Queue \/ ControlRejected \/ ControlReturned \/ ControlSent
             \/ ReceiptSaved
      PROVE  BegunKeyIsNew'
  BY <1>5, <1>a DEF Queue, Doing, Receipt, Idle, BeginSteps, BeforeTurn, TypeOK,
     ControlRejected, ControlReturned, ControlSent, ReceiptSaved, rows, keys, handles, world
<1>6. ASSUME NEW a \in Agents, NEW t \in Tasks, Start(a, t)
      PROVE  BegunKeyIsNew'
  <2>1. t \notin continueKeys[a]
    BY KeysAssumption DEF TypeOK
  <2>2. /\ step'.agent = a /\ step'.key = t /\ turns' = turns /\ t \in taskKeys'
        /\ continueKeys' = continueKeys
    BY <1>6 DEF Start, At
  <2>3. ASSUME NEW b \in Agents PROVE ~History!RanBy(b, t)
    <3>1. t \notin taskKeys /\ t \notin continueKeys[b]
      BY <1>6, KeysAssumption DEF Start, Unused, TypeOK
    <3> QED  BY <3>1 DEF History!RanBy, RanKeysAreUsed
  <2> QED  BY <2>2, <2>3 DEF BegunKeyIsNew, History!Ran, History!RanBy
<1>7. ASSUME NEW c \in Callers, NEW a \in Agents, NEW k \in Continues, ContinueReads(c, a, k)
      PROVE  BegunKeyIsNew'
  BY <1>7, <1>a DEF ContinueReads, Free, At, Idle, BeginSteps, BeforeTurn, TypeOK, rows,
     keys, handles, world
<1>8. ASSUME NEW c \in Callers, ContinueReserves(c)
      PROVE  BegunKeyIsNew'
  <2>1. PICK a \in Agents, k \in Continues : a = caller[c].agent /\ k = caller[c].key
    BY <1>8 DEF ContinueReserves, TypeOK
  <2>2. /\ step'.agent = a /\ step'.key = k /\ turns' = turns
        /\ continueKeys'[a] = continueKeys[a] \union {k}
    BY <1>8, <2>1 DEF ContinueReserves, At, TypeOK
  <2>3. k \notin Tasks /\ k \notin taskKeys /\ k \notin continueKeys[a]
    BY <1>8, <2>1, KeysAssumption DEF ContinueReserves, Reservable, TypeOK
  <2>4. ~History!RanBy(a, k)
    BY <2>3 DEF History!RanBy, RanKeysAreUsed
  <2> QED  BY <2>2, <2>3, <2>4 DEF BegunKeyIsNew, History!Ran, History!RanBy
<1>9. ASSUME NEW c \in Callers, ContinueReturns(c)
      PROVE  BegunKeyIsNew'
  BY <1>9, <1>a DEF ContinueReturns, Free, Idle, BeginSteps, BeforeTurn, TypeOK, rows,
     keys, handles, world
<1>10. ASSUME NEW a \in Agents,
             \/ QueueAdmits(a) \/ QueueGivesUp(a) \/ QueueCancelled(a)
             \/ LeaveQueue(a) \/ Dispatch(a)
      PROVE  BegunKeyIsNew'
  BY <1>10, <1>a DEF QueueAdmits, Free, Idle, BeginSteps, BeforeTurn, TypeOK,
     QueueGivesUp, Finish, QueueCancelled, LeaveQueue, Dispatch, rows, keys, loop, handles,
     world
<1>11. ASSUME NEW a \in Agents,
             \/ PreparationFails(a) \/ SessionReported(a) \/ RequestStarted(a)
             \/ ControlReady(a) \/ ProviderCompletes(a)
      PROVE  BegunKeyIsNew'
  BY <1>11, <1>a DEF PreparationFails, Finish, Free, Idle, BeginSteps, BeforeTurn, TypeOK,
     SessionReported, RequestStarted, ControlReady, ProviderCompletes, keys, process, loop,
     handles, world
<1>12. ASSUME NEW a \in Agents,
             \/ ProviderFails(a) \/ EndExecution(a) \/ LetControlGo(a) \/ LetGo(a)
             \/ PoolCloses(a)
      PROVE  BegunKeyIsNew'
  BY <1>12, <1>a DEF ProviderFails, Finish, Free, Idle, BeginSteps, BeforeTurn, TypeOK,
     EndExecution, LetControlGo, LetGo, PoolCloses, keys, process, loop, handles, world
<1>13. ASSUME NEW x \in Controls, NEW a \in Agents, NEW action \in ControlActions,
             NEW exact \in BOOLEAN, ControlReserves(x, a, action, exact)
      PROVE  BegunKeyIsNew'
  BY <1>13, <1>a DEF ControlReserves, Free, Idle, BeginSteps, BeforeTurn, TypeOK, handles,
     world
<1>14. ASSUME NEW x \in Controls,
             \/ SteerAccepted(x) \/ InterruptAcknowledged(x)
             \/ InterruptCompletes(x) \/ ControlUnknown(x)
      PROVE  BegunKeyIsNew'
  BY <1>14, <1>a DEF SteerAccepted, Free, Receipt, Idle, BeginSteps, BeforeTurn, TypeOK,
     InterruptAcknowledged, InterruptCompletes, ControlUnknown, rows, keys, loop, world
<1>15. ASSUME \/ CloseStarts \/ CloseFinishes \/ Crash \/ Reboot \/ ReconcileLedger
      PROVE  BegunKeyIsNew'
  BY <1>15, <1>a DEF CloseStarts, Stop, Free, Idle, BeginSteps, BeforeTurn, TypeOK,
     CloseFinishes, Crash, Reboot, ReconcileLedger, RowInv, DownIsQuiet, Running, rows,
     keys, handles, world
<1>16. ASSUME ReconcileStore
      PROVE  BegunKeyIsNew'
  BY <1>16, <1>a DEF ReconcileStore, RowInv, DownIsQuiet, Running, Idle, BeforeTurn
<1>17. ASSUME NEW a \in Agents,
             \/ OrphanEnds(a) \/ RecoverClaim(a)
      PROVE  BegunKeyIsNew'
  BY <1>17, <1>0 DEF OrphanEnds, RecoverClaim, rows, keys, process, loop, handles
<1>18. ASSUME UNCHANGED vars
      PROVE  BegunKeyIsNew'
  BY <1>18, <1>0 DEF rows, keys, process, loop, handles, world, vars
<1> QED
  BY <1>1, <1>2, <1>3, <1>4, <1>5, <1>6, <1>7, <1>8, <1>9, <1>10, <1>11, <1>12, <1>13,
     <1>14, <1>15, <1>16, <1>17, <1>18
  DEF Next, Begins, Requests, TurnStep, ControlStep, ControlDecides, Daemon

\* The keys of turns that ran are in use.
LEMMA KeysOfTurnsAreUsed ==
    ASSUME TypeInv, RowInv, RanKeysAreUsed, BegunKeyIsNew, [Next]_vars
    PROVE  RanKeysAreUsed'
<1> SUFFICES ASSUME NEW a \in Agents, NEW i \in DOMAIN turns'[a]
             PROVE  turns'[a][i].key \in taskKeys' \union continueKeys'[a]
  BY DEF RanKeysAreUsed
<1>1. /\ taskKeys \subseteq taskKeys'
      /\ \A b \in Agents : continueKeys[b] \subseteq continueKeys'[b]
  BY KeysStayUsed
<1>2. CASE i \in DOMAIN turns[a]
  <2>1. turns'[a][i].key = turns[a][i].key
    BY <1>2, HistoriesGrow DEF RowInv
  <2> QED  BY <1>1, <1>2, <2>1 DEF RanKeysAreUsed
<1>3. CASE i \notin DOMAIN turns[a]
  <2>1. BeginTurn /\ step.agent = a /\ turns'[a][i].key = step.key
    BY <1>3, HistoriesGrow DEF RowInv
  <2>2. step.key \in taskKeys \union continueKeys[a]
    BY <2>1 DEF BeginTurn, BegunKeyIsNew, BeforeTurn
  <2> QED  BY <1>1, <2>1, <2>2
<1> QED  BY <1>2, <1>3

-------------------------------------------------------------------------------
(***************************************************************************)
(* The invariant, and what follows from it.                                *)
(***************************************************************************)

\* Only the dispatch of a prepared turn makes it dispatched.
LEMMA DispatchIsPrepared ==
    ASSUME TypeOK, [Next]_vars, NEW b \in Agents, phase'[b] = "dispatched", phase[b] # "dispatched"
    PROVE  phase[b] = "preparing"
<1>1. ASSUME \/ Account \/ AccountRefuses \/ Admit \/ Enqueue \/ AdmissionFails
      PROVE  phase[b] = "preparing"
  BY <1>1 DEF Account, TypeOK, AccountRefuses, Admit, Enqueue, AdmissionFails, rows, keys,
     handles, world
<1>2. ASSUME \/ Unaccount \/ Refuse \/ BeginTurn \/ Queue \/ ControlRejected
      PROVE  phase[b] = "preparing"
  BY <1>2 DEF Unaccount, TypeOK, Refuse, BeginTurn, Queue, ControlRejected, rows, keys,
     handles, world
<1>3. ASSUME NEW a \in Agents, NEW t \in Tasks, Start(a, t)
      PROVE  phase[b] = "preparing"
  BY <1>3 DEF Start, TypeOK, handles, world
<1>4. ASSUME NEW c \in Callers, NEW a \in Agents, NEW k \in Continues, ContinueReads(c, a, k)
      PROVE  phase[b] = "preparing"
  BY <1>4 DEF ContinueReads, TypeOK, rows, keys, handles, world
<1>5. ASSUME NEW c \in Callers,
             \/ ContinueReserves(c) \/ ContinueReturns(c)
      PROVE  phase[b] = "preparing"
  BY <1>5 DEF ContinueReserves, TypeOK, ContinueReturns, rows, keys, handles, world
<1>6. ASSUME NEW a \in Agents,
             \/ QueueAdmits(a) \/ QueueGivesUp(a) \/ QueueCancelled(a)
             \/ LeaveQueue(a) \/ Dispatch(a)
      PROVE  phase[b] = "preparing"
  BY <1>6 DEF QueueAdmits, TypeOK, QueueGivesUp, Finish, QueueCancelled, LeaveQueue,
     Dispatch, rows, keys, loop, handles, world
<1>7. ASSUME NEW a \in Agents,
             \/ PreparationFails(a) \/ SessionReported(a) \/ RequestStarted(a)
             \/ ControlReady(a) \/ ProviderCompletes(a)
      PROVE  phase[b] = "preparing"
  BY <1>7 DEF PreparationFails, Finish, TypeOK, SessionReported, RequestStarted,
     ControlReady, ProviderCompletes, keys, process, loop, handles, world
<1>8. ASSUME NEW a \in Agents,
             \/ ProviderFails(a) \/ EndExecution(a) \/ LetControlGo(a) \/ LetGo(a)
             \/ PoolCloses(a)
      PROVE  phase[b] = "preparing"
  BY <1>8 DEF ProviderFails, Finish, TypeOK, EndExecution, LetControlGo, LetGo, PoolCloses,
     keys, process, loop, handles, world
<1>9. ASSUME NEW x \in Controls, NEW a \in Agents, NEW action \in ControlActions,
             NEW exact \in BOOLEAN, ControlReserves(x, a, action, exact)
      PROVE  phase[b] = "preparing"
  BY <1>9 DEF ControlReserves, TypeOK, handles, world
<1>10. ASSUME NEW x \in Controls,
             \/ SteerAccepted(x) \/ InterruptAcknowledged(x)
             \/ InterruptCompletes(x) \/ ControlUnknown(x)
      PROVE  phase[b] = "preparing"
  BY <1>10 DEF SteerAccepted, TypeOK, InterruptAcknowledged, InterruptCompletes,
     ControlUnknown, rows, keys, loop, world
<1>11. ASSUME \/ ControlReturned \/ ControlSent \/ ReceiptSaved \/ CloseStarts
             \/ CloseFinishes
      PROVE  phase[b] = "preparing"
  BY <1>11 DEF ControlReturned, Stop, TypeOK, ControlSent, ReceiptSaved, CloseStarts,
     CloseFinishes, rows, keys, handles, world
<1>12. ASSUME \/ Crash \/ Reboot \/ ReconcileLedger \/ ReconcileStore \/ UNCHANGED vars
      PROVE  phase[b] = "preparing"
  BY <1>12 DEF Crash, Stop, TypeOK, Reboot, ReconcileLedger, ReconcileStore, rows, keys,
     process, loop, handles, world, vars
<1>13. ASSUME NEW a \in Agents,
             \/ OrphanEnds(a) \/ RecoverClaim(a)
      PROVE  phase[b] = "preparing"
  BY <1>13 DEF OrphanEnds, TypeOK, RecoverClaim, rows, keys, process, loop, handles
<1> QED
  BY <1>1, <1>2, <1>3, <1>4, <1>5, <1>6, <1>7, <1>8, <1>9, <1>10, <1>11, <1>12, <1>13
  DEF Next, Begins, Requests, TurnStep, ControlStep, ControlDecides, Daemon

LEMMA InitIsSound ==
    ASSUME Init
    PROVE  TypeOK /\ TurnInv
<1>1. TypeOK
  BY DEF Init, TypeOK, Idle, Away, NoRequest, NoRpc, Settled, Standing
<1>2. RowInv
  BY DEF Init, RowInv, DownIsQuiet, OnlyLastRuns, RowsArePlaced, Running
<1>3. ClaimInv
  BY DEF Init, ClaimInv, HeldIsRecent, OrphansAreClaimed, ProvidersAreHeld, Idle
<1>4. ControlInv
  BY DEF Init, ControlInv, ControlIsOpen, ControlHasTurn, SentIsAsked, ControlSentOnce, Idle
<1>5. KeyInv
  BY DEF Init, KeyInv, RanKeysAreUsed, BegunKeyIsNew, Idle, BeforeTurn
<1> QED  BY <1>1, <1>2, <1>3, <1>4, <1>5 DEF TurnInv

LEMMA StepIsSound ==
    ASSUME TypeOK, TurnInv, [Next]_vars
    PROVE  TypeOK' /\ TurnInv'
<1>1. TypeInv
  BY DEF TypeInv, TurnInv, ClaimInv, ControlInv
<1>2. TypeInv'
  BY <1>1, TypeIsInductive
<1>3. RowInv'
  BY <1>1, RowsAreInductive DEF TurnInv
<1>4. OrphansAreClaimed' /\ ProvidersAreHeld'
  BY <1>1, ClaimsAreInductive DEF TurnInv, ClaimInv
<1>5. SentIsAsked' /\ ControlHasTurn'
  BY <1>1, KeysAreSentOnce, ControlsKeepTheirTurn DEF TurnInv, ClaimInv, ControlInv
<1>6. KeyInv'
  BY <1>1, NewKeysAreBegun, KeysOfTurnsAreUsed DEF TurnInv, KeyInv
<1> QED  BY <1>2, <1>3, <1>4, <1>5, <1>6 DEF TypeInv, TurnInv, ClaimInv, ControlInv

\* The inductive invariant: an agent's rows are in the place its turn is in, claims guard
\* providers, control keys and request keys are used once.
THEOREM TurnsAreSound == Spec => [](TypeOK /\ TurnInv)
BY InitIsSound, StepIsSound, PTL DEF Spec

\* The rows and the daemon's tables keep their types, for any agents, keys and callers.
THEOREM TypeCorrect == Spec => []TypeOK
BY TurnsAreSound, PTL

\* Between two handlers an agent's rows say where its turn is: no turn is left running, no
\* session busy and no execution active by any way in which a turn fails to begin or ends.
THEOREM RowsFollowTurns == Spec => []StatusFollowsTurn
<1>1. TypeOK /\ TurnInv => StatusFollowsTurn
  <2> SUFFICES ASSUME TypeOK, TurnInv, Free, NEW a \in Agents
               PROVE  /\ \A i \in DOMAIN turns[a] :
                            turns[a][i].status = "running" <=> Tracked(a) /\ i = Len(turns[a])
                      /\ Tracked(a) => turns[a] # <<>>
                      /\ status[a] = "queued" <=> phase[a] = "queued"
                      /\ status[a] = "running" <=> phase[a] \in {"preparing", "dispatched"}
                      /\ status[a] # "starting"
                      /\ execution[a] \in {"queued", "running"} <=> Tracked(a)
    BY DEF StatusFollowsTurn
  <2>1. AgentIsPlaced(a) /\ OnlyLastRuns
    BY DEF TurnInv, RowInv, RowsArePlaced, Free
  <2>2. ~Beginning(a) /\ phase[a] \in Standing \union {"none"}
    BY DEF Free, Beginning, Idle, BeginSteps, TypeOK
  <2>3. phase[a] \in Unfinished <=> Tracked(a)
    BY <2>2 DEF Unfinished, Tracked, Standing
  <2>4. ASSUME NEW i \in DOMAIN turns[a]
        PROVE  turns[a][i].status = "running" <=> Tracked(a) /\ i = Len(turns[a])
    BY <2>1, <2>3 DEF AgentIsPlaced, TurnIsPlaced, History!IsRunning, OnlyLastRuns, TypeOK
  <2>5. Tracked(a) => turns[a] # <<>>
    BY <2>1, <2>3 DEF AgentIsPlaced, TurnIsPlaced, History!IsRunning
  <2>6. /\ status[a] = "queued" <=> phase[a] = "queued"
        /\ status[a] = "running" <=> phase[a] \in {"preparing", "dispatched"}
        /\ status[a] # "starting"
    BY <2>1, <2>2 DEF AgentIsPlaced, StatusIsPlaced, Standing, Pending
  <2>7. execution[a] \in {"queued", "running"} <=> Tracked(a)
    BY <2>1, <2>2, <2>3 DEF AgentIsPlaced, ExecutionIsPlaced, Active, Standing
  <2> QED  BY <2>4, <2>5, <2>6, <2>7
<1> QED  BY <1>1, TurnsAreSound, PTL

\* However often a control request is retried, and whatever dies, its key reaches the provider
\* at most once.
THEOREM ControlsAreSentOnce == Spec => []ControlSentOnce
<1>1. TurnInv => ControlSentOnce
  BY DEF TurnInv, ControlInv, SentIsAsked
<1> QED  BY <1>1, TurnsAreSound, PTL

\* A turn goes to a provider only under a claim that this daemon took, and never beside a turn
\* of the same agent that a dead daemon left.
THEOREM OrphansAreLeftAlone == Spec => OrphanIsLeftAlone
<1> DEFINE Leaves ==
        \A a \in Agents : phase'[a] = "dispatched" /\ phase[a] # "dispatched"
                             => a \in held /\ a \notin orphan
<1>1. ASSUME TypeOK, TurnInv, [Next]_vars
      PROVE  Leaves
  <2>0. \A a \in Agents : phase[a] = "preparing" => a \in held /\ a \notin orphan
    BY <1>1 DEF TurnInv, ClaimInv, ProvidersAreHeld, OrphansAreClaimed
  <2>1. ASSUME NEW a \in Agents, phase'[a] = "dispatched", phase[a] # "dispatched"
        PROVE  phase[a] = "preparing"
    BY <1>1, <2>1, DispatchIsPrepared
  <2> QED  BY <2>0, <2>1
<1> QED  BY <1>1, TurnsAreSound, PTL DEF Spec, OrphanIsLeftAlone

\* A key that has its answer keeps it, and nobody asks the provider for it.
LEMMA AnswersStay ==
    ASSUME TypeInv, [Next]_vars, NEW z \in Controls,
           request[z] # NoRequest, request[z].status # "pending"
    PROVE  request'[z] = request[z] /\ rpc'[z] = NoRpc
<1> USE DEF TypeInv
<1>0. rpc[z] = NoRpc /\ (step.at \in {"control", "receipt"} => step.key # z)
  BY DEF ControlIsOpen
<1>1. ASSUME Begins
      PROVE  request'[z] = request[z] /\ rpc'[z] = NoRpc
  BY <1>0, <1>1, BeginsTouch DEF keys
<1>2. ASSUME NEW a \in Agents, NEW t \in Tasks, Start(a, t)
      PROVE  request'[z] = request[z] /\ rpc'[z] = NoRpc
  BY <1>0, <1>2 DEF Start, TypeOK, handles, world
<1>3. ASSUME NEW c \in Callers, NEW a \in Agents, NEW k \in Continues, ContinueReads(c, a, k)
      PROVE  request'[z] = request[z] /\ rpc'[z] = NoRpc
  BY <1>0, <1>3 DEF ContinueReads, TypeOK, rows, keys, handles, world
<1>4. ASSUME NEW c \in Callers,
             \/ ContinueReserves(c) \/ ContinueReturns(c)
      PROVE  request'[z] = request[z] /\ rpc'[z] = NoRpc
  BY <1>0, <1>4 DEF ContinueReserves, TypeOK, ContinueReturns, rows, keys, handles, world
<1>5. ASSUME NEW a \in Agents,
             \/ QueueAdmits(a) \/ QueueGivesUp(a) \/ QueueCancelled(a)
             \/ LeaveQueue(a) \/ Dispatch(a)
      PROVE  request'[z] = request[z] /\ rpc'[z] = NoRpc
  BY <1>0, <1>5 DEF QueueAdmits, TypeOK, QueueGivesUp, Finish, QueueCancelled, LeaveQueue,
     Dispatch, rows, keys, loop, handles, world
<1>6. ASSUME NEW a \in Agents,
             \/ PreparationFails(a) \/ SessionReported(a) \/ RequestStarted(a)
             \/ ControlReady(a) \/ ProviderCompletes(a)
      PROVE  request'[z] = request[z] /\ rpc'[z] = NoRpc
  BY <1>0, <1>6 DEF PreparationFails, Finish, TypeOK, SessionReported, RequestStarted,
     ControlReady, ProviderCompletes, keys, process, loop, handles, world
<1>7. ASSUME NEW a \in Agents,
             \/ ProviderFails(a) \/ EndExecution(a) \/ LetControlGo(a) \/ LetGo(a)
             \/ PoolCloses(a)
      PROVE  request'[z] = request[z] /\ rpc'[z] = NoRpc
  BY <1>0, <1>7 DEF ProviderFails, Finish, TypeOK, EndExecution, LetControlGo, LetGo,
     PoolCloses, keys, process, loop, handles, world
<1>8. ASSUME NEW x \in Controls, NEW a \in Agents, NEW action \in ControlActions,
             NEW exact \in BOOLEAN, ControlReserves(x, a, action, exact)
      PROVE  request'[z] = request[z] /\ rpc'[z] = NoRpc
  BY <1>0, <1>8 DEF ControlReserves, Unasked, TypeOK, Unconfirmed, NoRpc, handles, world
<1>9. ASSUME NEW x \in Controls, SteerAccepted(x)
      PROVE  request'[z] = request[z] /\ rpc'[z] = NoRpc
  BY <1>0, <1>9 DEF SteerAccepted, TypeOK, Unconfirmed, NoRpc, keys, world
<1>10. ASSUME NEW x \in Controls, InterruptAcknowledged(x)
      PROVE  request'[z] = request[z] /\ rpc'[z] = NoRpc
  BY <1>0, <1>10 DEF InterruptAcknowledged, TypeOK, Unconfirmed, NoRpc, rows, keys, loop,
     world
<1>11. ASSUME NEW x \in Controls, InterruptCompletes(x)
      PROVE  request'[z] = request[z] /\ rpc'[z] = NoRpc
  BY <1>0, <1>11 DEF InterruptCompletes, TypeOK, Unconfirmed, NoRpc, keys, world
<1>12. ASSUME NEW x \in Controls, ControlUnknown(x)
      PROVE  request'[z] = request[z] /\ rpc'[z] = NoRpc
  BY <1>0, <1>12 DEF ControlUnknown, TypeOK, Unconfirmed, NoRpc, keys, world
<1>13. ASSUME \/ ControlRejected \/ ControlReturned \/ CloseStarts \/ CloseFinishes
             \/ Crash
      PROVE  request'[z] = request[z] /\ rpc'[z] = NoRpc
  BY <1>0, <1>13 DEF ControlRejected, Stop, TypeOK, ControlReturned, CloseStarts,
     CloseFinishes, Crash, rows, keys, handles, world
<1>14. ASSUME ControlSent
      PROVE  request'[z] = request[z] /\ rpc'[z] = NoRpc
  BY <1>0, <1>14 DEF ControlSent, Doing, TypeOK, Unconfirmed, NoRpc, keys
<1>15. ASSUME ReceiptSaved
      PROVE  request'[z] = request[z] /\ rpc'[z] = NoRpc
  BY <1>0, <1>15 DEF ReceiptSaved, Doing, TypeOK, Unconfirmed, NoRpc, handles, world
<1>16. ASSUME \/ Reboot \/ ReconcileLedger \/ ReconcileStore \/ UNCHANGED vars
      PROVE  request'[z] = request[z] /\ rpc'[z] = NoRpc
  BY <1>0, <1>16 DEF Reboot, Stop, TypeOK, ReconcileLedger, ReconcileStore, rows, keys,
     process, loop, handles, world, vars
<1>17. ASSUME NEW a \in Agents,
             \/ OrphanEnds(a) \/ RecoverClaim(a)
      PROVE  request'[z] = request[z] /\ rpc'[z] = NoRpc
  BY <1>0, <1>17 DEF OrphanEnds, TypeOK, RecoverClaim, rows, keys, process, loop, handles
<1> QED
  BY <1>1, <1>2, <1>3, <1>4, <1>5, <1>6, <1>7, <1>8, <1>9, <1>10, <1>11, <1>12, <1>13,
     <1>14, <1>15, <1>16, <1>17
  DEF Next, Requests, TurnStep, ControlStep, ControlDecides, Daemon

\* An interruption or a takeover is confirmed by the end of its turn only.
LEMMA OnlyTheEndConfirms ==
    ASSUME TypeInv, [Next]_vars, NEW z \in Controls, rpc[z] # NoRpc, request[z].action # "steer",
           step'.at = "receipt", step'.key = z, step'.outcome = "completed"
    PROVE  Running /\ TurnOver(z)
<1> USE DEF TypeInv
<1>0. step.at \in {"control", "receipt"} => step.key # z
  BY DEF ControlIsOpen
<1>a. step' # step
  BY <1>0
<1>1. ASSUME Begins
      PROVE  Running /\ TurnOver(z)
  BY <1>a, <1>1, BeginsTouch DEF Idle, BeginSteps
<1>2. ASSUME NEW a \in Agents, NEW t \in Tasks, Start(a, t)
      PROVE  Running /\ TurnOver(z)
  BY <1>0, <1>a, <1>2 DEF Start, At, Idle, BeginSteps, TypeOK, Running, handles, world
<1>3. ASSUME NEW c \in Callers, NEW a \in Agents, NEW k \in Continues, ContinueReads(c, a, k)
      PROVE  Running /\ TurnOver(z)
  BY <1>a, <1>3 DEF ContinueReads, Idle, rows, keys, handles, world
<1>4. ASSUME NEW c \in Callers, ContinueReserves(c)
      PROVE  Running /\ TurnOver(z)
  BY <1>0, <1>a, <1>4 DEF ContinueReserves, At, Idle, BeginSteps, TypeOK, Running,
     handles, world
<1>5. ASSUME NEW c \in Callers, ContinueReturns(c)
      PROVE  Running /\ TurnOver(z)
  BY <1>a, <1>5 DEF ContinueReturns, Idle, rows, keys, handles, world
<1>6. ASSUME NEW a \in Agents,
             \/ QueueAdmits(a) \/ QueueGivesUp(a) \/ QueueCancelled(a)
             \/ LeaveQueue(a) \/ Dispatch(a)
      PROVE  Running /\ TurnOver(z)
  BY <1>a, <1>6 DEF QueueAdmits, Idle, QueueGivesUp, Finish, QueueCancelled, LeaveQueue,
     Dispatch, rows, keys, loop, handles, world
<1>7. ASSUME NEW a \in Agents,
             \/ PreparationFails(a) \/ SessionReported(a) \/ RequestStarted(a)
             \/ ControlReady(a) \/ ProviderCompletes(a)
      PROVE  Running /\ TurnOver(z)
  BY <1>a, <1>7 DEF PreparationFails, Finish, Idle, SessionReported, RequestStarted,
     ControlReady, ProviderCompletes, keys, process, loop, handles, world
<1>8. ASSUME NEW a \in Agents,
             \/ ProviderFails(a) \/ EndExecution(a) \/ LetControlGo(a) \/ LetGo(a)
             \/ PoolCloses(a)
      PROVE  Running /\ TurnOver(z)
  BY <1>a, <1>8 DEF ProviderFails, Finish, Idle, EndExecution, LetControlGo, LetGo,
     PoolCloses, keys, process, loop, handles, world
<1>9. ASSUME NEW x \in Controls, NEW a \in Agents, NEW action \in ControlActions,
             NEW exact \in BOOLEAN, ControlReserves(x, a, action, exact)
      PROVE  Running /\ TurnOver(z)
  BY <1>a, <1>9 DEF ControlReserves, Idle, handles, world
<1>10. ASSUME NEW x \in Controls, SteerAccepted(x)
      PROVE  Running /\ TurnOver(z)
  BY <1>a, <1>10 DEF SteerAccepted, Receipt, TypeOK, Running, keys, world
<1>11. ASSUME NEW x \in Controls, InterruptAcknowledged(x)
      PROVE  Running /\ TurnOver(z)
  BY <1>a, <1>11 DEF InterruptAcknowledged, TypeOK, Running, rows, keys, loop, world
<1>12. ASSUME NEW x \in Controls, InterruptCompletes(x)
      PROVE  Running /\ TurnOver(z)
  BY <1>a, <1>12 DEF InterruptCompletes, Receipt, TypeOK, Running, keys, world
<1>13. ASSUME NEW x \in Controls, ControlUnknown(x)
      PROVE  Running /\ TurnOver(z)
  BY <1>a, <1>13 DEF ControlUnknown, Receipt, TypeOK, Running, keys, world
<1>14. ASSUME ControlRejected
      PROVE  Running /\ TurnOver(z)
  BY <1>0, <1>a, <1>14 DEF ControlRejected, Doing, Receipt, Idle, BeginSteps, TypeOK,
     Running, rows, keys, handles, world
<1>15. ASSUME ControlReturned
      PROVE  Running /\ TurnOver(z)
  BY <1>0, <1>a, <1>15 DEF ControlReturned, Doing, Receipt, Idle, BeginSteps, TypeOK,
     Running, keys, handles, world
<1>16. ASSUME ControlSent
      PROVE  Running /\ TurnOver(z)
  BY <1>0, <1>a, <1>16 DEF ControlSent, Doing, Idle, BeginSteps, TypeOK, Running, keys
<1>17. ASSUME ReceiptSaved
      PROVE  Running /\ TurnOver(z)
  BY <1>0, <1>a, <1>17 DEF ReceiptSaved, Doing, Idle, BeginSteps, TypeOK, Running,
     handles, world
<1>18. ASSUME \/ CloseStarts \/ CloseFinishes \/ Crash \/ Reboot \/ ReconcileLedger
      PROVE  Running /\ TurnOver(z)
  BY <1>a, <1>18 DEF CloseStarts, Stop, Idle, CloseFinishes, Crash, Reboot,
     ReconcileLedger, rows, keys, handles, world
<1>19. ASSUME \/ ReconcileStore \/ UNCHANGED vars
      PROVE  Running /\ TurnOver(z)
  BY <1>a, <1>19 DEF ReconcileStore, Idle, rows, keys, process, loop, handles, world, vars
<1>20. ASSUME NEW a \in Agents,
             \/ OrphanEnds(a) \/ RecoverClaim(a)
      PROVE  Running /\ TurnOver(z)
  BY <1>a, <1>20 DEF OrphanEnds, Idle, RecoverClaim, rows, keys, process, loop, handles
<1> QED
  BY <1>1, <1>2, <1>3, <1>4, <1>5, <1>6, <1>7, <1>8, <1>9, <1>10, <1>11, <1>12, <1>13,
     <1>14, <1>15, <1>16, <1>17, <1>18, <1>19, <1>20
  DEF Next, Requests, TurnStep, ControlStep, ControlDecides, Daemon

\* A control key is answered once, and an interruption or takeover is confirmed only when the
\* turn it was aimed at has its outcome on record, whatever the provider acknowledges.
THEOREM ControlsAreAnsweredTruly == Spec => ReceiptsAreTrue
<1> DEFINE Final ==
        \A x \in Controls : request[x] # NoRequest /\ request[x].status # "pending"
                               => request'[x] = request[x] /\ rpc'[x] = NoRpc
<1> DEFINE Ends ==
        \A x \in Controls :
           /\ rpc[x] # NoRpc /\ request[x].action # "steer"
           /\ step'.at = "receipt" /\ step'.key = x /\ step'.outcome = "completed"
           => turns[request[x].agent][rpc[x].turn].status # "running"
<1>1. ASSUME TypeOK, TurnInv, [Next]_vars
      PROVE  Final /\ Ends
  <2>1. TypeInv
    BY <1>1 DEF TypeInv, TurnInv, ClaimInv, ControlInv
  <2>2. Final
    BY <1>1, <2>1, AnswersStay
  <2>3. ASSUME NEW x \in Controls, rpc[x] # NoRpc, request[x].action # "steer",
               step'.at = "receipt", step'.key = x, step'.outcome = "completed"
        PROVE  turns[request[x].agent][rpc[x].turn].status # "running"
    <3>1. PICK a \in Agents : a = request[x].agent
      <4>1. request[x] # NoRequest
        BY <1>1, <2>3 DEF TurnInv, ControlInv, ControlIsOpen, NoRequest
      <4> QED  BY <1>1, <4>1 DEF TypeOK
    <3>2. Running /\ TurnOver(x)
      BY <1>1, <2>1, <2>3, OnlyTheEndConfirms
    <3>3. rpc[x].turn \in DOMAIN turns[a] /\ OnlyLastRuns /\ AgentIsPlaced(a)
      BY <1>1, <2>3, <3>1, <3>2
         DEF TurnInv, ControlInv, ControlHasTurn, RowInv, RowsArePlaced
    <3>4. CASE phase[a] = "none"
      <4>1. ~History!IsRunning(turns[a])
        BY <3>3, <3>4 DEF AgentIsPlaced, TurnIsPlaced, Unfinished, Standing
      <4>2. turns[a] # <<>>
        BY <1>1, <3>3 DEF TypeOK
      <4> QED  BY <3>1, <3>3, <4>1, <4>2 DEF History!IsRunning, OnlyLastRuns
    <3>5. CASE Len(turns[a]) # rpc[x].turn
      BY <3>1, <3>3, <3>5 DEF OnlyLastRuns
    <3> QED  BY <3>1, <3>2, <3>4, <3>5 DEF TurnOver
  <2> QED  BY <2>2, <2>3
<1> QED  BY <1>1, TurnsAreSound, PTL
         DEF Spec, ReceiptsAreTrue, ReceiptsAreFinal, ConfirmationSeesTheEnd

-------------------------------------------------------------------------------
(***************************************************************************)
(* The refinement.                                                         *)
(***************************************************************************)

\* When only the newest turn may run, failing those that run ends at most that one.
LEMMA FailingEndsTheNewest ==
    ASSUME NEW s \in Seq(Turns), \A i \in DOMAIN s : s[i].status = "running" => i = Len(s)
    PROVE  FailRunning(s) = IF History!IsRunning(s) THEN History!Ended(s, "failed") ELSE s
<1>1. s = [i \in DOMAIN s |-> s[i]] /\ DOMAIN s = 1..Len(s)
  OBVIOUS
<1>2. CASE History!IsRunning(s)
  <2>1. Len(s) \in DOMAIN s /\ s[Len(s)].status = "running"
    BY <1>1, <1>2 DEF History!IsRunning
  <2>2. \A i \in DOMAIN s : s[i].status = "running" <=> i = Len(s)
    BY <2>1
  <2> QED  BY <1>2, <2>2 DEF FailRunning, History!Ended
<1>3. CASE ~History!IsRunning(s)
  <2>1. \A i \in DOMAIN s : s[i].status # "running"
    BY <1>1, <1>3 DEF History!IsRunning
  <2> QED  BY <1>1, <1>3, <2>1 DEF FailRunning
<1> QED  BY <1>2, <1>3

\* Every step is one of TurnHistory, or leaves the turns alone.
LEMMA StepsMakeHistory ==
    ASSUME TypeOK, TurnInv, [Next]_vars
    PROVE  [History!Next]_turns
<1>0. OnlyLastRuns /\ (Running => \A a \in Agents : AgentIsPlaced(a))
  BY DEF TurnInv, RowInv, RowsArePlaced
<1>1. CASE BeginTurn
  <2>1. PICK a \in Agents, k \in Keys : a = step.agent /\ k = step.key
    BY <1>1 DEF TypeOK, BeginTurn, Idle, BeginSteps
  <2>2. ~History!IsRunning(turns[a])
    BY <1>0, <1>1, <2>1
       DEF BeginTurn, AgentIsPlaced, BeginIsAlone, TurnIsPlaced, Beginning, BeginSteps,
           Unfinished, Standing
  <2>3. ~History!Ran(a, k)
    BY <1>1, <2>1 DEF BeginTurn, TurnInv, KeyInv, BegunKeyIsNew, BeforeTurn
  <2>4. History!Begin(a, k)
    BY <1>1, <2>1, <2>2, <2>3 DEF BeginTurn, History!Begin
  <2> QED  BY <2>4 DEF History!Next, History!Keys, Keys
<1>2. ASSUME NEW a \in Agents, NEW o \in {"completed", "failed", "stopped"},
             EndTurn(a, o), Running, phase[a] \in Unfinished
      PROVE  History!Next
  <2>1. History!IsRunning(turns[a])
    BY <1>0, <1>2 DEF AgentIsPlaced, TurnIsPlaced
  <2>2. History!End(a, o)
    BY <1>2, <2>1 DEF EndTurn, History!End, History!Ended
  <2> QED  BY <2>2 DEF History!Next, History!Outcomes
<1>3. CASE ReconcileStore
  <2>1. turns' = [a \in Agents |-> FailRunning(turns[a])]
    BY <1>3 DEF ReconcileStore
  <2>2. ASSUME NEW a \in Agents
        PROVE  FailRunning(turns[a]) =
                  IF History!IsRunning(turns[a]) THEN History!Ended(turns[a], "failed")
                  ELSE turns[a]
    BY <1>0, FailingEndsTheNewest DEF TypeOK, OnlyLastRuns
  <2>3. History!Restart
    BY <2>1, <2>2 DEF History!Restart
  <2> QED  BY <2>3 DEF History!Next
<1>4. CASE turns' = turns
  BY <1>4
<1> QED  BY <1>1, <1>2, <1>3, <1>4, TurnsChangeSo

\* AgentTurns implements TurnHistory: the turns of an agent are a history that only grows, one
\* turn runs at a time, and no request is run twice over restarts and retries.
THEOREM TurnsMakeHistory == Spec => ImplementsHistory
<1>1. Init => History!Init
  BY DEF Init, History!Init
<1> QED  BY <1>1, StepsMakeHistory, TurnsAreSound, PTL DEF Spec, ImplementsHistory, History!Spec
-------------------------------------------------------------------------------
(***************************************************************************)
(* Desktop ownership.                                                      *)
(***************************************************************************)

\* An agent stays named, a request stays with its agent, and owners are of named agents.
LEMMA NamesAreKept ==
    ASSUME TypeOK, NamelessIsUnowned, RequestsNameAgents,
           \A a \in Agents : status[a] # "none" => status'[a] # "none",
           \A a \in Agents : control'[a] # control[a] => status[a] # "none",
           \A x \in Controls : request'[x] # NoRequest =>
               request[x] # NoRequest /\ request'[x].agent = request[x].agent
    PROVE  NamelessIsUnowned' /\ RequestsNameAgents'
<1>1. \A x \in Controls : request[x] # NoRequest => request[x].agent \in Agents
  BY DEF TypeOK
<1> QED  BY <1>1 DEF NamelessIsUnowned, RequestsNameAgents

\* Where begin() stands before its turn, and for which key, changes with begin() only.
LEMMA OwnersAreStillSeen ==
    ASSUME StartsSeeTheOwner,
           \/ step'.at \notin BeforeTurn
           \/ /\ control' = control
              /\ \/ step' = step
                 \/ step.at \in BeforeTurn /\ step'.agent = step.agent /\ step'.key = step.key
    PROVE  StartsSeeTheOwner'
BY DEF StartsSeeTheOwner

\* Every step keeps what a start saw of the owner.
LEMMA DesktopIsInductive ==
    ASSUME TypeInv, TurnInv, DesktopInv, [Next]_vars
    PROVE  DesktopInv'
<1> USE DEF TypeInv
<1>0. NamelessIsUnowned /\ RequestsNameAgents /\ StartsSeeTheOwner
  BY DEF DesktopInv
<1>a. ASSUME UNCHANGED <<status, control, request>>,
             step' = step \/ step'.at \notin BeforeTurn
      PROVE  DesktopInv'
  BY <1>0, <1>a, NamesAreKept, OwnersAreStillSeen DEF DesktopInv
<1>b. ASSUME NEW a \in Agents, NEW s \in Pending \union Settled,
             status' = [status EXCEPT ![a] = s], UNCHANGED <<control, request>>,
             step' = step \/ step'.at \notin BeforeTurn
      PROVE  DesktopInv'
  <2>1. \A b \in Agents : status[b] # "none" => status'[b] # "none"
    BY <1>b DEF TypeOK, Pending, Settled
  <2> QED  BY <1>0, <1>b, <2>1, NamesAreKept, OwnersAreStillSeen DEF DesktopInv
<1>c. ASSUME NEW a \in Agents, status[a] # "none", NEW o, control' = [control EXCEPT ![a] = o],
             UNCHANGED <<status, request>>, step'.at \notin BeforeTurn
      PROVE  DesktopInv'
  <2>1. \A b \in Agents : control'[b] # control[b] => status[b] # "none"
    BY <1>c DEF TypeOK
  <2> QED  BY <1>0, <1>c, <2>1, NamesAreKept, OwnersAreStillSeen DEF DesktopInv
<1>1. ASSUME Begins
      PROVE  DesktopInv'
  <2>1. UNCHANGED <<control, request>>
    BY <1>1, BeginsTouch DEF keys
  <2>2. step'.at \in BeforeTurn =>
           step.at \in BeforeTurn /\ step'.agent = step.agent /\ step'.key = step.key
    <3>1. step \in [at: BeginSteps, agent: Agents, key: Keys]
      BY <1>1, BeginsTouch DEF TypeOK, Idle, BeginSteps
    <3>2. ASSUME \/ AccountRefuses \/ AdmissionFails \/ Unaccount \/ Refuse \/ BeginTurn \/ Queue
          PROVE  step'.at \notin BeforeTurn
      BY <3>1, <3>2 DEF AccountRefuses, AdmissionFails, Unaccount, Refuse, BeginTurn, Queue, Idle,
                        BeforeTurn
    <3>3. ASSUME Account \/ Admit \/ Enqueue
          PROVE  step.at \in BeforeTurn
      BY <3>3 DEF Account, Admit, Enqueue, Doing, BeforeTurn
    <3> QED  BY <1>1, <3>2, <3>3, BeginsTouch DEF Begins, BeforeTurn, BeginSteps
  <2>3. \A b \in Agents : status[b] # "none" => status'[b] # "none"
    BY <1>1
       DEF Begins, Account, AccountRefuses, Admit, Enqueue, AdmissionFails, Unaccount, Refuse,
           BeginTurn, Queue, TypeOK, rows
  <2> QED  BY <1>0, <2>1, <2>2, <2>3, NamesAreKept, OwnersAreStillSeen DEF DesktopInv
<1>2. ASSUME NEW a \in Agents, NEW t \in Tasks, Start(a, t)
      PROVE  DesktopInv'
  <2>1. control[a] # "desktop_owned"
    BY <1>0, <1>2 DEF Start, Resumable, OwnedElsewhere, NamelessIsUnowned
  <2>2. StartsSeeTheOwner'
    BY <1>2, <2>1 DEF Start, At, StartsSeeTheOwner
  <2>3. \A b \in Agents : status[b] # "none" => status'[b] # "none"
    BY <1>2 DEF Start, TypeOK
  <2>4. NamelessIsUnowned' /\ RequestsNameAgents'
    BY <1>0, <1>2, <2>3, NamesAreKept DEF Start
  <2> QED  BY <2>2, <2>4 DEF DesktopInv
<1>3. ASSUME NEW c \in Callers, ContinueReserves(c)
      PROVE  DesktopInv'
  <2>1. caller[c].key \in Continues
    BY <1>3 DEF ContinueReserves, TypeOK
  <2>2. StartsSeeTheOwner'
    BY <1>3, <2>1, KeysAssumption DEF ContinueReserves, At, StartsSeeTheOwner
  <2>3. \A b \in Agents : status[b] # "none" => status'[b] # "none"
    BY <1>3 DEF ContinueReserves, TypeOK
  <2>4. NamelessIsUnowned' /\ RequestsNameAgents'
    BY <1>0, <1>3, <2>3, NamesAreKept DEF ContinueReserves
  <2> QED  BY <2>2, <2>4 DEF DesktopInv
<1>4. ASSUME NEW c \in Callers,
             \/ \E a \in Agents, k \in Continues : ContinueReads(c, a, k)
             \/ ContinueReturns(c)
      PROVE  DesktopInv'
  BY <1>4, <1>a DEF ContinueReads, ContinueReturns, rows, keys
<1>5. ASSUME NEW a \in Agents,
             \/ QueueAdmits(a) \/ QueueGivesUp(a) \/ QueueCancelled(a) \/ LeaveQueue(a)
      PROVE  DesktopInv'
  BY <1>5, <1>b
     DEF QueueAdmits, QueueGivesUp, QueueCancelled, LeaveQueue, Finish, keys, loop,
         Pending, Settled
<1>6. ASSUME NEW a \in Agents,
             \/ PreparationFails(a) \/ ProviderCompletes(a) \/ ProviderFails(a) \/ PoolCloses(a)
      PROVE  DesktopInv'
  BY <1>6, <1>b
     DEF PreparationFails, ProviderCompletes, ProviderFails, PoolCloses, Finish, keys, loop,
         Settled
<1>7. ASSUME NEW a \in Agents,
             \/ Dispatch(a) \/ SessionReported(a) \/ RequestStarted(a) \/ EndExecution(a)
             \/ LetGo(a)
      PROVE  DesktopInv'
  BY <1>7, <1>a
     DEF Dispatch, SessionReported, RequestStarted, EndExecution, LetGo, rows, keys, loop, process
<1>8. ASSUME NEW a \in Agents, ControlReady(a) \/ LetControlGo(a)
      PROVE  DesktopInv'
  <2>1. CASE ControlReady(a)
    <3>1. status[a] = "running"
      BY <2>1 DEF ControlReady, Free, TurnInv, RowInv, RowsArePlaced, AgentIsPlaced,
                  StatusIsPlaced, Beginning, Idle, BeginSteps
    <3> QED  BY <1>c, <2>1, <3>1 DEF ControlReady, Free, keys, loop, Idle, BeforeTurn
  <2>2. CASE LetControlGo(a)
    <3>1. status[a] # "none"
      BY <1>0, <2>2 DEF LetControlGo, NamelessIsUnowned, ActiveControl
    <3> QED  BY <1>c, <2>2, <3>1 DEF LetControlGo, keys, loop, process, Idle, BeforeTurn
  <2> QED  BY <1>8, <2>1, <2>2
<1>9. ASSUME NEW x \in Controls, NEW a \in Agents, NEW action \in ControlActions,
             NEW exact \in BOOLEAN, ControlReserves(x, a, action, exact)
      PROVE  DesktopInv'
  <2>1. NamelessIsUnowned' /\ RequestsNameAgents'
    BY <1>0, <1>9 DEF ControlReserves, NamelessIsUnowned, RequestsNameAgents, TypeOK
  <2>2. StartsSeeTheOwner'
    BY <1>0, <1>9, OwnersAreStillSeen DEF ControlReserves, BeforeTurn
  <2> QED  BY <2>1, <2>2 DEF DesktopInv
<1>e. ASSUME NEW x \in Controls, rpc[x] # NoRpc
      PROVE  request[x].agent \in Agents /\ status[request[x].agent] # "none"
  <2>1. request[x] # NoRequest
    BY <1>e DEF ControlIsOpen, NoRequest
  <2> QED  BY <1>0, <1>e, <2>1 DEF RequestsNameAgents, TypeOK
<1>10. ASSUME NEW x \in Controls,
              SteerAccepted(x) \/ InterruptCompletes(x) \/ ControlUnknown(x)
       PROVE  DesktopInv'
  <2>1. rpc[x] # NoRpc
    BY <1>10 DEF SteerAccepted, InterruptCompletes, ControlUnknown, Unconfirmed, NoRpc
  <2>2. PICK a \in Agents : a = request[x].agent /\ status[a] # "none"
    BY <2>1, <1>e
  <2> QED  BY <1>10, <1>c, <2>2
           DEF SteerAccepted, InterruptCompletes, ControlUnknown, Receipt, keys, BeforeTurn
<1>11. ASSUME NEW x \in Controls, InterruptAcknowledged(x)
       PROVE  DesktopInv'
  BY <1>11, <1>a DEF InterruptAcknowledged, rows, keys, loop
<1>12. ASSUME ControlRejected
       PROVE  DesktopInv'
  BY <1>12, <1>a DEF ControlRejected, Receipt, rows, keys, BeforeTurn
<1>13. ASSUME ControlReturned \/ ControlSent
       PROVE  DesktopInv'
  <2>1. step.key \in Controls /\ request[step.key] # NoRequest
    BY <1>13 DEF ControlReturned, ControlSent, Doing, TypeOK, Idle, BeginSteps, ControlIsOpen,
                 NoRequest
  <2>2. PICK a \in Agents : a = request[step.key].agent /\ status[a] # "none"
    BY <1>0, <2>1 DEF RequestsNameAgents, TypeOK
  <2>3. CASE ControlReturned
    BY <1>c, <2>2, <2>3 DEF ControlReturned, Receipt, keys, BeforeTurn
  <2>4. CASE ControlSent
    BY <1>c, <2>2, <2>4 DEF ControlSent, Idle, keys, BeforeTurn
  <2> QED  BY <1>13, <2>3, <2>4
<1>14. ASSUME ReceiptSaved
       PROVE  DesktopInv'
  <2>1. step.key \in Controls /\ request[step.key] # NoRequest
    BY <1>14 DEF ReceiptSaved, Doing, TypeOK, Idle, BeginSteps, ControlIsOpen, NoRequest
  <2>2. \A x \in Controls : request'[x] # NoRequest =>
            request[x] # NoRequest /\ request'[x].agent = request[x].agent
    BY <1>14, <2>1 DEF ReceiptSaved, TypeOK
  <2> QED  BY <1>0, <1>14, <2>2, NamesAreKept, OwnersAreStillSeen
           DEF ReceiptSaved, DesktopInv, Idle, BeforeTurn
<1>15. ASSUME \/ CloseStarts \/ CloseFinishes \/ Crash \/ Reboot \/ ReconcileLedger
              \/ UNCHANGED vars
       PROVE  DesktopInv'
  BY <1>15, <1>a
     DEF CloseStarts, CloseFinishes, Crash, Reboot, Stop, ReconcileLedger, Idle, BeforeTurn, rows,
         keys, vars, process, loop
<1>16. ASSUME ReconcileStore
       PROVE  DesktopInv'
  <2>1. step.at \notin BeforeTurn /\ step' = step
    BY <1>16 DEF ReconcileStore, TurnInv, RowInv, DownIsQuiet, Running, Idle, BeforeTurn
  <2>2. /\ \A a \in Agents : status[a] # "none" => status'[a] # "none"
        /\ \A a \in Agents : control'[a] # control[a] => status[a] # "none"
    BY <1>0, <1>16 DEF ReconcileStore, NamelessIsUnowned, ActiveControl
  <2> QED  BY <1>0, <1>16, <2>1, <2>2, NamesAreKept, OwnersAreStillSeen
           DEF ReconcileStore, DesktopInv, keys
<1>17. ASSUME NEW a \in Agents, OrphanEnds(a) \/ RecoverClaim(a)
       PROVE  DesktopInv'
  BY <1>17, <1>a DEF OrphanEnds, RecoverClaim, rows, keys, process, loop
<1> QED
  BY <1>1, <1>2, <1>3, <1>4, <1>5, <1>6, <1>7, <1>8, <1>9, <1>10, <1>11, <1>12, <1>13, <1>14,
     <1>15, <1>16, <1>17
  DEF Next, Requests, TurnStep, ControlStep, ControlDecides, Daemon

\* A turn begins under desktop ownership only with the key of a continuation, one that had
\* looked at the owner before it waited for the profile files.
OnlyContinuationsSlipIn ==
    [][\A a \in Agents : control[a] = "desktop_owned" /\ Len(turns'[a]) # Len(turns[a])
                            => step.agent = a /\ step.key \in Continues]_vars

\* No task is ever started on an agent that Desktop owns, whatever control requests, restarts
\* and retries come between: the check of continue(), made before it waits, is the only gap.
THEOREM TasksRespectDesktop == Spec => OnlyContinuationsSlipIn
<1> DEFINE Slips ==
        \A a \in Agents : control[a] = "desktop_owned" /\ Len(turns'[a]) # Len(turns[a])
                             => step.agent = a /\ step.key \in Continues
<1>1. Init => DesktopInv
  BY DEF Init, DesktopInv, NamelessIsUnowned, RequestsNameAgents, StartsSeeTheOwner, Idle,
         BeforeTurn
<1>2. TypeOK /\ TurnInv => TypeInv
  BY DEF TypeInv, TurnInv, ClaimInv, ControlInv
<1>3. ASSUME TypeOK, TurnInv, DesktopInv, [Next]_vars
      PROVE  DesktopInv'
  BY <1>2, <1>3, DesktopIsInductive
<1>4. ASSUME TypeOK, TurnInv, DesktopInv, [Next]_vars
      PROVE  Slips
  <2> SUFFICES ASSUME NEW a \in Agents, control[a] = "desktop_owned",
                      Len(turns'[a]) # Len(turns[a])
               PROVE  step.agent = a /\ step.key \in Continues
    OBVIOUS
  <2>1. ASSUME NEW b \in Agents, NEW o \in {"completed", "failed", "stopped"}, EndTurn(b, o)
        PROVE  Len(turns'[a]) = Len(turns[a])
    <3>1. turns[b] \in Seq(Turns) /\ turns[a] \in Seq(Turns)
      BY <1>4 DEF TypeOK
    <3>2. turns'[a] = IF a = b THEN History!Ended(turns[b], o) ELSE turns[a]
      BY <1>4, <2>1 DEF TypeOK, EndTurn, History!Ended
    <3> QED  BY <3>1, <3>2, EndedKeepsTheRest
  <2>2. ASSUME ReconcileStore
        PROVE  Len(turns'[a]) = Len(turns[a])
    <3>1. turns[a] \in Seq(Turns) /\ turns'[a] = FailRunning(turns[a])
      BY <1>4, <2>2 DEF TypeOK, ReconcileStore
    <3> QED  BY <3>1, FailingKeepsTheRest
  <2>3. BeginTurn
    BY <1>4, <2>1, <2>2, TurnsChangeSo
  <2>4. step.agent \in Agents /\ step.key \in Keys /\ step.at \in BeforeTurn
    BY <1>4, <2>3 DEF TypeOK, BeginTurn, Idle, BeginSteps, BeforeTurn
  <2>5. step.agent = a
    BY <1>4, <2>3, <2>4 DEF TypeOK, BeginTurn
  <2> QED  BY <1>4, <2>4, <2>5 DEF DesktopInv, StartsSeeTheOwner, Keys
<1> QED  BY <1>1, <1>3, <1>4, TurnsAreSound, PTL DEF Spec, OnlyContinuationsSlipIn

NobodyContinues == Continues = {}

\* Where nobody continues an agent, Desktop ownership does stop new turns.
THEOREM DesktopStopsTurns == ASSUME NobodyContinues PROVE Spec => DesktopRefusesTurns
<1>1. ASSUME [\A a \in Agents : control[a] = "desktop_owned" /\ Len(turns'[a]) # Len(turns[a])
                                   => step.agent = a /\ step.key \in Continues]_vars
      PROVE  [\A a \in Agents : control[a] = "desktop_owned"
                                   => Len(turns'[a]) = Len(turns[a])]_vars
  BY <1>1 DEF NobodyContinues
<1> QED  BY <1>1, TasksRespectDesktop, PTL DEF OnlyContinuationsSlipIn, DesktopRefusesTurns
===============================================================================
