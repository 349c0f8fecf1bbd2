----------------------- MODULE DaemonLifecycle_proofs -----------------------
(***************************************************************************)
(* The safety of the daemon's lock and of replacing a daemon, for any      *)
(* number of daemons, clients and configurations; and, at the end, that of *)
(* the requests to the daemon that serves (DaemonWire), of the settings of *)
(* its turns (TurnSettings) and of their registration with the Codex       *)
(* Desktop (DesktopProjects), as the parts of Agentd that they are.        *)
(*                                                                         *)
(* The lock is only safe while no daemon dies and leaves it behind: the    *)
(* recovery of a stale lock is what breaks OneDaemon (run StaleLock), so   *)
(* its theorems assume NobodyDies.  Failed starts are allowed in them.     *)
(***************************************************************************)
EXTENDS Agentd, FiniteSetTheorems, TLAPS

LEMMA TypeIsInductive == TypeOK /\ [Next]_vars => TypeOK'
<1>. SUFFICES ASSUME TypeOK, [Next]_vars PROVE TypeOK'
  OBVIOUS
<1>. USE RevisionsAssumption
     DEF TypeOK, Starting, Ending, Gone, ClientPlaces, Goes, files, work, daemon
<1>1. ASSUME NEW p \in Daemons, Publish(p) PROVE TypeOK'
  BY <1>1 DEF Publish
<1>2. ASSUME NEW p \in Daemons, Occupied(p) PROVE TypeOK'
  BY <1>2 DEF Occupied
<1>3. ASSUME NEW p \in Daemons, AlreadyRunning(p) PROVE TypeOK'
  BY <1>3 DEF AlreadyRunning
<1>4. ASSUME NEW p \in Daemons, FindsStale(p) PROVE TypeOK'
  BY <1>4 DEF FindsStale
<1>5. ASSUME NEW p \in Daemons, RemoveStale(p) PROVE TypeOK'
  BY <1>5 DEF RemoveStale
<1>6. ASSUME NEW p \in Daemons, Reconcile(p) PROVE TypeOK'
  BY <1>6 DEF Reconcile
<1>7. ASSUME NEW p \in Daemons, Listen(p) PROVE TypeOK'
  BY <1>7 DEF Listen
<1>8. ASSUME NEW p \in Daemons, CleansUp(p) PROVE TypeOK'
  BY <1>8 DEF CleansUp
<1>9. ASSUME NEW p \in Daemons, Close(p) PROVE TypeOK'
  BY <1>9 DEF Close, Closes, CutOff
<1>10. ASSUME NEW p \in Daemons, RemoveFiles(p) PROVE TypeOK'
  BY <1>10 DEF RemoveFiles
<1>11. ASSUME NEW p \in Daemons, Release(p) PROVE TypeOK'
  BY <1>11 DEF Release, Ends
<1>12. ASSUME NEW p \in Daemons, StartFails(p) PROVE TypeOK'
  BY <1>12 DEF StartFails
<1>13. ASSUME NEW p \in Daemons, Stop(p) PROVE TypeOK'
  BY <1>13 DEF Stop
<1>14. ASSUME NEW p \in Daemons, IdleShutdown(p) PROVE TypeOK'
  BY <1>14 DEF IdleShutdown, Closes, CutOff
<1>15. ASSUME NEW p \in Daemons, Die(p) PROVE TypeOK'
  BY <1>15 DEF Die, Ends, CutOff
<1>16. ASSUME NEW p \in Daemons, NEW c \in Clients, BeginsTurn(p, c) PROVE TypeOK'
  BY <1>16 DEF BeginsTurn, AnswersClient
<1>17. ASSUME NEW p \in Daemons, NEW c \in Clients, RequestFails(p, c) PROVE TypeOK'
  BY <1>17 DEF RequestFails, AnswersClient
<1>18. ASSUME NEW p \in Daemons, NEW c \in Clients, TurnEnds(p, c) PROVE TypeOK'
  BY <1>18 DEF TurnEnds
<1>19. ASSUME NEW c \in Clients, Ask(c) PROVE TypeOK'
  BY <1>19 DEF Ask, Moves
<1>20. ASSUME NEW c \in Clients, HelloUnavailable(c) PROVE TypeOK'
  BY <1>20 DEF HelloUnavailable, Moves
<1>21. ASSUME NEW c \in Clients, StopRefused(c) PROVE TypeOK'
  BY <1>21, ZenonT(60) DEF StopRefused, GivesUp, Moves
<1>22. ASSUME NEW c \in Clients, StopSeen(c) PROVE TypeOK'
  BY <1>22, ZenonT(60) DEF StopSeen, GivesUp, Moves
<1>23. ASSUME NEW c \in Clients, SendRefused(c) PROVE TypeOK'
  BY <1>23 DEF SendRefused, Moves
<1>24. ASSUME NEW c \in Clients, OutOfTime(c) PROVE TypeOK'
  BY <1>24 DEF OutOfTime, Moves
<1>25. ASSUME NEW c \in Clients, TimesOut(c) PROVE TypeOK'
  BY <1>25 DEF TimesOut, Moves
<1>26. ASSUME NEW p \in Daemons, NEW c \in Clients, HelloReady(c, p) PROVE TypeOK'
  BY <1>26 DEF HelloReady, Moves
<1>27. ASSUME NEW p \in Daemons, NEW c \in Clients, HelloBusy(c, p) PROVE TypeOK'
  BY <1>27 DEF HelloBusy, Moves
<1>28. ASSUME NEW p \in Daemons, NEW c \in Clients, HelloChanged(c, p) PROVE TypeOK'
  BY <1>28, ZenonT(60) DEF HelloChanged
<1>29. ASSUME NEW p \in Daemons, NEW c \in Clients, StopAccepted(c, p) PROVE TypeOK'
  <2>1. client' \in [Clients -> [at : ClientPlaces, spawned : BOOLEAN, daemon : Daemons \union {None}]]
    BY <1>29 DEF StopAccepted, Moves
  <2>2. at' \in [Daemons -> Starting \union Ending \union Gone \union {"ready"}]
    BY <1>29 DEF StopAccepted
  <2>3. replaced' \subseteq Daemons \X Clients
    BY <1>29 DEF StopAccepted
  <2>. QED BY <1>29, <2>1, <2>2, <2>3, Zenon DEF StopAccepted
<1>30. ASSUME NEW p \in Daemons, NEW c \in Clients, ReplacementSeen(c, p) PROVE TypeOK'
  BY <1>30 DEF ReplacementSeen, Moves
<1>31. ASSUME NEW p \in Daemons, NEW c \in Clients, Spawn(c, p) PROVE TypeOK'
  BY <1>31, ZenonT(60) DEF Spawn
<1>32. ASSUME NEW p \in Daemons, NEW c \in Clients, Send(c, p) PROVE TypeOK'
  BY <1>32, ZenonT(60) DEF Send
<1>33. CASE UNCHANGED vars
  BY <1>33 DEF vars
<1>. QED
  BY <1>1, <1>2, <1>3, <1>4, <1>5, <1>6, <1>7, <1>8, <1>9, <1>10, <1>11, <1>12,
     <1>13, <1>14, <1>15, <1>16, <1>17, <1>18, <1>19, <1>20, <1>21, <1>22,
     <1>23, <1>24, <1>25, <1>26, <1>27, <1>28, <1>29, <1>30, <1>31, <1>32, <1>33
     DEF Next, DaemonStep, Intervenes, Serves, ClientStep

\* The files, the daemons and the clients always have the shape the code
\* expects.
THEOREM TypeCorrect == Spec => []TypeOK
<1>1. Init => TypeOK
  BY DEF Init, Earlier, TypeOK, Starting, Ending, Gone, ClientPlaces
<1>. QED
  BY <1>1, TypeIsInductive, PTL DEF Spec

LEMMA OwnersInductive ==
  ASSUME NobodyDies
  PROVE  TypeOK /\ OwnersHoldLock /\ [Next]_vars => OwnersHoldLock'
<1>. SUFFICES ASSUME TypeOK, OwnersHoldLock, [Next]_vars PROVE OwnersHoldLock'
  OBVIOUS
<1>. USE NobodyDies, NoneAssumption
     DEF NobodyDies, TypeOK, OwnersHoldLock, Owning, Gone, Alive, Goes, files, work, daemon
<1>1. ASSUME NEW p \in Daemons, Publish(p) PROVE OwnersHoldLock'
  BY <1>1 DEF Publish
<1>2. ASSUME NEW p \in Daemons, Occupied(p) PROVE OwnersHoldLock'
  BY <1>2 DEF Occupied
<1>3. ASSUME NEW p \in Daemons, AlreadyRunning(p) PROVE OwnersHoldLock'
  BY <1>3 DEF AlreadyRunning
<1>4. ASSUME NEW p \in Daemons, FindsStale(p) PROVE OwnersHoldLock'
  BY <1>4 DEF FindsStale
<1>5. ASSUME NEW p \in Daemons, RemoveStale(p) PROVE OwnersHoldLock'
  BY <1>5 DEF RemoveStale
<1>6. ASSUME NEW p \in Daemons, Reconcile(p) PROVE OwnersHoldLock'
  BY <1>6 DEF Reconcile
<1>7. ASSUME NEW p \in Daemons, Listen(p) PROVE OwnersHoldLock'
  BY <1>7 DEF Listen
<1>8. ASSUME NEW p \in Daemons, CleansUp(p) PROVE OwnersHoldLock'
  BY <1>8 DEF CleansUp
<1>9. ASSUME NEW p \in Daemons, Close(p) PROVE OwnersHoldLock'
  BY <1>9 DEF Close, Closes, CutOff
<1>10. ASSUME NEW p \in Daemons, RemoveFiles(p) PROVE OwnersHoldLock'
  BY <1>10 DEF RemoveFiles
<1>11. ASSUME NEW p \in Daemons, Release(p) PROVE OwnersHoldLock'
  BY <1>11 DEF Release, Ends
<1>12. ASSUME NEW p \in Daemons, StartFails(p) PROVE OwnersHoldLock'
  BY <1>12 DEF StartFails
<1>13. ASSUME NEW p \in Daemons, Stop(p) PROVE OwnersHoldLock'
  BY <1>13 DEF Stop
<1>14. ASSUME NEW p \in Daemons, IdleShutdown(p) PROVE OwnersHoldLock'
  BY <1>14 DEF IdleShutdown, Closes, CutOff
<1>15. ASSUME NEW p \in Daemons, Die(p) PROVE OwnersHoldLock'
  BY <1>15 DEF Die, Ends, CutOff
<1>16. ASSUME NEW p \in Daemons, NEW c \in Clients, BeginsTurn(p, c) PROVE OwnersHoldLock'
  BY <1>16 DEF BeginsTurn, AnswersClient
<1>17. ASSUME NEW p \in Daemons, NEW c \in Clients, RequestFails(p, c) PROVE OwnersHoldLock'
  BY <1>17 DEF RequestFails, AnswersClient
<1>18. ASSUME NEW p \in Daemons, NEW c \in Clients, TurnEnds(p, c) PROVE OwnersHoldLock'
  BY <1>18 DEF TurnEnds
<1>19. ASSUME NEW c \in Clients, Ask(c) PROVE OwnersHoldLock'
  BY <1>19 DEF Ask, Moves
<1>20. ASSUME NEW c \in Clients, HelloUnavailable(c) PROVE OwnersHoldLock'
  BY <1>20 DEF HelloUnavailable, Moves
<1>21. ASSUME NEW c \in Clients, StopRefused(c) PROVE OwnersHoldLock'
  BY <1>21 DEF StopRefused, GivesUp, Moves
<1>22. ASSUME NEW c \in Clients, StopSeen(c) PROVE OwnersHoldLock'
  BY <1>22 DEF StopSeen, GivesUp, Moves
<1>23. ASSUME NEW c \in Clients, SendRefused(c) PROVE OwnersHoldLock'
  BY <1>23 DEF SendRefused, Moves
<1>24. ASSUME NEW c \in Clients, OutOfTime(c) PROVE OwnersHoldLock'
  BY <1>24 DEF OutOfTime, Moves
<1>25. ASSUME NEW c \in Clients, TimesOut(c) PROVE OwnersHoldLock'
  BY <1>25 DEF TimesOut, Moves
<1>26. ASSUME NEW p \in Daemons, NEW c \in Clients, HelloReady(c, p) PROVE OwnersHoldLock'
  BY <1>26 DEF HelloReady, Moves
<1>27. ASSUME NEW p \in Daemons, NEW c \in Clients, HelloBusy(c, p) PROVE OwnersHoldLock'
  BY <1>27 DEF HelloBusy, Moves
<1>28. ASSUME NEW p \in Daemons, NEW c \in Clients, HelloChanged(c, p) PROVE OwnersHoldLock'
  BY <1>28 DEF HelloChanged
<1>29. ASSUME NEW p \in Daemons, NEW c \in Clients, StopAccepted(c, p) PROVE OwnersHoldLock'
  BY <1>29 DEF StopAccepted, Moves
<1>30. ASSUME NEW p \in Daemons, NEW c \in Clients, ReplacementSeen(c, p) PROVE OwnersHoldLock'
  BY <1>30 DEF ReplacementSeen, Moves
<1>31. ASSUME NEW p \in Daemons, NEW c \in Clients, Spawn(c, p) PROVE OwnersHoldLock'
  BY <1>31 DEF Spawn
<1>32. ASSUME NEW p \in Daemons, NEW c \in Clients, Send(c, p) PROVE OwnersHoldLock'
  BY <1>32 DEF Send
<1>33. CASE UNCHANGED vars
  BY <1>33 DEF vars
<1>. QED
  BY <1>1, <1>2, <1>3, <1>4, <1>5, <1>6, <1>7, <1>8, <1>9, <1>10, <1>11, <1>12,
     <1>13, <1>14, <1>15, <1>16, <1>17, <1>18, <1>19, <1>20, <1>21, <1>22,
     <1>23, <1>24, <1>25, <1>26, <1>27, <1>28, <1>29, <1>30, <1>31, <1>32, <1>33
     DEF Next, DaemonStep, Intervenes, Serves, ClientStep

LEMMA OwnersAlways == ASSUME NobodyDies PROVE Spec => [](TypeOK /\ OwnersHoldLock)
<1>1. Init => OwnersHoldLock
  BY NobodyDies, NoneAssumption DEF NobodyDies, Init, Earlier, OwnersHoldLock, Owning
<1>2. Init => TypeOK
  BY DEF Init, Earlier, TypeOK, Starting, Ending, Gone, ClientPlaces
<1>. QED
  BY <1>1, <1>2, TypeIsInductive, OwnersInductive, PTL DEF Spec

\* Only one process at a time owns the state directory (docs:
\* "a second client cannot start another daemon"), unless a daemon dies and
\* its lock has to be recovered.
THEOREM OneDaemonOwns == ASSUME NobodyDies PROVE Spec => []OneDaemon
<1>1. OwnersHoldLock => OneDaemon
  BY DEF OwnersHoldLock, OneDaemon
<1>. QED
  BY <1>1, OwnersAlways, PTL

LEMMA WorkInductive == TypeOK /\ WorkIsServed /\ [Next]_vars => WorkIsServed'
<1>. SUFFICES ASSUME TypeOK, WorkIsServed, [Next]_vars PROVE WorkIsServed'
  OBVIOUS
<1>. USE DEF TypeOK, WorkIsServed, Serving, Answers, Goes, files, work, daemon
<1>1. ASSUME NEW p \in Daemons, Publish(p) PROVE WorkIsServed'
  BY <1>1 DEF Publish
<1>2. ASSUME NEW p \in Daemons, Occupied(p) PROVE WorkIsServed'
  BY <1>2 DEF Occupied
<1>3. ASSUME NEW p \in Daemons, AlreadyRunning(p) PROVE WorkIsServed'
  BY <1>3 DEF AlreadyRunning
<1>4. ASSUME NEW p \in Daemons, FindsStale(p) PROVE WorkIsServed'
  BY <1>4 DEF FindsStale
<1>5. ASSUME NEW p \in Daemons, RemoveStale(p) PROVE WorkIsServed'
  BY <1>5 DEF RemoveStale
<1>6. ASSUME NEW p \in Daemons, Reconcile(p) PROVE WorkIsServed'
  BY <1>6 DEF Reconcile
<1>7. ASSUME NEW p \in Daemons, Listen(p) PROVE WorkIsServed'
  BY <1>7 DEF Listen
<1>8. ASSUME NEW p \in Daemons, CleansUp(p) PROVE WorkIsServed'
  BY <1>8 DEF CleansUp
<1>9. ASSUME NEW p \in Daemons, Close(p) PROVE WorkIsServed'
  BY <1>9 DEF Close, Closes, CutOff
<1>10. ASSUME NEW p \in Daemons, RemoveFiles(p) PROVE WorkIsServed'
  BY <1>10 DEF RemoveFiles
<1>11. ASSUME NEW p \in Daemons, Release(p) PROVE WorkIsServed'
  BY <1>11 DEF Release, Ends
<1>12. ASSUME NEW p \in Daemons, StartFails(p) PROVE WorkIsServed'
  BY <1>12 DEF StartFails
<1>13. ASSUME NEW p \in Daemons, Stop(p) PROVE WorkIsServed'
  BY <1>13 DEF Stop
<1>14. ASSUME NEW p \in Daemons, IdleShutdown(p) PROVE WorkIsServed'
  BY <1>14 DEF IdleShutdown, Closes, CutOff
<1>15. ASSUME NEW p \in Daemons, Die(p) PROVE WorkIsServed'
  BY <1>15 DEF Die, Ends, CutOff
<1>16. ASSUME NEW p \in Daemons, NEW c \in Clients, BeginsTurn(p, c) PROVE WorkIsServed'
  BY <1>16 DEF BeginsTurn, AnswersClient
<1>17. ASSUME NEW p \in Daemons, NEW c \in Clients, RequestFails(p, c) PROVE WorkIsServed'
  BY <1>17 DEF RequestFails, AnswersClient
<1>18. ASSUME NEW p \in Daemons, NEW c \in Clients, TurnEnds(p, c) PROVE WorkIsServed'
  BY <1>18 DEF TurnEnds
<1>19. ASSUME NEW c \in Clients, Ask(c) PROVE WorkIsServed'
  BY <1>19 DEF Ask, Moves
<1>20. ASSUME NEW c \in Clients, HelloUnavailable(c) PROVE WorkIsServed'
  BY <1>20 DEF HelloUnavailable, Moves
<1>21. ASSUME NEW c \in Clients, StopRefused(c) PROVE WorkIsServed'
  BY <1>21 DEF StopRefused, GivesUp, Moves
<1>22. ASSUME NEW c \in Clients, StopSeen(c) PROVE WorkIsServed'
  BY <1>22 DEF StopSeen, GivesUp, Moves
<1>23. ASSUME NEW c \in Clients, SendRefused(c) PROVE WorkIsServed'
  BY <1>23 DEF SendRefused, Moves
<1>24. ASSUME NEW c \in Clients, OutOfTime(c) PROVE WorkIsServed'
  BY <1>24 DEF OutOfTime, Moves
<1>25. ASSUME NEW c \in Clients, TimesOut(c) PROVE WorkIsServed'
  BY <1>25 DEF TimesOut, Moves
<1>26. ASSUME NEW p \in Daemons, NEW c \in Clients, HelloReady(c, p) PROVE WorkIsServed'
  BY <1>26 DEF HelloReady, Moves
<1>27. ASSUME NEW p \in Daemons, NEW c \in Clients, HelloBusy(c, p) PROVE WorkIsServed'
  BY <1>27 DEF HelloBusy, Moves
<1>28. ASSUME NEW p \in Daemons, NEW c \in Clients, HelloChanged(c, p) PROVE WorkIsServed'
  BY <1>28 DEF HelloChanged
<1>29. ASSUME NEW p \in Daemons, NEW c \in Clients, StopAccepted(c, p) PROVE WorkIsServed'
  BY <1>29 DEF StopAccepted, Moves
<1>30. ASSUME NEW p \in Daemons, NEW c \in Clients, ReplacementSeen(c, p) PROVE WorkIsServed'
  BY <1>30 DEF ReplacementSeen, Moves
<1>31. ASSUME NEW p \in Daemons, NEW c \in Clients, Spawn(c, p) PROVE WorkIsServed'
  BY <1>31 DEF Spawn
<1>32. ASSUME NEW p \in Daemons, NEW c \in Clients, Send(c, p) PROVE WorkIsServed'
  BY <1>32 DEF Send
<1>33. CASE UNCHANGED vars
  BY <1>33 DEF vars
<1>. QED
  BY <1>1, <1>2, <1>3, <1>4, <1>5, <1>6, <1>7, <1>8, <1>9, <1>10, <1>11, <1>12,
     <1>13, <1>14, <1>15, <1>16, <1>17, <1>18, <1>19, <1>20, <1>21, <1>22,
     <1>23, <1>24, <1>25, <1>26, <1>27, <1>28, <1>29, <1>30, <1>31, <1>32, <1>33
     DEF Next, DaemonStep, Intervenes, Serves, ClientStep

LEMMA WorkAlways == Spec => [](TypeOK /\ WorkIsServed)
<1>1. Init => WorkIsServed
  BY DEF Init, WorkIsServed
<1>2. Init => TypeOK
  BY DEF Init, Earlier, TypeOK, Starting, Ending, Gone, ClientPlaces
<1>. QED
  BY <1>1, <1>2, TypeIsInductive, WorkInductive, PTL DEF Spec

\* A starting daemon marks the unfinished turns of the store as lost; none of
\* them is then at work in a live daemon (LocalAgentDaemon.start, close).
THEOREM ReconcilesDeadTurnsOnly == ASSUME NobodyDies PROVE Spec => LiveTurnsAreNotLost
<1>1. ASSUME OwnersHoldLock, WorkIsServed, [Next]_vars
      PROVE  [\A p \in Daemons : at[p] = "owner" /\ at'[p] = "reconciled"
                => \A q \in Daemons : Alive(q) => turns[q] = {} /\ requests[q] = {}]_vars
  <2>. SUFFICES ASSUME NEW p \in Daemons, at[p] = "owner", NEW q \in Daemons,
                       turns[q] \union requests[q] # {}
                PROVE  FALSE
    OBVIOUS
  <2>. QED
    BY <1>1 DEF OwnersHoldLock, WorkIsServed, Owning, Serving
<1>. QED
  BY <1>1, OwnersAlways, WorkAlways, PTL DEF Spec, LiveTurnsAreNotLost

LEMMA LeavingInductive ==
  TypeOK /\ ReplacedAreLeaving /\ [Next]_vars => ReplacedAreLeaving'
<1>. SUFFICES ASSUME TypeOK, ReplacedAreLeaving, [Next]_vars PROVE ReplacedAreLeaving'
  OBVIOUS
<1>. USE DEF TypeOK, ReplacedAreLeaving, Ending, Answers, IdleEnough, Goes, files, work, daemon
<1>1. ASSUME NEW p \in Daemons, Publish(p) PROVE ReplacedAreLeaving'
  BY <1>1 DEF Publish
<1>2. ASSUME NEW p \in Daemons, Occupied(p) PROVE ReplacedAreLeaving'
  BY <1>2 DEF Occupied
<1>3. ASSUME NEW p \in Daemons, AlreadyRunning(p) PROVE ReplacedAreLeaving'
  BY <1>3 DEF AlreadyRunning
<1>4. ASSUME NEW p \in Daemons, FindsStale(p) PROVE ReplacedAreLeaving'
  BY <1>4 DEF FindsStale
<1>5. ASSUME NEW p \in Daemons, RemoveStale(p) PROVE ReplacedAreLeaving'
  BY <1>5 DEF RemoveStale
<1>6. ASSUME NEW p \in Daemons, Reconcile(p) PROVE ReplacedAreLeaving'
  BY <1>6 DEF Reconcile
<1>7. ASSUME NEW p \in Daemons, Listen(p) PROVE ReplacedAreLeaving'
  BY <1>7 DEF Listen
<1>8. ASSUME NEW p \in Daemons, CleansUp(p) PROVE ReplacedAreLeaving'
  BY <1>8 DEF CleansUp
<1>9. ASSUME NEW p \in Daemons, Close(p) PROVE ReplacedAreLeaving'
  BY <1>9 DEF Close, Closes, CutOff
<1>10. ASSUME NEW p \in Daemons, RemoveFiles(p) PROVE ReplacedAreLeaving'
  BY <1>10 DEF RemoveFiles
<1>11. ASSUME NEW p \in Daemons, Release(p) PROVE ReplacedAreLeaving'
  BY <1>11 DEF Release, Ends
<1>12. ASSUME NEW p \in Daemons, StartFails(p) PROVE ReplacedAreLeaving'
  BY <1>12 DEF StartFails
<1>13. ASSUME NEW p \in Daemons, Stop(p) PROVE ReplacedAreLeaving'
  BY <1>13 DEF Stop
<1>14. ASSUME NEW p \in Daemons, IdleShutdown(p) PROVE ReplacedAreLeaving'
  BY <1>14 DEF IdleShutdown, Closes, CutOff
<1>15. ASSUME NEW p \in Daemons, Die(p) PROVE ReplacedAreLeaving'
  BY <1>15 DEF Die, Ends, CutOff
<1>16. ASSUME NEW p \in Daemons, NEW c \in Clients, BeginsTurn(p, c) PROVE ReplacedAreLeaving'
  BY <1>16 DEF BeginsTurn, AnswersClient
<1>17. ASSUME NEW p \in Daemons, NEW c \in Clients, RequestFails(p, c) PROVE ReplacedAreLeaving'
  BY <1>17 DEF RequestFails, AnswersClient
<1>18. ASSUME NEW p \in Daemons, NEW c \in Clients, TurnEnds(p, c) PROVE ReplacedAreLeaving'
  BY <1>18 DEF TurnEnds
<1>19. ASSUME NEW c \in Clients, Ask(c) PROVE ReplacedAreLeaving'
  BY <1>19 DEF Ask, Moves
<1>20. ASSUME NEW c \in Clients, HelloUnavailable(c) PROVE ReplacedAreLeaving'
  BY <1>20 DEF HelloUnavailable, Moves
<1>21. ASSUME NEW c \in Clients, StopRefused(c) PROVE ReplacedAreLeaving'
  BY <1>21 DEF StopRefused, GivesUp, Moves
<1>22. ASSUME NEW c \in Clients, StopSeen(c) PROVE ReplacedAreLeaving'
  BY <1>22 DEF StopSeen, GivesUp, Moves
<1>23. ASSUME NEW c \in Clients, SendRefused(c) PROVE ReplacedAreLeaving'
  BY <1>23 DEF SendRefused, Moves
<1>24. ASSUME NEW c \in Clients, OutOfTime(c) PROVE ReplacedAreLeaving'
  BY <1>24 DEF OutOfTime, Moves
<1>25. ASSUME NEW c \in Clients, TimesOut(c) PROVE ReplacedAreLeaving'
  BY <1>25 DEF TimesOut, Moves
<1>26. ASSUME NEW p \in Daemons, NEW c \in Clients, HelloReady(c, p) PROVE ReplacedAreLeaving'
  BY <1>26 DEF HelloReady, Moves
<1>27. ASSUME NEW p \in Daemons, NEW c \in Clients, HelloBusy(c, p) PROVE ReplacedAreLeaving'
  BY <1>27 DEF HelloBusy, Moves
<1>28. ASSUME NEW p \in Daemons, NEW c \in Clients, HelloChanged(c, p) PROVE ReplacedAreLeaving'
  BY <1>28 DEF HelloChanged
<1>29. ASSUME NEW p \in Daemons, NEW c \in Clients, StopAccepted(c, p) PROVE ReplacedAreLeaving'
  BY <1>29 DEF StopAccepted, Moves
<1>30. ASSUME NEW p \in Daemons, NEW c \in Clients, ReplacementSeen(c, p) PROVE ReplacedAreLeaving'
  BY <1>30 DEF ReplacementSeen, Moves
<1>31. ASSUME NEW p \in Daemons, NEW c \in Clients, Spawn(c, p) PROVE ReplacedAreLeaving'
  BY <1>31 DEF Spawn
<1>32. ASSUME NEW p \in Daemons, NEW c \in Clients, Send(c, p) PROVE ReplacedAreLeaving'
  BY <1>32 DEF Send
<1>33. CASE UNCHANGED vars
  BY <1>33 DEF vars
<1>. QED
  BY <1>1, <1>2, <1>3, <1>4, <1>5, <1>6, <1>7, <1>8, <1>9, <1>10, <1>11, <1>12,
     <1>13, <1>14, <1>15, <1>16, <1>17, <1>18, <1>19, <1>20, <1>21, <1>22,
     <1>23, <1>24, <1>25, <1>26, <1>27, <1>28, <1>29, <1>30, <1>31, <1>32, <1>33
     DEF Next, DaemonStep, Intervenes, Serves, ClientStep

\* A daemon that a client has told to stop for replacement has no work then
\* and takes none on until it is gone (daemon.stop with ifIdle), whatever
\* fails or dies.
THEOREM ReplacedHaveNoWork == Spec => []ReplacementSparesWork
<1>1. Init => TypeOK /\ ReplacedAreLeaving
  BY DEF Init, Earlier, TypeOK, ReplacedAreLeaving, Starting, Ending, Gone, ClientPlaces
<1>2. ReplacedAreLeaving => ReplacementSparesWork
  BY DEF ReplacedAreLeaving, ReplacementSparesWork
<1>. QED
  BY <1>1, <1>2, TypeIsInductive, LeavingInductive, PTL DEF Spec

LEMMA ListensInductive ==
  ASSUME NobodyDies, "failedStart" \notin Faults
  PROVE  TypeOK /\ OwnersHoldLock /\ ListensAtEndpoint /\ [Next]_vars => ListensAtEndpoint'
<1>. SUFFICES ASSUME TypeOK, OwnersHoldLock, ListensAtEndpoint, [Next]_vars
              PROVE ListensAtEndpoint'
  OBVIOUS
<1>. USE "failedStart" \notin Faults
     DEF TypeOK, OwnersHoldLock, Owning, ListensAtEndpoint, Goes, files, work, daemon
<1>1. ASSUME NEW p \in Daemons, Publish(p) PROVE ListensAtEndpoint'
  BY <1>1 DEF Publish
<1>2. ASSUME NEW p \in Daemons, Occupied(p) PROVE ListensAtEndpoint'
  BY <1>2 DEF Occupied
<1>3. ASSUME NEW p \in Daemons, AlreadyRunning(p) PROVE ListensAtEndpoint'
  BY <1>3 DEF AlreadyRunning
<1>4. ASSUME NEW p \in Daemons, FindsStale(p) PROVE ListensAtEndpoint'
  BY <1>4 DEF FindsStale
<1>5. ASSUME NEW p \in Daemons, RemoveStale(p) PROVE ListensAtEndpoint'
  BY <1>5 DEF RemoveStale
<1>6. ASSUME NEW p \in Daemons, Reconcile(p) PROVE ListensAtEndpoint'
  BY <1>6 DEF Reconcile
<1>7. ASSUME NEW p \in Daemons, Listen(p) PROVE ListensAtEndpoint'
  BY <1>7 DEF Listen
<1>8. ASSUME NEW p \in Daemons, CleansUp(p) PROVE ListensAtEndpoint'
  BY <1>8 DEF CleansUp
<1>9. ASSUME NEW p \in Daemons, Close(p) PROVE ListensAtEndpoint'
  BY <1>9 DEF Close, Closes, CutOff
<1>10. ASSUME NEW p \in Daemons, RemoveFiles(p) PROVE ListensAtEndpoint'
  BY <1>10 DEF RemoveFiles
<1>11. ASSUME NEW p \in Daemons, Release(p) PROVE ListensAtEndpoint'
  BY <1>11 DEF Release, Ends
<1>12. ASSUME NEW p \in Daemons, StartFails(p) PROVE ListensAtEndpoint'
  BY <1>12 DEF StartFails
<1>13. ASSUME NEW p \in Daemons, Stop(p) PROVE ListensAtEndpoint'
  BY <1>13 DEF Stop
<1>14. ASSUME NEW p \in Daemons, IdleShutdown(p) PROVE ListensAtEndpoint'
  BY <1>14 DEF IdleShutdown, Closes, CutOff
<1>15. ASSUME NEW p \in Daemons, Die(p) PROVE ListensAtEndpoint'
  BY <1>15 DEF Die, Ends, CutOff
<1>16. ASSUME NEW p \in Daemons, NEW c \in Clients, BeginsTurn(p, c) PROVE ListensAtEndpoint'
  BY <1>16 DEF BeginsTurn, AnswersClient
<1>17. ASSUME NEW p \in Daemons, NEW c \in Clients, RequestFails(p, c) PROVE ListensAtEndpoint'
  BY <1>17 DEF RequestFails, AnswersClient
<1>18. ASSUME NEW p \in Daemons, NEW c \in Clients, TurnEnds(p, c) PROVE ListensAtEndpoint'
  BY <1>18 DEF TurnEnds
<1>19. ASSUME NEW c \in Clients, Ask(c) PROVE ListensAtEndpoint'
  BY <1>19 DEF Ask, Moves
<1>20. ASSUME NEW c \in Clients, HelloUnavailable(c) PROVE ListensAtEndpoint'
  BY <1>20 DEF HelloUnavailable, Moves
<1>21. ASSUME NEW c \in Clients, StopRefused(c) PROVE ListensAtEndpoint'
  BY <1>21 DEF StopRefused, GivesUp, Moves
<1>22. ASSUME NEW c \in Clients, StopSeen(c) PROVE ListensAtEndpoint'
  BY <1>22 DEF StopSeen, GivesUp, Moves
<1>23. ASSUME NEW c \in Clients, SendRefused(c) PROVE ListensAtEndpoint'
  BY <1>23 DEF SendRefused, Moves
<1>24. ASSUME NEW c \in Clients, OutOfTime(c) PROVE ListensAtEndpoint'
  BY <1>24 DEF OutOfTime, Moves
<1>25. ASSUME NEW c \in Clients, TimesOut(c) PROVE ListensAtEndpoint'
  BY <1>25 DEF TimesOut, Moves
<1>26. ASSUME NEW p \in Daemons, NEW c \in Clients, HelloReady(c, p) PROVE ListensAtEndpoint'
  BY <1>26 DEF HelloReady, Moves
<1>27. ASSUME NEW p \in Daemons, NEW c \in Clients, HelloBusy(c, p) PROVE ListensAtEndpoint'
  BY <1>27 DEF HelloBusy, Moves
<1>28. ASSUME NEW p \in Daemons, NEW c \in Clients, HelloChanged(c, p) PROVE ListensAtEndpoint'
  BY <1>28 DEF HelloChanged
<1>29. ASSUME NEW p \in Daemons, NEW c \in Clients, StopAccepted(c, p) PROVE ListensAtEndpoint'
  BY <1>29 DEF StopAccepted, Moves
<1>30. ASSUME NEW p \in Daemons, NEW c \in Clients, ReplacementSeen(c, p) PROVE ListensAtEndpoint'
  BY <1>30 DEF ReplacementSeen, Moves
<1>31. ASSUME NEW p \in Daemons, NEW c \in Clients, Spawn(c, p) PROVE ListensAtEndpoint'
  BY <1>31 DEF Spawn
<1>32. ASSUME NEW p \in Daemons, NEW c \in Clients, Send(c, p) PROVE ListensAtEndpoint'
  BY <1>32 DEF Send
<1>33. CASE UNCHANGED vars
  BY <1>33 DEF vars
<1>. QED
  BY <1>1, <1>2, <1>3, <1>4, <1>5, <1>6, <1>7, <1>8, <1>9, <1>10, <1>11, <1>12,
     <1>13, <1>14, <1>15, <1>16, <1>17, <1>18, <1>19, <1>20, <1>21, <1>22,
     <1>23, <1>24, <1>25, <1>26, <1>27, <1>28, <1>29, <1>30, <1>31, <1>32, <1>33
     DEF Next, DaemonStep, Intervenes, Serves, ClientStep

\* The daemon that accepts requests is at the endpoint, when nobody dies and
\* no start fails halfway.
THEOREM ReadyDaemonIsReached ==
  ASSUME NobodyDies, "failedStart" \notin Faults
  PROVE  Spec => []ReadyIsReachable
<1>1. Init => ListensAtEndpoint
  BY NoneAssumption DEF NobodyDies, Init, Earlier, ListensAtEndpoint
<1>2. ListensAtEndpoint => ReadyIsReachable
  BY DEF ListensAtEndpoint, ReadyIsReachable
<1>. QED
  BY <1>1, <1>2, OwnersAlways, ListensInductive, PTL DEF Spec

-------------------------------------------------------------------------------
(***************************************************************************)
(* The requests on the daemon's connections, for any number of calls and   *)
(* any keys, agents and ends of the daemon's process.                      *)
(***************************************************************************)

\* There is something to ask, and what may be wrong with a request is known.
RequestsAreKnown == Keys # {} /\ Flaws \subseteq W!AllFlaws

WireTurns == [key: Keys, status: {"running", "completed", "failed"}]

\* The end of an agent's newest turn.
LEMMA EndedIsTyped ==
  ASSUME NEW s \in Seq(WireTurns), s # <<>>, NEW o \in {"completed", "failed"}
  PROVE  LET e == [s EXCEPT ![Len(s)].status = o] IN
         /\ e \in Seq(WireTurns) /\ DOMAIN e = DOMAIN s
         /\ \A i \in DOMAIN s : e[i].key = s[i].key /\ (i # Len(s) => e[i] = s[i])
<1>. DEFINE t == [s[Len(s)] EXCEPT !.status = o]
<1>1. Len(s) \in DOMAIN s /\ \A i \in DOMAIN s : s[i] \in WireTurns
  OBVIOUS
<1>2. s[Len(s)] \in WireTurns
  BY <1>1
<1>3. t \in WireTurns /\ t.key = s[Len(s)].key
  BY <1>2 DEF WireTurns
<1>4. [s EXCEPT ![Len(s)].status = o] = [s EXCEPT ![Len(s)] = t]
  OBVIOUS
<1>. HIDE DEF t
<1>5. [s EXCEPT ![Len(s)] = t] \in Seq(WireTurns)
  BY <1>1, <1>3
<1>. QED
  BY <1>1, <1>3, <1>4, <1>5

LEMMA FirstIsKey == ASSUME Keys # {} PROVE W!First \in Keys
BY DEF W!First

\* An answer leaves the types alone, whatever it says.
LEMMA ReplyKeepsDomain ==
  ASSUME W!TypeOK, NEW c \in W!Calls, NEW line, W!Replies(c, line)
  PROVE  /\ DOMAIN down' = W!Calls
         /\ conn' \in [W!Calls -> {"none", "reading", "starting", "waiting", "answered", "gone"}]
         /\ conn'[c] = "answered"
         /\ \A b \in W!Calls \ {c} : conn'[b] = conn[b] /\ down'[b] = down[b]
         /\ down'[c] = IF c \in linked THEN line ELSE down[c]
BY DEF W!TypeOK, W!Replies

LEMMA WireTypeIsInductive ==
  ASSUME RequestsAreKnown, W!TypeOK, \A c \in W!Calls : W!ConnectionIsPlaced(c),
         [W!Next]_W!vars
  PROVE  W!TypeOK'
<1>. DEFINE Asked == [at: {"open", "settled"}, method: W!Methods, key: Keys, flaw: W!AllFlaws,
                     timed: BOOLEAN]
<1>. DEFINE Conns == {"none", "reading", "starting", "waiting", "answered", "gone"}
<1>1. ASSUME NEW c \in W!Calls, W!Reads(c)
      PROVE  W!TypeOK'
  <2>1. conn' \in [W!Calls -> Conns] /\ DOMAIN down' = W!Calls
    BY <1>1, ReplyKeepsDomain
       DEF W!Reads, W!TooLarge, W!Drops, W!ReadTimesOut, W!Undecodable, W!Stopping, W!TypeOK, W!wire
  <2>. QED
    BY <1>1, <2>1
       DEF W!Reads, W!TooLarge, W!Drops, W!ReadTimesOut, W!Undecodable, W!Stopping, W!TypeOK,
           W!wire, W!rows
<1>2. ASSUME NEW c \in W!Calls, W!BeginAsked(c) \/ W!Replays(c) \/ W!Conflicts(c)
      PROVE  W!TypeOK'
  <2>1. conn' \in [W!Calls -> Conns] /\ DOMAIN down' = W!Calls
    BY <1>2, ReplyKeepsDomain DEF W!BeginAsked, W!Replays, W!Conflicts, W!TypeOK
  <2>. QED
    BY <1>2, <2>1 DEF W!BeginAsked, W!Replays, W!Conflicts, W!TypeOK, W!Started, W!rows
<1>3. ASSUME NEW c \in W!Calls, W!Starts(c), call[c].key \in Keys
      PROVE  W!Begins(c) \/ W!BeginRefused(c) => W!TypeOK'
  <2>1. ASSUME W!Begins(c)
        PROVE  W!TypeOK'
    <3>. DEFINE a == AgentOf[call[c].key]
    <3>. DEFINE e == [key |-> call[c].key, status |-> "running"]
    <3>1. a \in W!Agents /\ turnRows[a] \in Seq(WireTurns) /\ e \in WireTurns
      BY <1>3 DEF W!TypeOK, W!Agents, WireTurns
    <3>2. turnRows' = [turnRows EXCEPT ![a] = Append(turnRows[a], e)]
      BY <2>1 DEF W!Begins, W!KeyOf
    <3>. HIDE DEF e
    <3>3. Append(turnRows[a], e) \in Seq(WireTurns)
      BY <3>1
    <3>4. turnRows' \in [W!Agents -> Seq(WireTurns)]
      BY <3>1, <3>2, <3>3 DEF W!TypeOK, WireTurns
    <3>. QED
      BY <1>3, <2>1, <3>4, ReplyKeepsDomain
         DEF W!Begins, W!KeyOf, W!TypeOK, W!Started, WireTurns
  <2>2. ASSUME W!BeginRefused(c)
        PROVE  W!TypeOK'
    BY <1>3, <2>2, ReplyKeepsDomain DEF W!BeginRefused, W!KeyOf, W!TypeOK, W!Started
  <2>. QED
    BY <2>1, <2>2
<1>4. ASSUME NEW c \in W!Calls, W!WaitAsked(c)
      PROVE  W!TypeOK'
  <2>1. conn' \in [W!Calls -> Conns] /\ DOMAIN down' = W!Calls
    BY <1>4, ReplyKeepsDomain DEF W!WaitAsked, W!TypeOK
  <2>2. W!Latest \in [W!Agents -> Nat]
    BY DEF W!Latest, W!TypeOK
  <2>. QED
    BY <1>4, <2>1, <2>2 DEF W!WaitAsked, W!TypeOK, W!rows
<1>5. ASSUME NEW c \in W!Calls, W!WaitAnswers(c) \/ W!WaitAborted(c) \/ W!ReplaceRefused(c)
      PROVE  W!TypeOK'
  <2>1. conn' \in [W!Calls -> Conns] /\ DOMAIN down' = W!Calls
    BY <1>5, ReplyKeepsDomain
       DEF W!WaitAnswers, W!WaitAborted, W!ReplaceRefused, W!TypeOK, W!wire
  <2>. QED
    BY <1>5, <2>1 DEF W!WaitAnswers, W!WaitAborted, W!ReplaceRefused, W!TypeOK, W!rows, W!wire
<1>6. ASSUME NEW c \in W!Calls, W!StopAsked(c) \/ W!ReplaceAsked(c)
      PROVE  W!TypeOK'
  <2>1. conn' \in [W!Calls -> Conns] /\ DOMAIN down' = W!Calls
    BY <1>6, ReplyKeepsDomain DEF W!StopAsked, W!ReplaceAsked
  <2>. QED
    BY <1>6, <2>1 DEF W!StopAsked, W!ReplaceAsked, W!TypeOK
<1>7. ASSUME NEW c \in W!Calls, W!Open(c)
      PROVE  W!TypeOK'
  <2>1. PICK r \in Asked : call' = [call EXCEPT ![c] = r]
    BY <1>7 DEF W!Open, W!Asks, RequestsAreKnown
  <2>2. call' \in [W!Calls -> {W!Idle} \union Asked]
    BY <2>1 DEF W!TypeOK
  <2>3. conn' \in [W!Calls -> Conns]
    BY <1>7 DEF W!Open, W!TypeOK
  <2>. QED
    BY <1>7, <2>2, <2>3 DEF W!Open, W!TypeOK, W!rows
<1>8. ASSUME NEW c \in W!Calls, W!Receives(c) \/ W!LosesConnection(c) \/ W!TimesOut(c)
      PROVE  W!TypeOK'
  <2>1. call[c] \in Asked
    BY <1>8 DEF W!Receives, W!LosesConnection, W!TimesOut, W!TypeOK, W!Idle
  <2>2. [call[c] EXCEPT !.at = "settled"] \in Asked
    BY <2>1
  <2>3. call' = [call EXCEPT ![c] = [call[c] EXCEPT !.at = "settled"]] /\ DOMAIN answer' = W!Calls
    BY <1>8 DEF W!Receives, W!LosesConnection, W!TimesOut, W!Settles, W!TypeOK
  <2>4. call' \in [W!Calls -> {W!Idle} \union Asked]
    BY <2>2, <2>3 DEF W!TypeOK
  <2>. QED
    BY <1>8, <2>3, <2>4
       DEF W!Receives, W!LosesConnection, W!TimesOut, W!TypeOK, W!rows, W!wire
<1>9. ASSUME NEW a \in W!Agents, W!TurnEnds(a)
      PROVE  W!TypeOK'
  <2>1. PICK o \in {"completed", "failed"} :
            turnRows' = [turnRows EXCEPT ![a] = [turnRows[a] EXCEPT ![Len(turnRows[a])].status = o]]
    BY <1>9 DEF W!TurnEnds
  <2>2. turnRows[a] \in Seq(WireTurns) /\ turnRows[a] # <<>>
    BY <1>9 DEF W!TurnEnds, W!Running, W!TypeOK, WireTurns
  <2>3. turnRows' \in [W!Agents -> Seq(WireTurns)]
    BY <2>1, <2>2, EndedIsTyped DEF W!TypeOK, WireTurns
  <2>. QED
    BY <1>9, <2>3 DEF W!TurnEnds, W!TypeOK, W!wire, WireTurns
<1>10. ASSUME W!Close \/ W!Exit(TRUE) \/ W!Exit(FALSE)
       PROVE  W!TypeOK'
  <2>1. conn' \in [W!Calls -> Conns] /\ DOMAIN down' = W!Calls
    BY <1>10 DEF W!Close, W!Exit, W!CutOff, W!TypeOK
  <2>. QED
    BY <1>10, <2>1 DEF W!Close, W!Exit, W!CutOff, W!TypeOK, W!rows
<1>11. ASSUME W!Restart
       PROVE  W!TypeOK'
  <2>1. ASSUME NEW a \in W!Agents
        PROVE  (IF W!Running(a) THEN [turnRows[a] EXCEPT ![Len(turnRows[a])].status = "failed"]
                ELSE turnRows[a]) \in Seq(WireTurns)
    BY EndedIsTyped DEF W!Running, W!TypeOK, WireTurns
  <2>2. turnRows' \in [W!Agents -> Seq(WireTurns)]
    BY <1>11, <2>1 DEF W!Restart
  <2>. QED
    BY <1>11, <2>2 DEF W!Restart, W!TypeOK, W!wire, WireTurns
<1>12. ASSUME UNCHANGED W!vars
       PROVE  W!TypeOK'
  BY <1>12 DEF W!TypeOK, W!vars, W!wire, W!rows
<1>13. ASSUME NEW c \in W!Calls, W!Begins(c) \/ W!BeginRefused(c)
       PROVE  call[c].key \in Keys
  BY <1>13
     DEF W!Begins, W!BeginRefused, W!Starts, W!ConnectionIsPlaced, W!TypeOK, W!Idle
<1>. QED
  BY <1>1, <1>2, <1>3, <1>4, <1>5, <1>6, <1>7, <1>8, <1>9, <1>10, <1>11, <1>12, <1>13
     DEF W!Next, W!Serves, W!Client, W!Begins, W!BeginRefused

\* Keys stay taken, calls stay what they did, and a turn that has ended stays as it ended.
RowsGoOn ==
  /\ keys \subseteq keys' /\ did \subseteq did'
  /\ \A a \in W!Agents : \A i \in DOMAIN turnRows[a] :
        /\ i \in DOMAIN turnRows'[a]
        /\ turnRows'[a][i].key = turnRows[a][i].key
        /\ turnRows[a][i].status # "running" => turnRows'[a][i] = turnRows[a][i]

\* Turns that only ended stay with their keys.
LEMMA EndingKeepsRows ==
  ASSUME W!RowInv, keys' = keys, did' = did,
         \A a \in W!Agents :
            /\ DOMAIN turnRows'[a] = DOMAIN turnRows[a]
            /\ \A i \in DOMAIN turnRows[a] :
                  /\ turnRows'[a][i].key = turnRows[a][i].key
                  /\ turnRows[a][i].status # "running" => turnRows'[a][i] = turnRows[a][i]
  PROVE  RowsGoOn /\ W!RowInv'
BY DEF RowsGoOn, W!RowInv, W!BegunKeysAreTaken, W!OncePerKey

\* A turn that is begun is of a key that nobody took.
LEMMA BeginningKeepsRows ==
  ASSUME W!TypeOK, W!RowInv, NEW a \in W!Agents, NEW k \in Keys, k \notin keys,
         keys' = keys \union {k}, did \subseteq did',
         turnRows' = [turnRows EXCEPT ![a] = Append(@, [key |-> k, status |-> "running"])]
  PROVE  RowsGoOn /\ W!RowInv'
<1>. DEFINE e == [key |-> k, status |-> "running"]
<1>1. e \in WireTurns /\ e.key = k /\ turnRows[a] \in Seq(WireTurns)
  BY DEF WireTurns, W!TypeOK
<1>2. turnRows' = [turnRows EXCEPT ![a] = Append(turnRows[a], e)]
  OBVIOUS
<1>. HIDE DEF e
<1>. DEFINE s == Append(turnRows[a], e)
<1>3. /\ DOMAIN s = (DOMAIN turnRows[a]) \union {Len(turnRows[a]) + 1}
      /\ Len(turnRows[a]) + 1 \notin DOMAIN turnRows[a]
      /\ \A i \in DOMAIN turnRows[a] : s[i] = turnRows[a][i]
      /\ s[Len(turnRows[a]) + 1] = e
  BY <1>1
<1>4. turnRows'[a] = s /\ \A b \in W!Agents \ {a} : turnRows'[b] = turnRows[b]
  BY <1>2 DEF W!TypeOK
<1>. HIDE DEF s
<1>5. \A b \in W!Agents : \A i \in DOMAIN turnRows[b] :
         i \in DOMAIN turnRows'[b] /\ turnRows'[b][i] = turnRows[b][i]
  BY <1>3, <1>4
<1>6. W!BegunKeysAreTaken'
  BY <1>1, <1>3, <1>4 DEF W!RowInv, W!BegunKeysAreTaken
<1>7. W!OncePerKey'
  <2>1. \A i \in DOMAIN turnRows[a] : turnRows[a][i].key # k
    BY DEF W!RowInv, W!BegunKeysAreTaken
  <2>2. \A i, j \in DOMAIN s : s[i].key = s[j].key => i = j
    BY <1>1, <1>3, <2>1 DEF W!RowInv, W!OncePerKey
  <2>. QED
    BY <1>4, <2>2 DEF W!RowInv, W!OncePerKey
<1>. QED
  BY <1>5, <1>6, <1>7 DEF RowsGoOn, W!RowInv

LEMMA RowsAreKept ==
  ASSUME RequestsAreKnown, W!TypeOK, \A c \in W!Calls : W!ConnectionIsPlaced(c), W!RowInv,
         [W!Next]_W!vars
  PROVE  RowsGoOn /\ W!RowInv'
<1>a. ASSUME turnRows' = turnRows, keys \subseteq keys', did \subseteq did'
      PROVE  RowsGoOn /\ W!RowInv'
  BY <1>a DEF RowsGoOn, W!RowInv, W!BegunKeysAreTaken, W!OncePerKey
<1>b. ASSUME NEW c \in W!Calls, W!Begins(c)
      PROVE  call[c].key \in Keys /\ AgentOf[call[c].key] \in W!Agents
  BY <1>b DEF W!Begins, W!Starts, W!ConnectionIsPlaced, W!TypeOK, W!Idle, W!Agents
<1>1. ASSUME NEW c \in W!Calls, W!Reads(c)
      PROVE  RowsGoOn /\ W!RowInv'
  BY <1>1, <1>a
     DEF W!Reads, W!TooLarge, W!Drops, W!ReadTimesOut, W!Undecodable, W!Stopping, W!rows
<1>2. ASSUME NEW c \in W!Calls, W!Begins(c)
      PROVE  RowsGoOn /\ W!RowInv'
  BY <1>2, <1>b, BeginningKeepsRows DEF W!Begins, W!Unreserved, W!KeyOf
<1>3. ASSUME NEW c \in W!Calls,
             \/ W!BeginAsked(c) \/ W!Replays(c) \/ W!Conflicts(c) \/ W!BeginRefused(c)
             \/ W!WaitAsked(c)
      PROVE  RowsGoOn /\ W!RowInv'
  BY <1>3, <1>a
     DEF W!BeginAsked, W!Replays, W!Conflicts, W!BeginRefused, W!WaitAsked, W!rows
<1>4. ASSUME NEW c \in W!Calls,
             \/ W!WaitAnswers(c) \/ W!WaitAborted(c) \/ W!StopAsked(c) \/ W!ReplaceAsked(c)
             \/ W!ReplaceRefused(c)
      PROVE  RowsGoOn /\ W!RowInv'
  BY <1>4, <1>a
     DEF W!WaitAnswers, W!WaitAborted, W!StopAsked, W!ReplaceAsked, W!ReplaceRefused, W!rows
<1>5. ASSUME NEW c \in W!Calls, W!Client(c)
      PROVE  RowsGoOn /\ W!RowInv'
  BY <1>5, <1>a DEF W!Client, W!Open, W!Receives, W!LosesConnection, W!TimesOut, W!rows
<1>6. ASSUME NEW a \in W!Agents, W!TurnEnds(a)
      PROVE  RowsGoOn /\ W!RowInv'
  <2>1. PICK o \in {"completed", "failed"} :
            turnRows' = [turnRows EXCEPT ![a] = [turnRows[a] EXCEPT ![Len(turnRows[a])].status = o]]
    BY <1>6 DEF W!TurnEnds
  <2>. DEFINE e == [turnRows[a] EXCEPT ![Len(turnRows[a])].status = o]
  <2>2. turnRows[a] \in Seq(WireTurns) /\ turnRows[a] # <<>>
    BY <1>6 DEF W!TurnEnds, W!Running, W!TypeOK, WireTurns
  <2>3. DOMAIN e = DOMAIN turnRows[a]
        /\ \A i \in DOMAIN turnRows[a] :
              e[i].key = turnRows[a][i].key /\ (i # Len(turnRows[a]) => e[i] = turnRows[a][i])
    BY <2>2, EndedIsTyped
  <2>4. turnRows'[a] = e /\ \A b \in W!Agents \ {a} : turnRows'[b] = turnRows[b]
    BY <2>1 DEF W!TypeOK
  <2>5. turnRows[a][Len(turnRows[a])].status = "running"
    BY <1>6 DEF W!TurnEnds, W!Running, W!Status
  <2>. HIDE DEF e
  <2>. QED
    BY <1>6, <2>3, <2>4, <2>5, EndingKeepsRows DEF W!TurnEnds
<1>7. ASSUME W!Close \/ W!Exit(TRUE) \/ W!Exit(FALSE)
      PROVE  RowsGoOn /\ W!RowInv'
  BY <1>7, <1>a DEF W!Close, W!Exit, W!rows
<1>8. ASSUME W!Restart
      PROVE  RowsGoOn /\ W!RowInv'
  <2>1. ASSUME NEW a \in W!Agents
        PROVE  /\ DOMAIN turnRows'[a] = DOMAIN turnRows[a]
               /\ \A i \in DOMAIN turnRows[a] :
                     /\ turnRows'[a][i].key = turnRows[a][i].key
                     /\ turnRows[a][i].status # "running" => turnRows'[a][i] = turnRows[a][i]
    <3>1. turnRows[a] \in Seq(WireTurns)
      BY DEF W!TypeOK, WireTurns
    <3>2. turnRows'[a] = IF W!Running(a)
                         THEN [turnRows[a] EXCEPT ![Len(turnRows[a])].status = "failed"]
                         ELSE turnRows[a]
      BY <1>8 DEF W!Restart
    <3>. QED
      BY <3>1, <3>2, EndedIsTyped DEF W!Running, W!Status
  <2>. QED
    BY <1>8, <2>1, EndingKeepsRows DEF W!Restart
<1>9. ASSUME UNCHANGED W!vars
      PROVE  RowsGoOn /\ W!RowInv'
  BY <1>9, <1>a DEF W!vars, W!rows
<1>. QED
  BY <1>1, <1>2, <1>3, <1>4, <1>5, <1>6, <1>7, <1>8, <1>9 DEF W!Next, W!Serves

LEMMA CapturesAreKept ==
  ASSUME W!TypeOK, W!CapturesAreTurns, RowsGoOn, [W!Next]_W!vars
  PROVE  W!CapturesAreTurns'
<1>1. ASSUME captured' = captured
      PROVE  W!CapturesAreTurns'
  BY <1>1 DEF W!CapturesAreTurns, RowsGoOn
<1>2. ASSUME NEW c \in W!Calls, W!WaitAsked(c)
      PROVE  W!CapturesAreTurns'
  <2>1. turnRows' = turnRows
    BY <1>2 DEF W!WaitAsked, W!rows
  <2>2. \A a \in W!Agents : W!Latest[a] > 0 => W!Latest[a] \in DOMAIN turnRows[a]
    BY DEF W!Latest, W!TypeOK
  <2>3. \A b \in W!Calls : captured'[b] = IF b = c THEN W!Latest ELSE captured[b]
    BY <1>2 DEF W!WaitAsked, W!TypeOK
  <2>. QED
    BY <2>1, <2>2, <2>3 DEF W!CapturesAreTurns
<1>. QED
  BY <1>1, <1>2
     DEF W!Next, W!Reads, W!TooLarge, W!Drops, W!ReadTimesOut, W!Undecodable, W!Stopping, W!Serves,
         W!BeginAsked, W!Replays, W!Conflicts, W!Begins, W!BeginRefused, W!Started, W!WaitAnswers,
         W!WaitAborted, W!StopAsked, W!ReplaceAsked, W!ReplaceRefused, W!Client, W!Open,
         W!Receives, W!LosesConnection, W!TimesOut, W!TurnEnds, W!Close, W!Exit, W!Restart, W!vars

\* What a call was told holds on, whatever comes after it.
LEMMA TruthIsKept ==
  ASSUME W!TypeOK, W!CapturesAreTurns, RowsGoOn, NEW b \in W!Calls, captured'[b] = captured[b],
         \/ call'[b] = call[b]
         \/ /\ call'[b].method = call[b].method /\ call'[b].key = call[b].key
            /\ call'[b].timed = call[b].timed
  PROVE  \A value : W!Holds(b, value) => W!Holds(b, value)'
<1>1. SUFFICES ASSUME NEW value, W!Holds(b, value) PROVE W!Holds(b, value)'
  OBVIOUS
<1>2. /\ call'[b].method = call[b].method
      /\ call'[b].key = call[b].key
      /\ call'[b].timed = call[b].timed
  OBVIOUS
<1>3. ASSUME NEW a \in DOMAIN value, call[b].method = "wait", value[a] # "running"
      PROVE  value[a] = turnRows'[a][captured[b][a]].status
  <2>1. a \in W!Agents /\ captured[b][a] > 0 /\ value[a] = turnRows[a][captured[b][a]].status
    BY <1>1, <1>3 DEF W!Holds, W!Status
  <2>. QED
    BY <1>3, <2>1 DEF RowsGoOn, W!CapturesAreTurns
<1>. QED
  BY <1>1, <1>2, <1>3 DEF W!Holds, W!KeyOf, W!Status, RowsGoOn

\* A call that a step is not about stays as it was.
LEMMA OtherCallsStay ==
  ASSUME W!TypeOK, W!CapturesAreTurns, RowsGoOn, NEW b \in W!Calls, W!CallInv(b),
         call'[b] = call[b], answer'[b] = answer[b], down'[b] = down[b],
         b \in linked' <=> b \in linked, conn'[b] = conn[b], captured'[b] = captured[b],
         b \in did' <=> b \in did
  PROVE  W!CallInv(b)'
<1>1. \A value : W!Holds(b, value) => W!Holds(b, value)'
  BY TruthIsKept
<1>. QED
  BY <1>1 DEF W!CallInv, W!ConnectionIsPlaced, W!UndoneIsSilent, W!LineIsTrue, W!AnswerIsTrue,
              W!Done

\* An answer that is so when it is written.
LEMMA RepliesAreTrue ==
  ASSUME W!TypeOK, NEW c \in W!Calls, W!CallInv(c), NEW line, W!Replies(c, line),
         conn[c] \in {"reading", "starting", "waiting"}, call' = call, answer' = answer,
         linked' \subseteq linked,
         IF line.kind = "ok" THEN line.id = c /\ W!Holds(c, line.value)' ELSE c \notin did'
  PROVE  W!CallInv(c)'
<1>1. conn'[c] = "answered" /\ down'[c] \in {line, Unsaid}
  BY ReplyKeepsDomain DEF W!CallInv, W!UndoneIsSilent, W!Done
<1>2. answer[c] # Unsaid => answer[c].kind \in {"timeout", "unavailable"}
  BY DEF W!CallInv, W!AnswerIsTrue, W!Done
<1>3. W!ConnectionIsPlaced(c)' /\ W!UndoneIsSilent(c)'
  BY <1>1 DEF W!CallInv, W!ConnectionIsPlaced, W!UndoneIsSilent, W!Done
<1>4. W!LineIsTrue(c)'
  BY <1>1 DEF W!LineIsTrue
<1>5. W!AnswerIsTrue(c)'
  BY <1>2 DEF W!CallInv, W!AnswerIsTrue
<1>. QED
  BY <1>3, <1>4, <1>5 DEF W!CallInv

\* A connection that is given up without a word.
LEMMA SilenceIsTrue ==
  ASSUME W!TypeOK, W!CapturesAreTurns, RowsGoOn, NEW c \in W!Calls, W!CallInv(c),
         call'[c] = call[c], answer'[c] = answer[c], captured'[c] = captured[c],
         did' = did, linked' \subseteq linked, down'[c] \in {down[c], Unsaid},
         conn[c] # "none", conn'[c] \in {"gone", "answered"}
  PROVE  W!CallInv(c)'
<1>1. \A value : W!Holds(c, value) => W!Holds(c, value)'
  BY TruthIsKept
<1>. QED
  BY <1>1 DEF W!CallInv, W!ConnectionIsPlaced, W!UndoneIsSilent, W!LineIsTrue, W!AnswerIsTrue,
              W!Done

\* The other calls, when the daemon answers one.
LEMMA RepliesAreToOne ==
  ASSUME W!TypeOK, W!CapturesAreTurns, RowsGoOn, NEW c \in W!Calls, NEW line, W!Replies(c, line),
         \A b \in W!Calls : W!CallInv(b), call' = call, answer' = answer,
         linked' = linked \/ linked' = linked \ {c}, did' = did \/ did' = did \union {c},
         \A b \in W!Calls \ {c} : captured'[b] = captured[b]
  PROVE  \A b \in W!Calls \ {c} : W!CallInv(b)'
<1>1. \A b \in W!Calls \ {c} : conn'[b] = conn[b] /\ down'[b] = down[b]
  BY ReplyKeepsDomain
<1>. QED
  BY <1>1, OtherCallsStay

\* What is not read as a request, or not one that is served.
LEMMA ReadsAreTrue ==
  ASSUME RequestsAreKnown, W!TypeOK, W!WireInv, RowsGoOn, NEW c \in W!Calls, W!Reads(c)
  PROVE  \A b \in W!Calls : W!CallInv(b)'
<1>0. /\ \A b \in W!Calls : W!CallInv(b)
      /\ W!CapturesAreTurns
      /\ conn[c] = "reading" /\ c \notin did
      /\ call[c].flaw \in W!AllFlaws
  <2>1. conn[c] = "reading"
    BY DEF W!Reads, W!TooLarge, W!Drops, W!ReadTimesOut, W!Undecodable, W!Stopping, W!HasLine,
           W!Unread
  <2>2. call[c] # W!Idle
    BY <2>1 DEF W!WireInv, W!CallInv, W!ConnectionIsPlaced, W!Idle
  <2>. QED
    BY <2>1, <2>2 DEF W!WireInv, W!CallInv, W!UndoneIsSilent, W!Done, W!TypeOK
<1>a. ASSUME NEW line, W!Replies(c, line), line.kind # "ok", call' = call, answer' = answer,
             did' = did, captured' = captured, linked' = linked \/ linked' = linked \ {c}
      PROVE  \A b \in W!Calls : W!CallInv(b)'
  <2>1. W!CallInv(c)'
    BY <1>0, <1>a, RepliesAreTrue
  <2>2. \A b \in W!Calls \ {c} : W!CallInv(b)'
    BY <1>0, <1>a, RepliesAreToOne
  <2>. QED
    BY <2>1, <2>2
<1>b. ASSUME conn' = [conn EXCEPT ![c] = conn'[c]], conn'[c] \in {"gone", "answered"},
             UNCHANGED <<call, answer, down, captured, did>>,
             linked' = linked \/ linked' = linked \ {c}
      PROVE  \A b \in W!Calls : W!CallInv(b)'
  <2>1. W!CallInv(c)'
    BY <1>0, <1>b, SilenceIsTrue
  <2>2. \A b \in W!Calls \ {c} : conn'[b] = conn[b] /\ (b \in linked' <=> b \in linked)
    BY <1>b DEF W!TypeOK
  <2>3. \A b \in W!Calls \ {c} : W!CallInv(b)'
    BY <1>0, <1>b, <2>2, OtherCallsStay
  <2>. QED
    BY <2>1, <2>3
<1>1. CASE W!TooLarge(c)
  BY <1>1, <1>a DEF W!TooLarge, W!Refusal, W!Line, W!rows
<1>2. CASE W!Drops(c)
  BY <1>2, <1>b DEF W!Drops, W!wire, W!rows, W!TypeOK
<1>3. CASE W!ReadTimesOut(c)
  <2>1. ASSUME W!Replies(c, W!Refusal(Unsaid, "late"))
        PROVE  \A b \in W!Calls : W!CallInv(b)'
    BY <1>3, <1>a, <2>1 DEF W!ReadTimesOut, W!Refusal, W!Line, W!rows
  <2>2. ASSUME conn' = [conn EXCEPT ![c] = "answered"], UNCHANGED down
        PROVE  \A b \in W!Calls : W!CallInv(b)'
    BY <1>3, <1>b, <2>2 DEF W!ReadTimesOut, W!rows, W!TypeOK
  <2>. QED
    BY <1>3, <2>1, <2>2 DEF W!ReadTimesOut
<1>4. CASE W!Undecodable(c)
  BY <1>0, <1>4, <1>a DEF W!Undecodable, W!Refusal, W!Line, W!rows, W!AllFlaws, W!Sound
<1>5. CASE W!Stopping(c)
  BY <1>5, <1>a DEF W!Stopping, W!Refusal, W!Line, W!rows
<1>. QED
  BY <1>1, <1>2, <1>3, <1>4, <1>5 DEF W!Reads

\* What the daemon answers to a request that starts or stops work.
LEMMA WorkIsTrue ==
  ASSUME RequestsAreKnown, W!TypeOK, W!WireInv, RowsGoOn, NEW c \in W!Calls,
         \/ W!BeginAsked(c) \/ W!Replays(c) \/ W!Conflicts(c) \/ W!Begins(c) \/ W!BeginRefused(c)
         \/ W!StopAsked(c) \/ W!ReplaceAsked(c) \/ W!ReplaceRefused(c)
  PROVE  \A b \in W!Calls : W!CallInv(b)'
<1>0. /\ \A b \in W!Calls : W!CallInv(b)
      /\ W!CapturesAreTurns
      /\ conn[c] \in {"reading", "starting"} /\ c \notin did
      /\ conn[c] = "starting" => call[c].method = "begin"
  <2>1. conn[c] \in {"reading", "starting"}
    BY DEF W!BeginAsked, W!Replays, W!Conflicts, W!Begins, W!BeginRefused, W!StopAsked,
           W!ReplaceAsked, W!ReplaceRefused, W!Dispatches, W!HasLine, W!Unread, W!Starts
  <2>. QED
    BY <2>1 DEF W!WireInv, W!CallInv, W!ConnectionIsPlaced, W!UndoneIsSilent, W!Done
<1>a. ASSUME NEW line, W!Replies(c, line), call' = call, answer' = answer, linked' = linked,
             captured' = captured, did' = did \/ did' = did \union {c},
             IF line.kind = "ok" THEN line.id = c /\ W!Holds(c, line.value)' ELSE c \notin did'
      PROVE  \A b \in W!Calls : W!CallInv(b)'
  <2>1. W!CallInv(c)'
    BY <1>0, <1>a, RepliesAreTrue
  <2>2. \A b \in W!Calls \ {c} : W!CallInv(b)'
    BY <1>0, <1>a, RepliesAreToOne
  <2>. QED
    BY <2>1, <2>2
<1>1. CASE W!BeginAsked(c)
  <2>1. conn[c] = "reading" /\ conn'[c] = "starting" /\ call[c].method = "begin"
    BY <1>1 DEF W!BeginAsked, W!Dispatches, W!HasLine, W!Unread, W!TypeOK
  <2>2. \A b \in W!Calls \ {c} : conn'[b] = conn[b]
    BY <1>1 DEF W!BeginAsked, W!TypeOK
  <2>3. UNCHANGED <<call, answer, down, linked, captured, did>>
    BY <1>1 DEF W!BeginAsked, W!rows
  <2>4. W!CallInv(c)'
    BY <1>0, <2>1, <2>3
       DEF W!CallInv, W!ConnectionIsPlaced, W!UndoneIsSilent, W!LineIsTrue, W!AnswerIsTrue, W!Done
  <2>. QED
    BY <1>0, <2>2, <2>3, <2>4, OtherCallsStay
<1>2. CASE W!Replays(c) \/ W!Begins(c)
  <2>1. call[c].method = "begin" /\ call'[c] = call[c] /\ call[c].key \in keys'
    BY <1>0, <1>2
       DEF W!Replays, W!Begins, W!Starts, W!KeyOf, W!Started, W!rows
  <2>2. \A value : W!Holds(c, value)'
    BY <2>1 DEF W!Holds, W!KeyOf
  <2>3. W!Replies(c, W!Line(c, "ok", W!KeyOf(c)))
        /\ UNCHANGED <<call, answer, linked, captured>>
        /\ (did' = did \/ did' = did \union {c})
    BY <1>2 DEF W!Replays, W!Begins, W!Started, W!rows
  <2>. QED
    BY <1>a, <2>2, <2>3 DEF W!Line
<1>3. CASE W!Conflicts(c) \/ W!BeginRefused(c) \/ W!ReplaceRefused(c)
  <2>1. PICK error \in {"conflict", "busy"} : W!Replies(c, W!Refusal(c, error))
    BY <1>3 DEF W!Conflicts, W!BeginRefused, W!ReplaceRefused
  <2>2. UNCHANGED <<call, answer, linked, captured, did>>
    BY <1>3 DEF W!Conflicts, W!BeginRefused, W!ReplaceRefused, W!Started, W!rows
  <2>. QED
    BY <1>0, <1>a, <2>1, <2>2 DEF W!Refusal, W!Line
<1>4. CASE W!StopAsked(c) \/ W!ReplaceAsked(c)
  <2>1. call[c].method \in {"stop", "replace"} /\ call' = call /\ c \in did'
    BY <1>4 DEF W!StopAsked, W!ReplaceAsked, W!Dispatches
  <2>2. \A value : W!Holds(c, value)'
    BY <2>1 DEF W!Holds
  <2>3. W!Replies(c, W!Line(c, "ok", Unsaid))
        /\ UNCHANGED <<call, answer, linked, captured>>
        /\ (did' = did \/ did' = did \union {c})
    BY <1>4 DEF W!StopAsked, W!ReplaceAsked
  <2>. QED
    BY <1>a, <2>2, <2>3 DEF W!Line
<1>. QED
  BY <1>1, <1>2, <1>3, <1>4

\* What a wait is told of the turns it is about.
LEMMA WaitsAreTrue ==
  ASSUME RequestsAreKnown, W!TypeOK, W!WireInv, RowsGoOn, NEW c \in W!Calls,
         W!WaitAsked(c) \/ W!WaitAnswers(c) \/ W!WaitAborted(c)
  PROVE  \A b \in W!Calls : W!CallInv(b)'
<1>0. /\ \A b \in W!Calls : W!CallInv(b)
      /\ W!CapturesAreTurns
      /\ conn[c] \in {"reading", "waiting"} /\ c \notin did /\ down[c] = Unsaid
      /\ call[c].method = "wait"
  <2>1. conn[c] \in {"reading", "waiting"} /\ (conn[c] = "reading" => call[c].method = "wait")
    BY DEF W!WaitAsked, W!WaitAnswers, W!WaitAborted, W!Dispatches, W!HasLine, W!Unread, W!Waits
  <2>. QED
    BY <2>1 DEF W!WireInv, W!CallInv, W!ConnectionIsPlaced, W!UndoneIsSilent, W!Done
<1>1. /\ UNCHANGED <<call, answer, linked, did, turnRows>>
      /\ \A b \in W!Calls \ {c} : captured'[b] = captured[b]
  BY DEF W!WaitAsked, W!WaitAnswers, W!WaitAborted, W!wire, W!rows, W!TypeOK
<1>a. ASSUME NEW line, W!Replies(c, line),
             IF line.kind = "ok" THEN line.id = c /\ W!Holds(c, line.value)' ELSE c \notin did'
      PROVE  \A b \in W!Calls : W!CallInv(b)'
  <2>1. W!CallInv(c)'
    BY <1>0, <1>1, <1>a, RepliesAreTrue
  <2>2. \A b \in W!Calls \ {c} : W!CallInv(b)'
    BY <1>0, <1>1, <1>a, RepliesAreToOne
  <2>. QED
    BY <2>1, <2>2
<1>b. ASSUME conn' = [conn EXCEPT ![c] = conn'[c]], conn'[c] \in {"gone", "waiting"}, down' = down
      PROVE  \A b \in W!Calls : W!CallInv(b)'
  <2>1. W!CallInv(c)'
    BY <1>0, <1>1, <1>b
       DEF W!CallInv, W!ConnectionIsPlaced, W!UndoneIsSilent, W!LineIsTrue, W!AnswerIsTrue, W!Done
  <2>2. \A b \in W!Calls \ {c} : conn'[b] = conn[b]
    BY <1>b DEF W!TypeOK
  <2>. QED
    BY <1>0, <1>1, <1>b, <2>1, <2>2, OtherCallsStay
<1>c. ASSUME NEW seen \in [W!Agents -> Nat], captured'[c] = seen,
             \/ call[c].timed
             \/ \A a \in W!Agents : seen[a] > 0 => W!Status(a, seen[a]) # "running",
             W!Replies(c, W!Line(c, "ok", W!Results(seen)))
      PROVE  \A b \in W!Calls : W!CallInv(b)'
  <2>. DEFINE value == W!Results(seen)
  <2>1. /\ DOMAIN value = {a \in W!Agents : seen[a] > 0}
        /\ \A a \in DOMAIN value : value[a] = W!Status(a, seen[a])
    BY DEF W!Results
  <2>. HIDE DEF value
  <2>2. \A v : v = value => W!Holds(c, v)'
    BY <1>0, <1>1, <1>c, <2>1 DEF W!Holds, W!Status
  <2>. QED
    BY <1>a, <1>c, <2>2 DEF W!Line, value
<1>2. CASE W!WaitAsked(c)
  <2>1. W!Latest \in [W!Agents -> Nat] /\ captured'[c] = W!Latest
    BY <1>2 DEF W!Latest, W!WaitAsked, W!TypeOK
  <2>2. ASSUME W!Replies(c, W!Refusal(c, "target"))
        PROVE  \A b \in W!Calls : W!CallInv(b)'
    BY <1>0, <1>1, <1>a, <2>2 DEF W!Refusal, W!Line
  <2>3. ASSUME conn' = [conn EXCEPT ![c] = "waiting"], UNCHANGED down
        PROVE  \A b \in W!Calls : W!CallInv(b)'
    BY <1>b, <2>3 DEF W!TypeOK
  <2>4. ASSUME \A a \in W!Known : ~W!Running(a), W!Replies(c, W!Line(c, "ok", W!Results(W!Latest)))
        PROVE  \A b \in W!Calls : W!CallInv(b)'
    <3>1. \A a \in W!Agents : W!Latest[a] > 0 => W!Status(a, W!Latest[a]) # "running"
      <4>1. \A a \in W!Agents : W!Latest[a] = Len(turnRows[a])
        BY DEF W!Latest
      <4>2. \A a \in W!Agents : Len(turnRows[a]) > 0 => turnRows[a] # <<>>
        BY DEF W!TypeOK
      <4>. QED
        BY <2>4, <4>1, <4>2 DEF W!Known, W!Running
    <3>. QED
      BY <1>c, <2>1, <2>4, <3>1
  <2>. QED
    BY <1>2, <2>2, <2>3, <2>4 DEF W!WaitAsked
<1>3. CASE W!WaitAnswers(c)
  <2>1. captured' = captured /\ captured[c] \in [W!Agents -> Nat]
    BY <1>3 DEF W!WaitAnswers, W!TypeOK
  <2>2. \/ call[c].timed
        \/ \A a \in W!Agents : captured[c][a] > 0 => W!Status(a, captured[c][a]) # "running"
    BY <1>3 DEF W!WaitAnswers, W!Over
  <2>. QED
    BY <1>3, <1>c, <2>1, <2>2 DEF W!WaitAnswers, W!WaitResult
<1>4. CASE W!WaitAborted(c)
  BY <1>4, <1>b DEF W!WaitAborted, W!wire, W!TypeOK
<1>. QED
  BY <1>2, <1>3, <1>4

\* What a client learns is what was on the line, or that it does not know.
LEMMA AnswersAreHonest ==
  ASSUME RequestsAreKnown, W!TypeOK, W!WireInv, RowsGoOn, NEW c \in W!Calls, W!Client(c)
  PROVE  \A b \in W!Calls : W!CallInv(b)'
<1>0. (\A b \in W!Calls : W!CallInv(b)) /\ W!CapturesAreTurns
  BY DEF W!WireInv
<1>1. UNCHANGED <<captured, did>>
  BY DEF W!Client, W!Open, W!Receives, W!LosesConnection, W!TimesOut, W!rows
<1>2. ASSUME NEW b \in W!Calls \ {c}
      PROVE  W!CallInv(b)'
  <2>1. call'[b] = call[b] /\ conn'[b] = conn[b] /\ (b \in linked' <=> b \in linked)
    BY DEF W!Client, W!Open, W!Receives, W!LosesConnection, W!TimesOut, W!Settles, W!TypeOK, W!wire
  <2>2. answer'[b] = answer[b] /\ down'[b] = down[b]
    BY DEF W!Client, W!Open, W!Receives, W!LosesConnection, W!TimesOut, W!Settles, W!TypeOK, W!wire
  <2>. QED
    BY <1>0, <1>1, <2>1, <2>2, OtherCallsStay
<1>3. ASSUME W!Open(c)
      PROVE  W!CallInv(c)'
  <2>1. call'[c].at = "open" /\ conn'[c] = "reading" /\ conn[c] = "none"
    BY <1>0, <1>3 DEF W!Open, W!Asks, W!TypeOK, W!CallInv, W!ConnectionIsPlaced
  <2>2. c \notin did /\ down[c] = Unsaid /\ answer[c] = Unsaid
    BY <1>0, <1>3, <2>1
       DEF W!Open, W!CallInv, W!UndoneIsSilent, W!AnswerIsTrue, W!Done
  <2>3. UNCHANGED <<answer, down>>
    BY <1>3 DEF W!Open
  <2>. QED
    BY <1>1, <2>1, <2>2, <2>3
       DEF W!CallInv, W!ConnectionIsPlaced, W!UndoneIsSilent, W!LineIsTrue, W!AnswerIsTrue, W!Done
<1>4. ASSUME NEW kind, NEW value, W!Settles(c, kind, value), call[c].at = "open", conn' = conn,
             linked' = linked \ {c},
             down'[c] = Unsaid,
             \/ kind = "ok" /\ W!Done(c) /\ W!Holds(c, value)
             \/ kind \in {"timeout", "unavailable"}
             \/ kind # "ok" /\ W!Done(c) /\ c \notin did
      PROVE  W!CallInv(c)'
  <2>. DEFINE told == [kind |-> kind, value |-> value]
  <2>1. /\ call'[c].at = "settled" /\ call'[c].method = call[c].method
        /\ call'[c].key = call[c].key /\ call'[c].timed = call[c].timed
    <3>1. call[c] \in [at: {"open", "settled"}, method: W!Methods, key: Keys, flaw: W!AllFlaws,
                       timed: BOOLEAN]
      BY <1>4 DEF W!TypeOK, W!Idle
    <3>. QED
      BY <1>4, <3>1 DEF W!Settles, W!TypeOK
  <2>2. answer'[c] = told /\ told.kind = kind /\ told.value = value
    BY <1>4 DEF W!Settles, W!TypeOK
  <2>. HIDE DEF told
  <2>3. \A v : W!Holds(c, v) => W!Holds(c, v)'
    BY <1>0, <1>1, <2>1, TruthIsKept
  <2>4. W!ConnectionIsPlaced(c)' /\ W!UndoneIsSilent(c)' /\ W!LineIsTrue(c)'
    BY <1>0, <1>1, <1>4, <2>1
       DEF W!CallInv, W!ConnectionIsPlaced, W!UndoneIsSilent, W!LineIsTrue, W!Done
  <2>5. W!AnswerIsTrue(c)'
    BY <1>1, <1>4, <2>1, <2>2, <2>3 DEF W!AnswerIsTrue, W!Done
  <2>. QED
    BY <2>4, <2>5 DEF W!CallInv
<1>5. ASSUME W!Receives(c)
      PROVE  W!CallInv(c)'
  <2>1. W!Done(c) /\ W!LineIsTrue(c) /\ down[c] # Unsaid /\ call[c].at = "open"
    BY <1>0, <1>5 DEF W!Receives, W!CallInv, W!UndoneIsSilent
  <2>2. conn' = conn /\ linked' = linked \ {c} /\ down'[c] = Unsaid
    BY <1>5 DEF W!Receives, W!TypeOK
  <2>3. ASSUME W!Understood(c), W!Settles(c, down[c].kind, down[c].value)
        PROVE  W!CallInv(c)'
    BY <1>4, <2>1, <2>2, <2>3 DEF W!LineIsTrue
  <2>4. ASSUME ~W!Understood(c), W!Settles(c, "invalid", Unsaid)
        PROVE  W!CallInv(c)'
    <3>1. c \notin did
      BY <2>1, <2>4 DEF W!LineIsTrue, W!Understood
    <3>. QED
      BY <1>4, <2>1, <2>2, <2>4, <3>1
  <2>. QED
    BY <1>5, <2>3, <2>4 DEF W!Receives
<1>6. ASSUME W!LosesConnection(c) \/ W!TimesOut(c)
      PROVE  W!CallInv(c)'
  <2>1. W!Settles(c, "timeout", Unsaid) \/ W!Settles(c, "unavailable", Unsaid)
    BY <1>6 DEF W!LosesConnection, W!TimesOut
  <2>2. /\ call[c].at = "open" /\ conn' = conn /\ down'[c] = Unsaid
        /\ linked' = linked \ {c}
    BY <1>6 DEF W!LosesConnection, W!TimesOut, W!wire, W!TypeOK
  <2>. QED
    BY <1>4, <2>1, <2>2
<1>. QED
  BY <1>2, <1>3, <1>5, <1>6 DEF W!Client

\* The ends of turns and of the daemon.
LEMMA EndsAreSilent ==
  ASSUME W!TypeOK, W!WireInv, RowsGoOn,
         \/ \E a \in W!Agents : W!TurnEnds(a)
         \/ W!Close \/ W!Exit(TRUE) \/ W!Exit(FALSE) \/ W!Restart \/ UNCHANGED W!vars
  PROVE  \A b \in W!Calls : W!CallInv(b)'
<1>0. (\A b \in W!Calls : W!CallInv(b)) /\ W!CapturesAreTurns
  BY DEF W!WireInv
<1>1. CASE \/ \E a \in W!Agents : W!TurnEnds(a)
           \/ W!Restart \/ UNCHANGED W!vars
  <2>1. UNCHANGED <<call, answer, down, linked, conn, captured, did>>
    BY <1>1 DEF W!TurnEnds, W!Restart, W!vars, W!wire, W!rows
  <2>. QED
    BY <1>0, <2>1, OtherCallsStay
<1>2. CASE W!Close \/ W!Exit(TRUE) \/ W!Exit(FALSE)
  <2>1. UNCHANGED <<call, answer, captured, did>> /\ linked' = {}
    BY <1>2 DEF W!Close, W!Exit, W!CutOff, W!rows
  <2>2. \A b \in W!Calls : down'[b] \in {down[b], Unsaid}
    BY <1>2 DEF W!Close, W!Exit, W!CutOff
  <2>3. ASSUME NEW b \in W!Calls
        PROVE  \/ conn'[b] = conn[b]
               \/ conn[b] # "none" /\ conn'[b] = "gone"
    BY <1>2 DEF W!Close, W!Exit
  <2>4. ASSUME NEW b \in W!Calls
        PROVE  W!CallInv(b)'
    <3>1. CASE conn'[b] = conn[b]
      <4>1. \A v : W!Holds(b, v) => W!Holds(b, v)'
        BY <1>0, <2>1, TruthIsKept
      <4>. QED
        BY <1>0, <2>1, <2>2, <3>1, <4>1
           DEF W!CallInv, W!ConnectionIsPlaced, W!UndoneIsSilent, W!LineIsTrue, W!AnswerIsTrue,
               W!Done
    <3>2. CASE conn[b] # "none" /\ conn'[b] = "gone"
      BY <1>0, <2>1, <2>2, <3>2, SilenceIsTrue
    <3>. QED
      BY <2>3, <3>1, <3>2
  <2>. QED
    BY <2>4
<1>. QED
  BY <1>1, <1>2

LEMMA WireStepIsSound ==
  ASSUME RequestsAreKnown, W!TypeOK, W!WireInv, [W!Next]_W!vars
  PROVE  (W!TypeOK /\ W!WireInv)'
<1>1. (\A c \in W!Calls : W!ConnectionIsPlaced(c)) /\ W!RowInv /\ W!CapturesAreTurns
  BY DEF W!WireInv, W!CallInv
<1>2. W!TypeOK'
  BY <1>1, WireTypeIsInductive
<1>3. RowsGoOn /\ W!RowInv'
  BY <1>1, RowsAreKept
<1>4. W!CapturesAreTurns'
  BY <1>1, <1>3, CapturesAreKept
<1>5. \A b \in W!Calls : W!CallInv(b)'
  <2>1. ASSUME NEW c \in W!Calls, W!Serves(c)
        PROVE  \A b \in W!Calls : W!CallInv(b)'
    BY <1>3, <2>1, WorkIsTrue, WaitsAreTrue DEF W!Serves
  <2>. QED
    BY <1>3, <2>1, ReadsAreTrue, AnswersAreHonest, EndsAreSilent DEF W!Next
<1>. QED
  BY <1>2, <1>3, <1>4, <1>5 DEF W!WireInv

LEMMA WireInitIsSound == ASSUME RequestsAreKnown PROVE W!Init => W!TypeOK /\ W!WireInv
<1>. SUFFICES ASSUME W!Init PROVE W!TypeOK /\ W!WireInv
  OBVIOUS
<1>0. W!First \in Keys
  BY FirstIsKey DEF RequestsAreKnown
<1>1. PICK earlier \in SUBSET {W!First} :
         /\ keys = earlier
         /\ turnRows = [a \in W!Agents |->
                IF W!First \in earlier /\ a = AgentOf[W!First]
                  THEN <<[key |-> W!First, status |-> "running"]>> ELSE <<>>]
  BY DEF W!Init
<1>. DEFINE e == [key |-> W!First, status |-> "running"]
<1>2. e \in WireTurns /\ e.key = W!First
  BY <1>0 DEF WireTurns
<1>3. turnRows = [a \in W!Agents |-> IF W!First \in earlier /\ a = AgentOf[W!First]
                                       THEN <<e>> ELSE <<>>]
  BY <1>1
<1>. HIDE DEF e
<1>4. turnRows \in [W!Agents -> Seq(WireTurns)]
  BY <1>2, <1>3
<1>5. W!TypeOK
  BY <1>0, <1>1, <1>4 DEF W!Init, W!TypeOK, W!Nothing, WireTurns
<1>6. \A c \in W!Calls : W!CallInv(c)
  BY DEF W!Init, W!CallInv, W!ConnectionIsPlaced, W!UndoneIsSilent, W!LineIsTrue, W!AnswerIsTrue,
         W!Done, W!Idle
<1>7. W!CapturesAreTurns
  BY DEF W!Init, W!CapturesAreTurns, W!Nothing
<1>8. \A a \in W!Agents : \A i \in DOMAIN turnRows[a] :
         i = 1 /\ W!First \in earlier /\ turnRows[a][i].key = W!First
  BY <1>2, <1>3
<1>9. W!RowInv
  BY <1>1, <1>8 DEF W!RowInv, W!BegunKeysAreTaken, W!OncePerKey
<1>. QED
  BY <1>5, <1>6, <1>7, <1>9 DEF W!WireInv

\* The inductive invariant: the daemon has done nothing for a connection it has not finished,
\* what it then writes is so, and it holds on whoever reads it and when.
THEOREM WireIsSound == ASSUME RequestsAreKnown PROVE W!Spec => [](W!TypeOK /\ W!WireInv)
<1>. QED
  BY WireInitIsSound, WireStepIsSound, PTL DEF W!Spec

\* Whatever is lost between a client and the daemon, repeated, cut off by a restart or answered
\* late: a key begins one turn at most, a call that was told no has done nothing, what was told
\* to be done is done, and a wait tells of the turns that were the latest when it was asked.
THEOREM CallersAreToldTheTruth == ASSUME RequestsAreKnown PROVE W!Spec => []W!AnswersAreTrue
<1>1. W!TypeOK /\ W!WireInv => W!AnswersAreTrue
  <2>. SUFFICES ASSUME W!TypeOK, W!WireInv PROVE W!AnswersAreTrue
    OBVIOUS
  <2>1. W!OncePerKey
    BY DEF W!WireInv, W!RowInv
  <2>2. \A c \in W!Calls : W!AnswerIsTrue(c)
    BY DEF W!WireInv, W!CallInv
  <2>3. W!RefusalsAreEmpty
    BY <2>2 DEF W!RefusalsAreEmpty, W!AnswerIsTrue
  <2>4. W!WaitsKeepTheirTurns
    BY <2>2 DEF W!WaitsKeepTheirTurns, W!AnswerIsTrue, W!Holds
  <2>5. W!AcceptedIsDone
    <3>1. ASSUME NEW c \in W!Calls, answer[c] # Unsaid, answer[c].kind = "ok"
          PROVE  /\ call[c].method = "begin" => W!KeyOf(c) \in keys
                 /\ call[c].method \notin {"begin", "wait"} => c \in did
      <4>1. call[c].method \in W!Methods /\ W!Holds(c, answer[c].value)
        BY <2>2, <3>1 DEF W!AnswerIsTrue, W!TypeOK, W!Idle
      <4>. QED
        BY <4>1 DEF W!Holds, W!Methods
    <3>. QED
      BY <3>1 DEF W!AcceptedIsDone
  <2>. QED
    BY <2>1, <2>3, <2>4, <2>5 DEF W!AnswersAreTrue
<1>. QED
  BY <1>1, WireIsSound, PTL
-------------------------------------------------------------------------------
(***************************************************************************)
(* The settings of turns (TurnSettings), for any number of agents and      *)
(* turns, whatever is configured, asked for and edited meanwhile.          *)
(***************************************************************************)

\* A limit is one of the eight efforts there are, 1 for "none" to 8 for "ultra".
LimitsAreEfforts == \A c \in Configs : \A l \in c.limits : l.max \in 1..8

\* The limit of a model that has one is the smallest of those that match it.
LEMMA LimitIsEffort ==
  ASSUME LimitsAreEfforts, config \in Configs, NEW m, ~ S!NoLimit(m)
  PROVE  S!Limit(m) \in 1..8
<1>. DEFINE T == {l.max : l \in {k \in config.limits : k.model = m}}
           Least(n) == n \in T /\ \A x \in T : n <= x
<1>1. T # {} /\ T \subseteq 1..8
  BY DEF LimitsAreEfforts, S!NoLimit
<1>2. \E n \in T : Least(n)
  <2>. HIDE DEF T
  <2>. SUFFICES ASSUME \A n \in T : ~ Least(n) PROVE FALSE
    OBVIOUS
  <2>1. 1 \notin T
    BY <1>1
  <2>2. 2 \notin T
    BY <1>1, <2>1
  <2>3. 3 \notin T
    BY <1>1, <2>1, <2>2
  <2>4. 4 \notin T
    BY <1>1, <2>1, <2>2, <2>3
  <2>5. 5 \notin T
    BY <1>1, <2>1, <2>2, <2>3, <2>4
  <2>6. 6 \notin T
    BY <1>1, <2>1, <2>2, <2>3, <2>4, <2>5
  <2>7. 7 \notin T
    BY <1>1, <2>1, <2>2, <2>3, <2>4, <2>5, <2>6
  <2>8. 8 \notin T
    BY <1>1, <2>1, <2>2, <2>3, <2>4, <2>5, <2>6, <2>7
  <2>9. ASSUME NEW n \in T PROVE FALSE
    <3>1. n \in 1..8
      BY <1>1
    <3>. QED
      BY <3>1, <2>1, <2>2, <2>3, <2>4, <2>5, <2>6, <2>7, <2>8
  <2>. QED
    BY <1>1, <2>9
<1>3. \E n \in T : \A l \in config.limits : l.model = m => n <= l.max
  BY <1>2
<1>. QED
  BY <1>1, <1>3 DEF S!Limit

\* An effort that is limited already is not limited further, and one that is given stays given.
LEMMA LimitingSettles ==
  ASSUME LimitsAreEfforts, config \in Configs, NEW m, NEW e
  PROVE  /\ S!Limited(m, S!Limited(m, e)) = S!Limited(m, e)
         /\ S!NoLimit(m) => S!Limited(m, e) = e
         /\ e # 0 => S!Limited(m, e) # 0
         /\ S!Limited(m, e) = 0 => S!NoLimit(m)
<1>1. CASE S!NoLimit(m)
  BY <1>1 DEF S!Limited
<1>2. CASE ~ S!NoLimit(m)
  <2>1. S!Limit(m) # 0
    BY <1>2, LimitIsEffort
  <2>. QED
    BY <1>2, <2>1 DEF S!Limited
<1>. QED
  BY <1>1, <1>2

\* Without limits nothing is limited.
LEMMA UnlimitedIsFree ==
  ASSUME config.limits = {}, NEW m PROVE S!NoLimit(m)
BY DEF S!NoLimit

\* What is right of an agent stays right while it does nothing, whatever the profile says.
LEMMA RowsStand ==
  ASSUME NEW b, agent'[b] = agent[b], turn'[b] = turn[b], config' = config,
         S!RowIsOfTurn(b), S!InputIsFilled(b), S!SignatureIsOfRow(b)
  PROVE  S!RowIsOfTurn(b)' /\ S!InputIsFilled(b)' /\ S!SignatureIsOfRow(b)'
<1>1. \A m, e : S!Limited(m, e)' = S!Limited(m, e)
  BY DEF S!Limited, S!NoLimit, S!Limit
<1>2. S!Mode(turn[b].request)' = S!Mode(turn[b].request)
  BY DEF S!Mode
<1>3. S!Resolved(turn[b].request, turn[b].defaults)' = S!Resolved(turn[b].request, turn[b].defaults)
  BY DEF S!Resolved, S!ReadOnly, S!Mode
<1>4. \A p : /\ S!FilledModel(b, p)' = S!FilledModel(b, p)
            /\ S!FilledEffort(b, p)' = S!FilledEffort(b, p)
            /\ S!Filled(b, p)' = S!Filled(b, p)
  BY <1>2 DEF S!Filled, S!FilledModel, S!FilledEffort
<1>5. S!RowIsOfTurn(b)'
  <2>1. S!RowIsLimited(b) => S!RowIsLimited(b)'
    BY <1>1 DEF S!RowIsLimited
  <2>2. S!RowHasDefault(b) => S!RowHasDefault(b)'
    BY <1>1, <1>3 DEF S!RowHasDefault
  <2>3. S!RowIsAsSigned(b) => S!RowIsAsSigned(b)'
    BY <1>4 DEF S!RowIsAsSigned
  <2>. QED
    BY <2>1, <2>2, <2>3 DEF S!RowIsOfTurn
<1>6. S!InputIsFilled(b)'
  BY <1>4 DEF S!InputIsFilled
<1>7. S!SignatureIsOfRow(b)'
  BY <1>4 DEF S!SignatureIsOfRow
<1>. QED
  BY <1>5, <1>6, <1>7

\* A turn that begins, for whatever row, has settings that are its own.
LEMMA SettingsBegin ==
  ASSUME LimitsAreEfforts, S!TypeOK, S!SettingsInv,
         NEW a \in TurnAgents, NEW row, DOMAIN row = DOMAIN S!NoAgent, NEW r, NEW signed,
         ~ S!Refuses(S!Model(S!Resolved(r, S!Target).model, row.model)),
         S!Begun(a, row, r, S!Target, signed),
         signed # <<>> /\ ~ row.changed =>
            signed = <<S!Model(S!Model(S!Resolved(r, S!Target).model, row.model), profile.model),
                       S!Effort(S!BegunEffort(row, r, S!Target), profile.effort),
                       S!Mode(r), profile.body>>
  PROVE  S!TypeOK' /\ S!SettingsInv'
<1>. DEFINE model == S!Model(S!Resolved(r, S!Target).model, row.model)
           effort == S!BegunEffort(row, r, S!Target)
           own == S!Resolved(r, S!Target).effort
<1>1. /\ agent'[a].status = "running" /\ agent'[a].model = model /\ agent'[a].effort = effort
      /\ DOMAIN agent'[a] = DOMAIN row
  BY DEF S!Begun, S!TypeOK, S!NoAgent
<1>2. /\ DOMAIN agent' = TurnAgents /\ DOMAIN turn' = TurnAgents
      /\ \A b \in TurnAgents \ {a} : agent'[b] = agent[b] /\ turn'[b] = turn[b]
      /\ config' = config /\ profile' = profile
  BY DEF S!Begun, S!TypeOK
<1>3. /\ DOMAIN turn'[a] = {"step", "request", "defaults", "signed", "changed", "read", "input",
                            "from", "edited"}
      /\ turn'[a].step = "begun" /\ turn'[a].request = r /\ turn'[a].defaults = S!Target
      /\ turn'[a].signed = signed /\ turn'[a].changed = row.changed /\ turn'[a].read = profile
  BY DEF S!Begun, S!TypeOK
<1>4. S!TypeOK'
  BY <1>1, <1>2, <1>3 DEF S!TypeOK, S!NoAgent, S!Settled
<1>5. S!RowIsLimited(a)'
  <2>1. config.limits # {} => model # NoModel
    BY DEF S!Refuses
  <2>2. effort = S!Limited(model, effort)
    BY LimitingSettles DEF S!BegunEffort, S!TypeOK
  <2>. QED
    BY <1>1, <1>2, <2>1, <2>2 DEF S!RowIsLimited, S!Limited, S!NoLimit, S!Limit
<1>6. S!RowHasDefault(a)'
  <2>1. own # 0 => effort = S!Limited(model, own)
    BY DEF S!BegunEffort, S!Effort
  <2>2. S!Resolved(r, S!Target)' = S!Resolved(r, S!Target)
    BY <1>2 DEF S!Resolved, S!ReadOnly, S!Mode, S!Target, S!Model, S!Effort
  <2>3. S!Resolved(turn[a].request, turn[a].defaults)' = S!Resolved(r, S!Target)
    BY <1>2, <1>3 DEF S!Resolved, S!ReadOnly, S!Mode
  <2>. QED
    BY <1>1, <1>2, <2>1, <2>3 DEF S!RowHasDefault, S!Limited, S!NoLimit, S!Limit
<1>7. S!RowIsAsSigned(a)'
  BY <1>1, <1>2, <1>3 DEF S!RowIsAsSigned, S!Filled, S!FilledModel, S!FilledEffort, S!Mode,
     S!Model, S!Effort
<1>8. S!InputIsFilled(a)' /\ S!SignatureIsOfRow(a)'
  BY <1>1, <1>3 DEF S!InputIsFilled, S!SignatureIsOfRow, S!Settled
<1>9. ASSUME NEW b \in TurnAgents \ {a}
      PROVE  S!RowIsOfTurn(b)' /\ S!InputIsFilled(b)' /\ S!SignatureIsOfRow(b)'
  <2>1. S!RowIsOfTurn(b) /\ S!InputIsFilled(b) /\ S!SignatureIsOfRow(b)
    BY DEF S!SettingsInv
  <2>2. agent'[b] = agent[b] /\ turn'[b] = turn[b] /\ config' = config
    BY <1>2
  <2>. QED
    BY <2>1, <2>2, RowsStand
<1>. QED
  BY <1>4, <1>5, <1>6, <1>7, <1>8, <1>9 DEF S!SettingsInv, S!RowIsOfTurn
\* What an earlier turn was signed for is what a related request is signed for, and gets.
LEMMA ReuseKeepsSettings ==
  ASSUME LimitsAreEfforts, config \in Configs, NEW row, NEW r, NEW p,
         row.signature = S!Signature(r),
         row.signature[1] = S!Model(row.model, p.model),
         row.signature[2] = S!Effort(row.effort, p.effort)
  PROVE  S!Signature(r) =
            <<S!Model(S!Model(S!Resolved(r, S!Target).model, row.model), profile.model),
              S!Effort(S!BegunEffort(row, r, S!Target), profile.effort),
              S!Mode(r), profile.body>>
<1>. DEFINE asked == S!Resolved(r, S!Target)
           model == S!Model(asked.model, row.model)
<1>1. /\ asked.model = S!Model(row.model, p.model)
      /\ S!Limited(asked.model, asked.effort) = S!Effort(row.effort, p.effort)
  BY DEF S!Signature
<1>2. /\ asked.model = NoModel => profile.model = NoModel
      /\ asked.effort = 0 => profile.effort = 0
  BY DEF S!Resolved, S!Target, S!Model, S!Effort
<1>3. model = asked.model /\ S!Model(model, profile.model) = asked.model
  BY <1>1, <1>2 DEF S!Model
<1>4. S!BegunEffort(row, r, S!Target) = S!Limited(asked.model, S!Effort(asked.effort, row.effort))
  BY <1>3 DEF S!BegunEffort
<1>5. S!Effort(S!BegunEffort(row, r, S!Target), profile.effort)
        = S!Limited(asked.model, asked.effort)
  <2>. HIDE DEF asked
  <2>1. CASE asked.effort # 0
    BY <1>4, <2>1, LimitingSettles DEF S!Effort
  <2>2. CASE asked.effort = 0 /\ row.effort = 0
    BY <1>2, <1>4, <2>2, LimitingSettles DEF S!Effort
  <2>3. CASE asked.effort = 0 /\ row.effort # 0
    <3>1. row.effort = S!Limited(asked.model, 0)
      BY <1>1, <2>3 DEF S!Effort
    <3>2. S!Limited(asked.model, row.effort) = row.effort
      BY <3>1, LimitingSettles
    <3>. QED
      BY <1>1, <1>4, <2>3, <3>2 DEF S!Effort
  <2>. QED
    BY <2>1, <2>2, <2>3
<1>. QED
  BY <1>3, <1>5 DEF S!Signature

\* A new agent is created with the settings that its first turn is signed for.
LEMMA NewHasSettings ==
  ASSUME LimitsAreEfforts, config \in Configs, NEW r
  PROVE  S!Signature(r) =
            <<S!Model(S!Model(S!Resolved(r, S!Target).model, S!Created(r).model), profile.model),
              S!Effort(S!BegunEffort(S!Created(r), r, S!Target), profile.effort),
              S!Mode(r), profile.body>>
<1>. DEFINE asked == S!Resolved(r, S!Target)
<1>1. S!Created(r).model = S!Target.model /\ S!Created(r).effort = S!Target.effort
  BY DEF S!Created, S!NoAgent
<1>2. /\ asked.model = NoModel => S!Target.model = NoModel /\ profile.model = NoModel
      /\ asked.effort = 0 => S!Target.effort = 0 /\ profile.effort = 0
  BY DEF S!Resolved, S!Target, S!Model, S!Effort
<1>3. /\ S!Model(asked.model, S!Target.model) = asked.model
      /\ S!Effort(asked.effort, S!Target.effort) = asked.effort
      /\ S!Model(asked.model, profile.model) = asked.model
  BY <1>2 DEF S!Model, S!Effort
<1>4. S!BegunEffort(S!Created(r), r, S!Target) = S!Limited(asked.model, asked.effort)
  BY <1>1, <1>3 DEF S!BegunEffort
<1>5. S!Effort(S!Limited(asked.model, asked.effort), profile.effort)
        = S!Limited(asked.model, asked.effort)
  <2>. HIDE DEF asked
  <2>. QED
    BY <1>2, LimitingSettles DEF S!Effort
<1>. QED
  BY <1>1, <1>3, <1>4, <1>5 DEF S!Signature

\* The profile that is read when the turn runs fills what its row leaves open.
LEMMA SettingsRun ==
  ASSUME S!TypeOK, S!SettingsInv, NEW a \in TurnAgents, S!RunTurn(a)
  PROVE  S!TypeOK' /\ S!SettingsInv'
<1>1. /\ DOMAIN agent' = TurnAgents /\ DOMAIN turn' = TurnAgents
      /\ \A b \in TurnAgents \ {a} : agent'[b] = agent[b] /\ turn'[b] = turn[b]
      /\ config' = config /\ profile' = profile
  BY DEF S!RunTurn, S!TypeOK
<1>2. turn[a] # S!NoTurn /\ agent[a].status = "running"
  BY DEF S!RunTurn, S!TypeOK, S!NoTurn
<1>3. \A b \in TurnAgents \ {a} : S!RowIsOfTurn(b)' /\ S!InputIsFilled(b)' /\ S!SignatureIsOfRow(b)'
  BY <1>1, RowsStand DEF S!SettingsInv
<1>4. CASE profile.enabled
  <2>a. DOMAIN turn[a] = {"step", "request", "defaults", "signed", "changed", "read", "input",
                          "from", "edited"}
    BY <1>2 DEF S!TypeOK
  <2>b. /\ agent' = agent
        /\ turn'[a] = [turn[a] EXCEPT !.step = "running", !.from = agent[a].from,
                                      !.edited = turn[a].read # profile,
                                      !.input = <<S!Model(agent[a].model, profile.model),
                                                  S!Effort(agent[a].effort, profile.effort),
                                                  S!Mode(turn[a].request), profile.body>>]
    BY <1>4 DEF S!RunTurn, S!TypeOK
  <2>1. turn'[a].step = "running" /\ DOMAIN turn'[a] = DOMAIN turn[a] /\ agent' = agent
    BY <2>a, <2>b
  <2>2. /\ turn'[a].request = turn[a].request /\ turn'[a].defaults = turn[a].defaults
        /\ turn'[a].signed = turn[a].signed /\ turn'[a].changed = turn[a].changed
        /\ turn'[a].read = turn[a].read
    BY <2>a, <2>b
  <2>3. turn'[a].input = S!Filled(a, profile) /\ turn'[a].edited = (turn[a].read # profile)
    BY <2>a, <2>b DEF S!Filled, S!FilledModel, S!FilledEffort
  <2>4. S!TypeOK'
    BY <1>1, <1>2, <2>1 DEF S!TypeOK, S!NoTurn
  <2>5. \A p : S!Filled(a, p)' = S!Filled(a, p)
    BY <1>1, <2>1, <2>2 DEF S!Filled, S!FilledModel, S!FilledEffort, S!Mode
  <2>6. S!RowIsOfTurn(a)'
    <3>1. S!RowIsLimited(a) /\ S!RowHasDefault(a) /\ S!RowIsAsSigned(a)
      BY <1>2 DEF S!SettingsInv, S!RowIsOfTurn
    <3>2. S!RowIsLimited(a)'
      BY <1>1, <2>1, <3>1 DEF S!RowIsLimited, S!Limited, S!NoLimit, S!Limit
    <3>3. S!RowHasDefault(a)'
      BY <1>1, <2>1, <2>2, <3>1 DEF S!RowHasDefault, S!Limited, S!NoLimit, S!Limit, S!Resolved,
         S!ReadOnly, S!Mode
    <3>4. S!RowIsAsSigned(a)'
      BY <2>2, <2>5, <3>1 DEF S!RowIsAsSigned
    <3>. QED
      BY <3>2, <3>3, <3>4 DEF S!RowIsOfTurn
  <2>7. S!InputIsFilled(a)'
    BY <2>2, <2>3, <2>5 DEF S!InputIsFilled, S!TypeOK
  <2>8. S!SignatureIsOfRow(a)'
    BY <1>2, <2>1 DEF S!SignatureIsOfRow, S!Settled
  <2>. QED
    BY <1>3, <2>4, <2>6, <2>7, <2>8 DEF S!SettingsInv
<1>5. CASE ~ profile.enabled
  <2>1. turn'[a] = S!NoTurn /\ agent'[a].changed = TRUE /\ agent'[a].status = "error"
        /\ DOMAIN agent'[a] = DOMAIN agent[a]
    BY <1>5 DEF S!RunTurn, S!TypeOK, S!NoAgent
  <2>2. S!TypeOK'
    BY <1>1, <2>1 DEF S!TypeOK, S!Settled
  <2>3. S!RowIsOfTurn(a)' /\ S!InputIsFilled(a)' /\ S!SignatureIsOfRow(a)'
    BY <2>1 DEF S!RowIsOfTurn, S!InputIsFilled, S!SignatureIsOfRow, S!NoTurn
  <2>. QED
    BY <1>3, <2>2, <2>3 DEF S!SettingsInv
<1>. QED
  BY <1>4, <1>5

\* A turn that ends, or an agent that is stopped, leaves a row that is signed if it is unchanged.
LEMMA SettingsEnd ==
  ASSUME S!TypeOK, S!SettingsInv, NEW a \in TurnAgents,
         config' = config, profile' = profile, DOMAIN agent' = TurnAgents, DOMAIN turn' = TurnAgents,
         \A b \in TurnAgents \ {a} : agent'[b] = agent[b] /\ turn'[b] = turn[b],
         turn'[a] = S!NoTurn, DOMAIN agent'[a] = DOMAIN S!NoAgent, agent'[a].status \in S!Settled,
         S!SignatureIsOfRow(a)'
  PROVE  S!TypeOK' /\ S!SettingsInv'
<1>1. \A b \in TurnAgents \ {a} : S!RowIsOfTurn(b)' /\ S!InputIsFilled(b)' /\ S!SignatureIsOfRow(b)'
  BY RowsStand DEF S!SettingsInv
<1>2. S!RowIsOfTurn(a)' /\ S!InputIsFilled(a)'
  BY DEF S!RowIsOfTurn, S!InputIsFilled, S!NoTurn
<1>3. S!TypeOK'
  BY DEF S!TypeOK
<1>. QED
  BY <1>1, <1>2, <1>3 DEF S!SettingsInv

LEMMA SettingsStep ==
  ASSUME LimitsAreEfforts, S!TypeOK, S!SettingsInv, [S!Next]_S!vars
  PROVE  S!TypeOK' /\ S!SettingsInv'
<1>1. ASSUME S!Edit PROVE S!TypeOK' /\ S!SettingsInv'
  <2>1. S!TypeOK'
    BY <1>1 DEF S!Edit, S!TypeOK
  <2>. QED
    BY <1>1, <2>1, RowsStand DEF S!Edit, S!SettingsInv
<1>2. ASSUME NEW r \in Requests, S!Start(r) PROVE S!TypeOK' /\ S!SettingsInv'
  <2>1. \A row : ~ S!Refuses(S!Model(S!Resolved(r, S!Target).model, row.model))
    BY <1>2 DEF S!Start, S!Refuses, S!Model
  <2>2. config \in Configs
    BY DEF S!TypeOK
  <2>3. ASSUME NEW a \in S!Reusable(r), S!Begun(a, agent[a], r, S!Target, S!Signature(r))
        PROVE  S!TypeOK' /\ S!SettingsInv'
    <3>1. /\ a \in TurnAgents /\ agent[a].signature = S!Signature(r) /\ agent[a].status \in S!Settled
      BY <1>2, <2>3 DEF S!Start, S!Reusable, S!Latest, S!Related
    <3>2. DOMAIN agent[a] = DOMAIN S!NoAgent
      BY <3>1 DEF S!TypeOK
    <3>3. ASSUME ~ agent[a].changed
          PROVE  S!Signature(r) =
            <<S!Model(S!Model(S!Resolved(r, S!Target).model, agent[a].model), profile.model),
              S!Effort(S!BegunEffort(agent[a], r, S!Target), profile.effort),
              S!Mode(r), profile.body>>
      <4>1. PICK p \in Profiles : /\ agent[a].signature[1] = S!Model(agent[a].model, p.model)
                                  /\ agent[a].signature[2] = S!Effort(agent[a].effort, p.effort)
        BY <3>1, <3>3 DEF S!SettingsInv, S!SignatureIsOfRow, S!FilledModel, S!FilledEffort
      <4>. QED
        BY <2>2, <3>1, <4>1, ReuseKeepsSettings
    <3>. QED
      BY <2>1, <2>3, <3>1, <3>2, <3>3, SettingsBegin
  <2>4. ASSUME NEW a \in TurnAgents, S!Begun(a, S!Created(r), r, S!Target, S!Signature(r))
        PROVE  S!TypeOK' /\ S!SettingsInv'
    <3>1. DOMAIN S!Created(r) = DOMAIN S!NoAgent
      BY DEF S!Created, S!NoAgent
    <3>. QED
      BY <2>1, <2>2, <2>4, <3>1, NewHasSettings, SettingsBegin
  <2>. QED
    BY <1>2, <2>3, <2>4 DEF S!Start
<1>3. ASSUME NEW a \in TurnAgents, NEW r \in Requests, S!Continue(a, r)
      PROVE  S!TypeOK' /\ S!SettingsInv'
  <2>1. DOMAIN agent[a] = DOMAIN S!NoAgent
    BY DEF S!TypeOK
  <2>2. /\ ~ S!Refuses(S!Model(S!Resolved(r, S!Target).model, agent[a].model))
        /\ S!Begun(a, agent[a], r, S!Target, <<>>)
    BY <1>3 DEF S!Continue
  <2>. QED
    BY <2>1, <2>2, SettingsBegin
<1>4. ASSUME NEW a \in TurnAgents, NEW r \in Requests, S!ContinueRefused(a, r)
      PROVE  S!TypeOK' /\ S!SettingsInv'
  <2>1. turn[a] = S!NoTurn
    BY <1>4 DEF S!ContinueRefused, S!TypeOK, S!Settled
  <2>2. /\ DOMAIN agent' = TurnAgents /\ DOMAIN agent'[a] = DOMAIN S!NoAgent
        /\ agent'[a].status = "stopped" /\ agent[a].status \in S!Settled
        /\ agent'[a].model = agent[a].model /\ agent'[a].effort = agent[a].effort
        /\ agent'[a].signature = agent[a].signature /\ agent'[a].changed = agent[a].changed
    BY <1>4 DEF S!ContinueRefused, S!TypeOK, S!NoAgent
  <2>3. S!SignatureIsOfRow(a)'
    BY <2>2 DEF S!SettingsInv, S!SignatureIsOfRow, S!FilledModel, S!FilledEffort
  <2>4. turn' = turn /\ config' = config /\ profile' = profile
        /\ \A b \in TurnAgents \ {a} : agent'[b] = agent[b]
    BY <1>4 DEF S!ContinueRefused, S!TypeOK
  <2>5. agent'[a].status \in S!Settled /\ DOMAIN turn' = TurnAgents
    BY <2>2, <2>4 DEF S!Settled, S!TypeOK
  <2>. QED
    BY <2>1, <2>2, <2>3, <2>4, <2>5, SettingsEnd
<1>5. ASSUME NEW a \in TurnAgents, S!RunTurn(a) PROVE S!TypeOK' /\ S!SettingsInv'
  BY <1>5, SettingsRun
<1>6. ASSUME NEW a \in TurnAgents, S!Completes(a) PROVE S!TypeOK' /\ S!SettingsInv'
  <2>1. /\ DOMAIN agent' = TurnAgents /\ DOMAIN agent'[a] = DOMAIN S!NoAgent
        /\ agent'[a].status = "idle" /\ agent'[a].signature = turn[a].input
        /\ agent'[a].model = agent[a].model /\ agent'[a].effort = agent[a].effort
    BY <1>6 DEF S!Completes, S!TypeOK, S!NoAgent
  <2>2. S!SignatureIsOfRow(a)'
    <3>1. PICK p \in Profiles : turn[a].input = S!Filled(a, p)
      BY <1>6 DEF S!Completes, S!SettingsInv, S!InputIsFilled
    <3>2. turn[a].input[1] = S!FilledModel(a, p) /\ turn[a].input[2] = S!FilledEffort(a, p)
      BY <3>1 DEF S!Filled
    <3>. QED
      BY <2>1, <3>2 DEF S!SignatureIsOfRow, S!FilledModel, S!FilledEffort
  <2>3. /\ turn'[a] = S!NoTurn /\ DOMAIN turn' = TurnAgents /\ config' = config /\ profile' = profile
        /\ \A b \in TurnAgents \ {a} : agent'[b] = agent[b] /\ turn'[b] = turn[b]
    BY <1>6 DEF S!Completes, S!TypeOK
  <2>4. agent'[a].status \in S!Settled
    BY <2>1 DEF S!Settled
  <2>. QED
    BY <2>1, <2>2, <2>3, <2>4, SettingsEnd
<1>7. ASSUME NEW a \in TurnAgents, S!Fails(a) PROVE S!TypeOK' /\ S!SettingsInv'
  <2>1. /\ DOMAIN agent' = TurnAgents /\ DOMAIN agent'[a] = DOMAIN S!NoAgent
        /\ agent'[a].status = "error" /\ agent'[a].changed = TRUE
    BY <1>7 DEF S!Fails, S!TypeOK, S!NoAgent
  <2>2. /\ turn'[a] = S!NoTurn /\ DOMAIN turn' = TurnAgents /\ config' = config /\ profile' = profile
        /\ \A b \in TurnAgents \ {a} : agent'[b] = agent[b] /\ turn'[b] = turn[b]
    BY <1>7 DEF S!Fails, S!TypeOK
  <2>3. agent'[a].status \in S!Settled /\ S!SignatureIsOfRow(a)'
    BY <2>1 DEF S!Settled, S!SignatureIsOfRow
  <2>. QED
    BY <2>1, <2>2, <2>3, SettingsEnd
<1>8. ASSUME UNCHANGED S!vars PROVE S!TypeOK' /\ S!SettingsInv'
  <2>1. S!TypeOK'
    BY <1>8 DEF S!TypeOK, S!vars
  <2>. QED
    BY <1>8, <2>1, RowsStand DEF S!SettingsInv, S!vars
<1>. QED
  BY <1>1, <1>2, <1>3, <1>4, <1>5, <1>6, <1>7, <1>8 DEF S!Next

\* The inductive invariant: the row of an agent with a turn is limited, has the default of its
\* turn and fits what it was signed for; after a turn that completed it fits its signature.
THEOREM SettingsAreSound == ASSUME LimitsAreEfforts PROVE S!Spec => [](S!TypeOK /\ S!SettingsInv)
<1>1. S!Init => S!TypeOK /\ S!SettingsInv
  BY DEF S!Init, S!TypeOK, S!SettingsInv, S!RowIsOfTurn, S!InputIsFilled, S!SignatureIsOfRow,
     S!NoAgent, S!NoTurn, S!Settled
<1>. QED
  BY <1>1, SettingsStep, PTL DEF S!Spec

\* Whatever the owner configured, callers ask for and somebody writes into the profile between
\* two readings of it: no turn exceeds the limit of its model, a turn that asks for no effort has
\* the default of its own kind, and an agent that is used again does what the request was signed
\* for, unless the profile was edited or turns of it failed.
THEOREM TurnsHaveTheirSettings == ASSUME LimitsAreEfforts PROVE S!Spec => []S!SettingsAreOfTheTurn
<1>1. S!TypeOK /\ S!SettingsInv => S!SettingsAreOfTheTurn
  <2>. SUFFICES ASSUME S!TypeOK, S!SettingsInv, NEW a \in S!Runs
       PROVE  /\ turn[a].input[2] = S!Limited(turn[a].input[1], turn[a].input[2])
              /\ LET own == S!Resolved(turn[a].request, turn[a].defaults).effort
                 IN own # 0 => turn[a].input[2] = S!Limited(turn[a].input[1], own)
              /\ turn[a].signed # <<>> /\ ~ turn[a].edited /\ ~ turn[a].changed
                    => turn[a].input = turn[a].signed
    BY DEF S!SettingsAreOfTheTurn, S!LimitsHold, S!DefaultsAreOfTheTurn, S!ReuseIsCompatible
  <2>. DEFINE row == agent[a]   own == S!Resolved(turn[a].request, turn[a].defaults).effort
  <2>1. a \in TurnAgents /\ turn[a].step = "running" /\ turn[a] # S!NoTurn /\ config \in Configs
    BY DEF S!Runs, S!NoTurn, S!TypeOK
  <2>2. S!RowIsLimited(a) /\ S!RowHasDefault(a) /\ S!RowIsAsSigned(a)
    BY <2>1 DEF S!SettingsInv, S!RowIsOfTurn
  <2>3. PICK p \in Profiles : turn[a].input = S!Filled(a, p) /\ turn[a].edited = (turn[a].read # p)
    BY <2>1 DEF S!SettingsInv, S!InputIsFilled
  <2>4. /\ turn[a].input[1] = S!Model(row.model, p.model)
        /\ turn[a].input[2] = S!Effort(row.effort, p.effort)
    BY <2>3 DEF S!Filled, S!FilledModel, S!FilledEffort
  <2>5. /\ row.effort = S!Limited(row.model, row.effort)
        /\ own # 0 => row.effort = S!Limited(row.model, own)
    BY <2>2 DEF S!RowIsLimited, S!RowHasDefault
  <2>6. CASE row.model = NoModel
    <3>1. \A m : S!NoLimit(m)
      BY <2>2, <2>6, UnlimitedIsFree DEF S!RowIsLimited
    <3>2. \A m, e : S!Limited(m, e) = e
      BY <3>1 DEF S!Limited
    <3>3. own # 0 => turn[a].input[2] = own
      BY <2>4, <2>5, <3>2 DEF S!Effort
    <3>. QED
      BY <2>2, <2>3, <3>2, <3>3 DEF S!RowIsAsSigned
  <2>7. CASE row.model # NoModel
    <3>1. turn[a].input[1] = row.model
      BY <2>4, <2>7 DEF S!Model
    <3>2. turn[a].input[2] = S!Limited(row.model, turn[a].input[2])
      BY <2>1, <2>4, <2>5, LimitingSettles DEF S!Effort
    <3>3. own # 0 => turn[a].input[2] = S!Limited(row.model, own)
      <4>. HIDE DEF own
      <4>. QED
        BY <2>1, <2>4, <2>5, LimitingSettles DEF S!Effort
    <3>. QED
      BY <2>2, <2>3, <3>1, <3>2, <3>3 DEF S!RowIsAsSigned
  <2>. QED
    BY <2>6, <2>7
<1>. QED
  BY <1>1, SettingsAreSound, PTL

(***************************************************************************)
(* Registrations with the Codex Desktop (DesktopProjects).                 *)
(***************************************************************************)
LEMMA RegsCountingIsTheSame == \A x : J!Cardinality(x) = Cardinality(x)
BY DEF J!Cardinality, Cardinality

\* The one project of the Desktop that has the root.
LEMMA FoundIsOne ==
  ASSUME J!TypeOK, J!Found
  PROVE  \E d \in DOMAIN local : /\ J!Saving = {d} /\ local[d].project # 0
                                 /\ J!Catalog.client = d /\ J!Catalog.project = local[d].project
                                 /\ J!Catalog \in J!Catalogs
<1>1. IsFiniteSet(DOMAIN local) /\ J!Saving \subseteq DOMAIN local /\ DOMAIN local \subseteq Nat
  <2>1. DOMAIN local = 1..Len(local) /\ Len(local) \in Nat
    BY DEF J!TypeOK
  <2>. QED
    BY <2>1, FS_Interval DEF J!Saving
<1>2. IsFiniteSet(J!Saving)
  BY <1>1, FS_Subset
<1>3. PICK d : J!Saving = {d}
  BY <1>2, FS_Singleton, RegsCountingIsTheSame DEF J!Found
<1>. DEFINE c == CHOOSE x \in J!Saving : TRUE
<1>4. c = d
  BY <1>3
<1>5. J!Catalog = [client |-> c, project |-> local[c].project, pinned |-> {t \in Threads : pin[t] = c}]
  BY DEF J!Catalog
<1>. HIDE DEF c
<1>6. d \in DOMAIN local /\ local[d].project \in Nat /\ d \in Nat
  BY <1>1, <1>3 DEF J!TypeOK, J!LocalProjects
<1>7. J!Catalog \in J!Catalogs
  BY <1>4, <1>5, <1>6 DEF J!Catalogs
<1>. QED
  BY <1>3, <1>4, <1>5, <1>6, <1>7 DEF J!Found

LEMMA OneIsFoundStill ==
  ASSUME NEW d, J!Saving' = {d}, local'[d].project # 0
  PROVE  J!Found' /\ J!Catalog'.client = d /\ J!Catalog'.project = local'[d].project
<1>. DEFINE c == CHOOSE x \in J!Saving' : TRUE
<1>1. c = d
  OBVIOUS
<1>2. J!Catalog' = [client |-> c, project |-> local'[c].project, pinned |-> {t \in Threads : pin'[t] = c}]
  BY DEF J!Catalog
<1>. HIDE DEF c
<1>3. J!Catalog'.client = d /\ J!Catalog'.project = local'[d].project
  BY <1>1, <1>2
<1>4. J!Cardinality(J!Saving') = 1
  BY FS_Singleton, RegsCountingIsTheSame
<1>. QED
  BY <1>3, <1>4 DEF J!Found

Takes(n) ==
  \/ n.before \in {0, n.catalog.project}
  \/ n.thread \in n.catalog.pinned /\ n.before \in n.matches
IsThere(n) == n.thread \in {NoThread} \union late \/ owner[n.thread] = n.catalog.project
Knowing == J!Steps \ {"idle", "ensure", "opened", "partial"}

\* One registration goes on, and nothing else.
LEMMA RegistrationGoesOn ==
  ASSUME J!RegistrationInv, NEW r \in Regs, NEW n \in J!Registrations, reg' = [reg EXCEPT ![r] = n],
         UNCHANGED <<saved, local, owner, pin, moves, late, changes>>, drafts' \in Nat,
         n.since <= changes,
         n.step \in Knowing /\ n.since = changes =>
            J!Found /\ J!Catalog.client = n.catalog.client /\ J!Catalog.project = n.catalog.project,
         n.step \in {"recheck", "update", "readback"} => n.thread # NoThread,
         n.step \in {"project", "recheck", "update"} /\ n.thread # NoThread => Takes(n),
         n.step = "update" => /\ n.seen <= moves[n.thread]
                              /\ moves[n.thread] = n.seen => owner[n.thread] = n.before,
         n.step \in {"verify", "persisted"} /\ n.since = changes => IsThere(n)
  PROVE  J!RegistrationInv'
<1>1. /\ J!TypeOK /\ J!BeginBeforeNow /\ J!CatalogIsCurrent /\ J!ThreadsAreKnown /\ J!ThreadsAreThere
  BY DEF J!RegistrationInv
<1>2. /\ reg' \in [Regs -> J!Registrations] /\ reg'[r] = n /\ \A q \in Regs : q # r => reg'[q] = reg[q]
  BY <1>1 DEF J!TypeOK
<1>3. J!TypeOK'
  BY <1>1, <1>2 DEF J!TypeOK
<1>4. J!BeginBeforeNow'
  BY <1>1, <1>2 DEF J!BeginBeforeNow
<1>5. J!CatalogIsCurrent'
  <2>1. J!Found' = J!Found /\ J!Catalog' = J!Catalog
    BY DEF J!Found, J!Catalog, J!Saving, J!Cardinality
  <2>. QED
    BY <1>1, <1>2, <2>1 DEF J!CatalogIsCurrent, J!KnowsCatalog, Knowing
<1>6. J!ThreadsAreKnown'
  BY <1>1, <1>2 DEF J!ThreadsAreKnown, J!HasThread, J!MayTake, Takes
<1>7. J!ThreadsAreThere'
  BY <1>1, <1>2 DEF J!ThreadsAreThere, IsThere
<1>. QED
  BY <1>3, <1>4, <1>5, <1>6, <1>7 DEF J!RegistrationInv

LEMMA GoesIsTyped ==
  ASSUME NEW u \in J!Registrations, NEW s \in J!Steps
  PROVE  LET n == [u EXCEPT !.step = s] IN
         /\ n \in J!Registrations /\ n.step = s /\ n.since = u.since /\ n.thread = u.thread /\ n.catalog = u.catalog
         /\ n.matches = u.matches /\ n.before = u.before /\ n.seen = u.seen /\ n.tries = u.tries
BY DEF J!Registrations

LEMMA RegistrationIsTyped ==
  ASSUME J!TypeOK, NEW r \in Regs
  PROVE  /\ reg[r] \in J!Registrations /\ reg[r].step \in J!Steps /\ reg[r].tries \in Nat /\ reg[r].since \in Nat
         /\ reg[r].thread \in Threads \union {NoThread} /\ reg[r].catalog \in J!Catalogs
         /\ reg[r].catalog.project \in Nat /\ reg[r].seen \in Nat /\ reg[r].before \in Nat
<1>1. reg[r] \in J!Registrations
  BY DEF J!TypeOK
<1>. QED
  BY <1>1 DEF J!Registrations, J!Catalogs

\* A registration that has its own step only changed.
LEMMA RegistrationSteps ==
  ASSUME J!RegistrationInv, NEW r \in Regs, NEW s \in J!Steps, J!Goes(r, s),
         UNCHANGED <<saved, local, owner, pin, moves, late, changes>>, drafts' \in Nat,
         s \in Knowing => reg[r].step \in Knowing,
         s \in {"recheck", "update", "readback"} => reg[r].thread # NoThread,
         s \in {"project", "recheck"} /\ reg[r].thread # NoThread => Takes(reg[r]),
         s # "update", s \in {"verify", "persisted"} /\ reg[r].since = changes => IsThere(reg[r])
  PROVE  J!RegistrationInv'
<1>. DEFINE n == [reg[r] EXCEPT !.step = s]
<1>1. /\ J!TypeOK /\ J!BeginBeforeNow /\ J!CatalogIsCurrent
  BY DEF J!RegistrationInv
<1>2. reg[r] \in J!Registrations
  BY <1>1, RegistrationIsTyped
<1>3. reg' = [reg EXCEPT ![r] = n]
  BY DEF J!Goes, J!Becomes
<1>4. /\ n \in J!Registrations /\ n.step = s /\ n.since = reg[r].since /\ n.thread = reg[r].thread
      /\ n.catalog = reg[r].catalog /\ n.matches = reg[r].matches /\ n.before = reg[r].before
  BY <1>2, GoesIsTyped
<1>. HIDE DEF n
<1>5. Takes(reg[r]) <=> Takes(n)
  BY <1>4 DEF Takes
<1>6. IsThere(reg[r]) <=> IsThere(n)
  BY <1>4 DEF IsThere
<1>7. n.step \in Knowing /\ n.since = changes =>
         J!Found /\ J!Catalog.client = n.catalog.client /\ J!Catalog.project = n.catalog.project
  BY <1>1, <1>4 DEF J!CatalogIsCurrent, J!KnowsCatalog, Knowing
<1>8. n.since <= changes
  BY <1>1, <1>4 DEF J!BeginBeforeNow
<1>. QED
  BY <1>3, <1>4, <1>5, <1>6, <1>7, <1>8, RegistrationGoesOn

LEMMA RegistrationIsPartial ==
  ASSUME J!RegistrationInv, NEW r \in Regs, J!Partial(r),
         UNCHANGED <<saved, local, owner, pin, moves, late, changes>>, drafts' \in Nat
  PROVE  J!RegistrationInv'
BY RegistrationSteps DEF J!Partial, J!Steps, Knowing

LEMMA RegistrationStarts ==
  ASSUME J!RegistrationInv, NEW r \in Regs, NEW t \in Threads \union {NoThread}, J!Start(r, t)
  PROVE  J!RegistrationInv'
<1>. DEFINE k == reg[r].tries + 1
            n == [J!Fresh EXCEPT !.step = "ensure", !.tries = k, !.since = changes, !.thread = t]
<1>1. J!TypeOK
  BY DEF J!RegistrationInv
<1>2. /\ reg' = [reg EXCEPT ![r] = n]
      /\ UNCHANGED <<saved, local, owner, pin, moves, late, changes, drafts>>
  BY DEF J!Start, J!Becomes, J!Others
<1>3. k \in Nat /\ changes \in Nat /\ drafts \in Nat
  BY <1>1, RegistrationIsTyped DEF J!TypeOK
<1>. HIDE DEF k
<1>4. n \in J!Registrations /\ n.step = "ensure" /\ n.since = changes
  BY <1>3 DEF J!Fresh, J!NoCatalog, J!Registrations, J!Steps, J!Catalogs
<1>. HIDE DEF n
<1>5. /\ n.step \notin Knowing \union {"recheck", "update", "readback", "project", "verify", "persisted"}
      /\ n.step # "update" /\ n.since <= changes /\ drafts' \in Nat
  BY <1>2, <1>3, <1>4 DEF Knowing
<1>. QED
  BY <1>2, <1>4, <1>5, RegistrationGoesOn

LEMMA CatalogIsRead ==
  ASSUME J!RegistrationInv, NEW r \in Regs, J!ReadsCatalog(r) \/ J!GivesUp(r) \/ J!ConnectionFails(r)
  PROVE  J!RegistrationInv'
<1>1. J!TypeOK /\ J!BeginBeforeNow
  BY DEF J!RegistrationInv
<1>2. drafts \in Nat /\ UNCHANGED <<saved, local, owner, pin, moves, late, changes>>
  BY <1>1 DEF J!TypeOK, J!ReadsCatalog, J!GivesUp, J!ConnectionFails, J!Others
<1>3. CASE J!Partial(r) /\ UNCHANGED drafts
  BY <1>2, <1>3, RegistrationIsPartial
<1>4. CASE J!Goes(r, "opened") /\ drafts' = drafts + 1
  BY <1>2, <1>4, RegistrationSteps DEF J!Steps, Knowing
<1>5. CASE J!Found /\ J!Becomes(r, [reg[r] EXCEPT !.step = "list", !.catalog = J!Catalog]) /\ UNCHANGED drafts
  <2>. DEFINE c == J!Catalog
              n == [reg[r] EXCEPT !.step = "list", !.catalog = c]
  <2>1. c \in J!Catalogs
    BY <1>1, <1>5, FoundIsOne
  <2>2. reg[r] \in J!Registrations /\ reg[r].since <= changes
    BY <1>1, RegistrationIsTyped DEF J!BeginBeforeNow
  <2>3. reg' = [reg EXCEPT ![r] = n]
    BY <1>5 DEF J!Becomes
  <2>. HIDE DEF c
  <2>4. n \in J!Registrations /\ n.step = "list" /\ n.since = reg[r].since /\ n.catalog = c
    BY <2>1, <2>2 DEF J!Registrations, J!Steps
  <2>. HIDE DEF n
  <2>5. J!Catalog.client = n.catalog.client /\ J!Catalog.project = n.catalog.project
    BY <2>4 DEF c
  <2>. QED
    BY <1>2, <1>5, <2>2, <2>3, <2>4, <2>5, RegistrationGoesOn
<1>. QED
  BY <1>3, <1>4, <1>5 DEF J!ReadsCatalog, J!GivesUp, J!ConnectionFails

LEMMA ProjectsAreListed ==
  ASSUME J!RegistrationInv, NEW r \in Regs, J!Lists(r)
  PROVE  J!RegistrationInv'
<1>. DEFINE project == reg[r].catalog.project
            m == {p \in DOMAIN saved : saved[p].holds}
            v == saved[project].version
            n == [reg[r] EXCEPT !.step = "thread", !.matches = m, !.roots = v]
<1>1. J!TypeOK /\ J!BeginBeforeNow /\ J!CatalogIsCurrent
  BY DEF J!RegistrationInv
<1>2. /\ reg[r].step = "list" /\ drafts \in Nat
      /\ UNCHANGED <<saved, local, owner, pin, moves, late, changes, drafts>>
  BY <1>1 DEF J!Lists, J!Others, J!TypeOK
<1>3. CASE project \notin m
  <2>1. J!Partial(r)
    BY <1>3 DEF J!Lists
  <2>. QED
    BY <1>2, <2>1, RegistrationIsPartial
<1>4. CASE project \in m
  <2>1. reg' = [reg EXCEPT ![r] = n]
    BY <1>4 DEF J!Lists, J!Becomes
  <2>2. m \in SUBSET Nat /\ v \in Nat
    <3>1. saved \in Seq(J!SavedProjects) /\ project \in DOMAIN saved
      BY <1>1, <1>4 DEF J!TypeOK
    <3>2. saved[project] \in J!SavedProjects /\ DOMAIN saved = 1..Len(saved) /\ Len(saved) \in Nat
      BY <3>1
    <3>. QED
      BY <3>2 DEF J!SavedProjects
  <2>3. reg[r] \in J!Registrations /\ reg[r].since <= changes
    BY <1>1, RegistrationIsTyped DEF J!BeginBeforeNow
  <2>. HIDE DEF m, v
  <2>4. n \in J!Registrations /\ n.step = "thread" /\ n.since = reg[r].since /\ n.catalog = reg[r].catalog
    BY <2>2, <2>3 DEF J!Registrations, J!Steps
  <2>. HIDE DEF n
  <2>5. n.since = changes => J!Found /\ J!Catalog.client = n.catalog.client /\ J!Catalog.project = n.catalog.project
    BY <1>1, <1>2, <2>4 DEF J!CatalogIsCurrent, J!KnowsCatalog, J!Steps
  <2>. QED
    BY <1>2, <2>1, <2>3, <2>4, <2>5, RegistrationGoesOn
<1>. QED
  BY <1>3, <1>4

LEMMA ThreadIsRead ==
  ASSUME J!RegistrationInv, NEW r \in Regs, J!ReadsThread(r)
  PROVE  J!RegistrationInv'
<1>. DEFINE t == reg[r].thread
            b == owner[t]
            n == [reg[r] EXCEPT !.step = "project", !.before = b]
<1>1. J!TypeOK /\ J!BeginBeforeNow /\ J!CatalogIsCurrent
  BY DEF J!RegistrationInv
<1>2. /\ reg[r].step = "thread" /\ drafts \in Nat
      /\ UNCHANGED <<saved, local, owner, pin, moves, late, changes, drafts>>
  BY <1>1 DEF J!ReadsThread, J!Others, J!TypeOK
<1>3. CASE t = NoThread
  <2>1. J!Goes(r, "project")
    BY <1>3 DEF J!ReadsThread
  <2>. QED
    BY <1>2, <1>3, <2>1, RegistrationSteps DEF J!Steps, Knowing
<1>4. CASE t # NoThread /\ ~ J!MayMove(r, t)
  <2>1. J!Partial(r)
    BY <1>4 DEF J!ReadsThread
  <2>. QED
    BY <1>2, <2>1, RegistrationIsPartial
<1>5. CASE t # NoThread /\ J!MayMove(r, t)
  <2>1. reg' = [reg EXCEPT ![r] = n]
    BY <1>5 DEF J!ReadsThread, J!Becomes
  <2>2. reg[r] \in J!Registrations /\ reg[r].since <= changes /\ b \in Nat
    BY <1>1, <1>5, RegistrationIsTyped DEF J!BeginBeforeNow, J!TypeOK
  <2>3. \/ b \in {0, reg[r].catalog.project}
        \/ t \in reg[r].catalog.pinned /\ b \in reg[r].matches
    BY <1>5 DEF J!MayMove
  <2>. HIDE DEF b
  <2>4. /\ n \in J!Registrations /\ n.step = "project" /\ n.since = reg[r].since /\ n.catalog = reg[r].catalog
        /\ n.before = b /\ n.thread = t /\ n.matches = reg[r].matches
    BY <2>2 DEF J!Registrations, J!Steps
  <2>. HIDE DEF n
  <2>5. n.since = changes => J!Found /\ J!Catalog.client = n.catalog.client /\ J!Catalog.project = n.catalog.project
    BY <1>1, <1>2, <2>4 DEF J!CatalogIsCurrent, J!KnowsCatalog, J!Steps
  <2>6. Takes(n)
    BY <2>3, <2>4 DEF Takes
  <2>. QED
    BY <1>2, <2>1, <2>2, <2>4, <2>5, <2>6, RegistrationGoesOn
<1>. QED
  BY <1>3, <1>4, <1>5

LEMMA ProjectIsRead ==
  ASSUME J!RegistrationInv, NEW r \in Regs, J!ReadsProject(r)
  PROVE  J!RegistrationInv'
<1>1. J!TypeOK /\ J!ThreadsAreKnown
  BY DEF J!RegistrationInv
<1>2. /\ reg[r].step = "project" /\ drafts \in Nat
      /\ UNCHANGED <<saved, local, owner, pin, moves, late, changes, drafts>>
  BY <1>1 DEF J!ReadsProject, J!Others, J!TypeOK
<1>3. CASE J!Partial(r)
  BY <1>2, <1>3, RegistrationIsPartial
<1>4. CASE reg[r].thread = NoThread /\ J!Goes(r, "verify")
  BY <1>2, <1>4, RegistrationSteps DEF J!Steps, Knowing, IsThere
<1>5. CASE reg[r].thread # NoThread /\ J!Goes(r, "recheck")
  <2>1. Takes(reg[r])
    BY <1>1, <1>2, <1>5 DEF J!ThreadsAreKnown, J!MayTake, Takes
  <2>. QED
    BY <1>2, <1>5, <2>1, RegistrationSteps DEF J!Steps, Knowing
<1>. QED
  BY <1>3, <1>4, <1>5 DEF J!ReadsProject

LEMMA ThreadIsRechecked ==
  ASSUME J!RegistrationInv, NEW r \in Regs, J!Rechecks(r)
  PROVE  J!RegistrationInv'
<1>. DEFINE t == reg[r].thread
            k == moves[t]
            n == [reg[r] EXCEPT !.step = "update", !.seen = k]
<1>1. J!TypeOK /\ J!BeginBeforeNow /\ J!CatalogIsCurrent /\ J!ThreadsAreKnown
  BY DEF J!RegistrationInv
<1>2. /\ reg[r].step = "recheck" /\ drafts \in Nat /\ t # NoThread
      /\ UNCHANGED <<saved, local, owner, pin, moves, late, changes, drafts>>
  BY <1>1 DEF J!Rechecks, J!Others, J!TypeOK, J!ThreadsAreKnown, J!HasThread
<1>3. CASE J!Partial(r)
  BY <1>2, <1>3, RegistrationIsPartial
<1>4. CASE J!Goes(r, "readback")
  BY <1>2, <1>4, RegistrationSteps DEF J!Steps, Knowing
<1>5. CASE owner[t] = reg[r].before /\ J!Becomes(r, n)
  <2>1. reg' = [reg EXCEPT ![r] = n]
    BY <1>5 DEF J!Becomes
  <2>2. reg[r] \in J!Registrations /\ reg[r].since <= changes /\ k \in Nat
    BY <1>1, <1>2, RegistrationIsTyped DEF J!BeginBeforeNow, J!TypeOK
  <2>3. Takes(reg[r])
    BY <1>1, <1>2 DEF J!ThreadsAreKnown, J!MayTake, Takes
  <2>4. moves[t] = k
    OBVIOUS
  <2>. HIDE DEF k
  <2>5. /\ n \in J!Registrations /\ n.step = "update" /\ n.since = reg[r].since /\ n.catalog = reg[r].catalog
        /\ n.before = reg[r].before /\ n.thread = t /\ n.matches = reg[r].matches /\ n.seen = k
    BY <2>2 DEF J!Registrations, J!Steps
  <2>. HIDE DEF n
  <2>6. n.since = changes => J!Found /\ J!Catalog.client = n.catalog.client /\ J!Catalog.project = n.catalog.project
    BY <1>1, <1>2, <2>5 DEF J!CatalogIsCurrent, J!KnowsCatalog, J!Steps
  <2>7. Takes(n)
    BY <2>3, <2>5 DEF Takes
  <2>8. n.seen <= moves[n.thread] /\ owner[n.thread] = n.before /\ n.thread # NoThread /\ n.since <= changes
    BY <1>2, <1>5, <2>2, <2>4, <2>5
  <2>. QED
    BY <1>2, <2>1, <2>5, <2>6, <2>7, <2>8, RegistrationGoesOn
<1>. QED
  BY <1>3, <1>4, <1>5 DEF J!Rechecks

LEMMA ThreadIsVerified ==
  ASSUME J!RegistrationInv, NEW r \in Regs, J!ReadsBack(r) \/ J!Verifies(r)
  PROVE  J!RegistrationInv'
<1>1. J!TypeOK /\ J!ThreadsAreThere
  BY DEF J!RegistrationInv
<1>2. /\ drafts \in Nat /\ reg[r].step \in {"readback", "verify"}
      /\ UNCHANGED <<saved, local, owner, pin, moves, late, changes, drafts>>
  BY <1>1 DEF J!ReadsBack, J!Verifies, J!Others, J!TypeOK
<1>3. CASE J!Partial(r)
  BY <1>2, <1>3, RegistrationIsPartial
<1>4. CASE owner[reg[r].thread] = reg[r].catalog.project /\ J!Goes(r, "verify")
  <2>1. IsThere(reg[r])
    BY <1>4 DEF IsThere
  <2>. QED
    BY <1>2, <1>4, <2>1, RegistrationSteps DEF J!Steps, Knowing
<1>5. CASE reg[r].step = "verify" /\ J!Goes(r, "persisted")
  <2>1. reg[r].since = changes => IsThere(reg[r])
    BY <1>1, <1>5 DEF J!ThreadsAreThere, IsThere
  <2>. QED
    BY <1>2, <1>5, <2>1, RegistrationSteps DEF J!Steps, Knowing
<1>. QED
  BY <1>3, <1>4, <1>5 DEF J!ReadsBack, J!Verifies

LEMMA CatalogStays ==
  ASSUME UNCHANGED <<local, pin>>
  PROVE  J!Found' = J!Found /\ J!Catalog' = J!Catalog
BY DEF J!Found, J!Catalog, J!Saving, J!Cardinality

LEMMA ThreadIsMoved ==
  ASSUME J!RegistrationInv, NEW r \in Regs, J!Updates(r)
  PROVE  J!RegistrationInv'
<1>. DEFINE t == reg[r].thread
            p == reg[r].catalog.project
<1>1. /\ J!TypeOK /\ J!BeginBeforeNow /\ J!CatalogIsCurrent /\ J!ThreadsAreKnown /\ J!ThreadsAreThere
  BY DEF J!RegistrationInv
<1>2. /\ reg[r].step = "update" /\ drafts \in Nat /\ UNCHANGED <<saved, local, pin, changes, drafts>>
      /\ t # NoThread /\ t \in Threads /\ p \in Nat /\ reg[r] \in J!Registrations
  BY <1>1, RegistrationIsTyped DEF J!Updates, J!Others, J!TypeOK, J!ThreadsAreKnown, J!HasThread
<1>3. CASE J!Partial(r) /\ UNCHANGED <<owner, moves, late>>
  BY <1>2, <1>3, RegistrationIsPartial
<1>4. CASE /\ owner' = [owner EXCEPT ![t] = p] /\ moves' = [moves EXCEPT ![t] = moves[t] + 1]
           /\ late' = IF reg[r].since = changes THEN late ELSE late \union {t}
           /\ \E s \in {"readback", "partial"} : J!Goes(r, s)
  <2>1. PICK s \in {"readback", "partial"} : J!Goes(r, s)
    BY <1>4
  <2>. DEFINE n == [reg[r] EXCEPT !.step = s]
  <2>2. reg' = [reg EXCEPT ![r] = n]
    BY <2>1 DEF J!Goes, J!Becomes
  <2>3. /\ n \in J!Registrations /\ n.step \in {"readback", "partial"} /\ n.since = reg[r].since /\ n.thread = t
        /\ n.catalog = reg[r].catalog
    <3>1. s \in J!Steps
      BY DEF J!Steps
    <3>. QED
      BY <1>2, <3>1, GoesIsTyped
  <2>. HIDE DEF n
  <2>4. /\ reg' \in [Regs -> J!Registrations] /\ reg'[r] = n /\ \A q \in Regs : q # r => reg'[q] = reg[q]
    BY <1>1, <2>2, <2>3 DEF J!TypeOK
  <2>. HIDE DEF t, p
  <2>5. /\ owner' \in [Threads -> Nat] /\ moves' \in [Threads -> Nat] /\ late' \subseteq Threads /\ late \subseteq late'
        /\ owner'[t] = p /\ moves'[t] = moves[t] + 1 /\ moves[t] \in Nat
        /\ \A x \in Threads : x # t => owner'[x] = owner[x] /\ moves'[x] = moves[x]
        /\ reg[r].since # changes => t \in late'
    BY <1>1, <1>2, <1>4 DEF J!TypeOK
  <2>6. J!TypeOK'
    BY <1>1, <1>2, <2>4, <2>5 DEF J!TypeOK
  <2>7. J!BeginBeforeNow'
    BY <1>1, <1>2, <2>3, <2>4 DEF J!BeginBeforeNow
  <2>8. J!CatalogIsCurrent'
    <3>1. J!Found' = J!Found /\ J!Catalog' = J!Catalog
      BY <1>2, CatalogStays
    <3>. QED
      BY <1>1, <1>2, <2>3, <2>4, <3>1 DEF J!CatalogIsCurrent, J!KnowsCatalog, J!Steps
  <2>9. J!ThreadsAreKnown'
    <3>. SUFFICES ASSUME NEW q \in Regs
         PROVE /\ J!HasThread(q)' => reg'[q].thread # NoThread
               /\ reg'[q].step \in {"project", "recheck", "update"} /\ reg'[q].thread # NoThread => J!MayTake(q)'
               /\ reg'[q].step = "update" =>
                    /\ reg'[q].seen <= moves'[reg'[q].thread]
                    /\ moves'[reg'[q].thread] = reg'[q].seen => owner'[reg'[q].thread] = reg'[q].before
      BY DEF J!ThreadsAreKnown
    <3>1. CASE q = r
      BY <1>2, <2>3, <2>4, <3>1 DEF t, J!HasThread
    <3>2. CASE q # r
      <4>1. reg'[q] = reg[q]
        BY <2>4, <3>2
      <4>2. J!HasThread(q)' = J!HasThread(q) /\ J!MayTake(q)' = J!MayTake(q)
        BY <4>1 DEF J!HasThread, J!MayTake
      <4>3. /\ reg[q].step = "update" => reg[q].thread \in Threads
            /\ reg[q].seen \in Nat
        BY <1>1, RegistrationIsTyped DEF J!ThreadsAreKnown, J!HasThread
      <4>. QED
        BY <1>1, <2>5, <4>1, <4>2, <4>3 DEF J!ThreadsAreKnown
    <3>. QED
      BY <3>1, <3>2
  <2>10. J!ThreadsAreThere'
    <3>. SUFFICES ASSUME NEW q \in Regs, reg'[q].step \in {"verify", "persisted"}, reg'[q].since = changes
         PROVE reg'[q].thread \in {NoThread} \union late' \/ owner'[reg'[q].thread] = reg'[q].catalog.project
      BY <1>2 DEF J!ThreadsAreThere
    <3>1. reg'[q] = reg[q]
      BY <2>3, <2>4
    <3>2. reg[r].since = changes => reg[q].catalog.project = p
      BY <1>1, <1>2, <3>1 DEF J!CatalogIsCurrent, J!KnowsCatalog, J!Steps, p
    <3>3. reg[q].thread \in {NoThread} \union late \/ owner[reg[q].thread] = reg[q].catalog.project
      BY <1>1, <3>1 DEF J!ThreadsAreThere
    <3>4. reg[q].thread \in Threads \union {NoThread}
      BY <1>1, RegistrationIsTyped
    <3>. QED
      BY <2>5, <3>1, <3>2, <3>3, <3>4
  <2>. QED
    BY <2>6, <2>7, <2>8, <2>9, <2>10 DEF J!RegistrationInv
<1>. QED
  BY <1>1, <1>3, <1>4 DEF J!Updates, J!TypeOK

\* The Desktop's user changes something: what was read before is out of date.
LEMMA ChangeComes ==
  ASSUME J!RegistrationInv, changes' = changes + 1, late' = {}, UNCHANGED reg, drafts' \in Nat,
         saved' \in Seq(J!SavedProjects), local' \in Seq(J!LocalProjects),
         \A c \in DOMAIN local' : local'[c].project \in {0} \union DOMAIN saved',
         owner' \in [Threads -> Nat], pin' \in [Threads -> Nat], moves' \in [Threads -> Nat],
         \A t \in Threads : moves'[t] >= moves[t] /\ (moves'[t] = moves[t] => owner'[t] = owner[t])
  PROVE  J!RegistrationInv'
<1>1. /\ J!TypeOK /\ J!BeginBeforeNow /\ J!ThreadsAreKnown
  BY DEF J!RegistrationInv
<1>2. changes \in Nat /\ moves \in [Threads -> Nat]
  BY <1>1 DEF J!TypeOK
<1>3. \A r \in Regs : reg[r].since \in Nat /\ reg[r].since <= changes /\ reg[r].since # changes'
  BY <1>1, <1>2, RegistrationIsTyped DEF J!BeginBeforeNow
<1>4. J!TypeOK'
  BY <1>1, <1>2 DEF J!TypeOK
<1>5. J!BeginBeforeNow'
  BY <1>2, <1>3 DEF J!BeginBeforeNow
<1>6. J!CatalogIsCurrent' /\ J!ThreadsAreThere'
  BY <1>3 DEF J!CatalogIsCurrent, J!ThreadsAreThere
<1>7. J!ThreadsAreKnown'
  <2>. SUFFICES ASSUME NEW q \in Regs
       PROVE /\ J!HasThread(q)' => reg'[q].thread # NoThread
             /\ reg'[q].step \in {"project", "recheck", "update"} /\ reg'[q].thread # NoThread => J!MayTake(q)'
             /\ reg'[q].step = "update" =>
                  /\ reg'[q].seen <= moves'[reg'[q].thread]
                  /\ moves'[reg'[q].thread] = reg'[q].seen => owner'[reg'[q].thread] = reg'[q].before
    BY DEF J!ThreadsAreKnown
  <2>1. J!HasThread(q)' = J!HasThread(q) /\ J!MayTake(q)' = J!MayTake(q)
    BY DEF J!HasThread, J!MayTake
  <2>2. /\ reg[q].step = "update" => reg[q].thread \in Threads
        /\ reg[q].seen \in Nat
    BY <1>1, RegistrationIsTyped DEF J!ThreadsAreKnown, J!HasThread
  <2>3. /\ J!HasThread(q) => reg[q].thread # NoThread
        /\ reg[q].step \in {"project", "recheck", "update"} /\ reg[q].thread # NoThread => J!MayTake(q)
        /\ reg[q].step = "update" =>
             /\ reg[q].seen <= moves[reg[q].thread]
             /\ moves[reg[q].thread] = reg[q].seen => owner[reg[q].thread] = reg[q].before
    BY <1>1 DEF J!ThreadsAreKnown
  <2>4. ASSUME reg[q].step = "update"
        PROVE  /\ reg[q].seen <= moves'[reg[q].thread]
               /\ moves'[reg[q].thread] = reg[q].seen => owner'[reg[q].thread] = reg[q].before
    <3>. DEFINE t == reg[q].thread
    <3>1. t \in Threads /\ reg[q].seen \in Nat /\ moves[t] \in Nat /\ moves'[t] \in Nat
      BY <1>2, <2>2, <2>4
    <3>2. moves'[t] >= moves[t] /\ (moves'[t] = moves[t] => owner'[t] = owner[t])
      BY <3>1
    <3>3. reg[q].seen <= moves[t] /\ (moves[t] = reg[q].seen => owner[t] = reg[q].before)
      BY <2>3, <2>4
    <3>. HIDE DEF t
    <3>4. reg[q].seen <= moves'[t] /\ (moves'[t] = reg[q].seen => owner'[t] = reg[q].before)
      BY <3>1, <3>2, <3>3
    <3>. QED
      BY <3>4 DEF t
  <2>. QED
    BY <2>1, <2>3, <2>4
<1>. QED
  BY <1>4, <1>5, <1>6, <1>7 DEF J!RegistrationInv

\* The Desktop does something, and the project it showed is the one it shows.
LEMMA DesktopWorks ==
  ASSUME J!RegistrationInv, UNCHANGED <<owner, pin, moves, late, changes, reg>>, drafts' \in Nat,
         saved' \in Seq(J!SavedProjects), local' \in Seq(J!LocalProjects),
         \A c \in DOMAIN local' : local'[c].project \in {0} \union DOMAIN saved',
         J!Found => J!Found' /\ J!Catalog'.client = J!Catalog.client /\ J!Catalog'.project = J!Catalog.project
  PROVE  J!RegistrationInv'
<1>1. /\ J!TypeOK /\ J!BeginBeforeNow /\ J!CatalogIsCurrent /\ J!ThreadsAreKnown /\ J!ThreadsAreThere
  BY DEF J!RegistrationInv
<1>2. J!TypeOK' /\ J!BeginBeforeNow'
  BY <1>1 DEF J!TypeOK, J!BeginBeforeNow
<1>3. J!CatalogIsCurrent'
  BY <1>1 DEF J!CatalogIsCurrent, J!KnowsCatalog
<1>4. J!ThreadsAreKnown' /\ J!ThreadsAreThere'
  BY <1>1 DEF J!ThreadsAreKnown, J!ThreadsAreThere, J!HasThread, J!MayTake
<1>. QED
  BY <1>1, <1>2, <1>3, <1>4 DEF J!RegistrationInv

LEMMA ClientIsAdded ==
  ASSUME J!TypeOK, local' = Append(local, [holds |-> TRUE, project |-> 0]), UNCHANGED saved
  PROVE  /\ local' \in Seq(J!LocalProjects)
         /\ \A c \in DOMAIN local' : local'[c].project \in {0} \union DOMAIN saved'
<1>. DEFINE e == [holds |-> TRUE, project |-> 0]
<1>1. e \in J!LocalProjects /\ e.project = 0
  BY DEF J!LocalProjects
<1>2. local \in Seq(J!LocalProjects) /\ \A c \in DOMAIN local : local[c].project \in {0} \union DOMAIN saved
  BY DEF J!TypeOK
<1>. HIDE DEF e
<1>3. /\ local' \in Seq(J!LocalProjects) /\ DOMAIN local' = (DOMAIN local) \union {Len(local) + 1}
      /\ local'[Len(local) + 1] = e /\ \A c \in DOMAIN local : local'[c] = local[c]
  BY <1>1, <1>2 DEF e
<1>. QED
  BY <1>1, <1>2, <1>3

LEMMA ProjectIsAdded ==
  ASSUME J!TypeOK, NEW h \in BOOLEAN, saved' = Append(saved, [holds |-> h, version |-> 0])
  PROVE  saved' \in Seq(J!SavedProjects) /\ DOMAIN saved' = (DOMAIN saved) \union {Len(saved) + 1}
<1>. DEFINE e == [holds |-> h, version |-> 0]
<1>1. e \in J!SavedProjects
  BY DEF J!SavedProjects
<1>2. saved \in Seq(J!SavedProjects)
  BY DEF J!TypeOK
<1>. HIDE DEF e
<1>. QED
  BY <1>1, <1>2 DEF e

\* What a project of the Desktop becomes.
LEMMA ClientIsMapped ==
  ASSUME NEW s \in Seq(J!LocalProjects), NEW c \in DOMAIN s, NEW p \in Nat
  PROVE  LET u == [s[c] EXCEPT !.project = p] IN
         /\ [s EXCEPT ![c].project = p] = [s EXCEPT ![c] = u]
         /\ u \in J!LocalProjects /\ u.project = p /\ u.holds = s[c].holds
<1>1. s[c] \in J!LocalProjects
  OBVIOUS
<1>. QED
  BY <1>1 DEF J!LocalProjects

LEMMA ClientIsDropped ==
  ASSUME NEW s \in Seq(J!LocalProjects), NEW c \in DOMAIN s
  PROVE  LET v == [s[c] EXCEPT !.holds = FALSE] IN
         /\ [s EXCEPT ![c].holds = FALSE] = [s EXCEPT ![c] = v]
         /\ v \in J!LocalProjects /\ v.project = s[c].project
<1>1. s[c] \in J!LocalProjects
  OBVIOUS
<1>. QED
  BY <1>1 DEF J!LocalProjects

LEMMA DraftIsOpened ==
  ASSUME J!RegistrationInv, J!OpensDraft
  PROVE  J!RegistrationInv'
<1>1. J!TypeOK
  BY DEF J!RegistrationInv
<1>2. /\ UNCHANGED <<saved, owner, pin, moves, late, changes, reg>> /\ drafts' \in Nat
      /\ saved \in Seq(J!SavedProjects) /\ local \in Seq(J!LocalProjects)
      /\ \A c \in DOMAIN local : local[c].project \in {0} \union DOMAIN saved
  BY <1>1 DEF J!OpensDraft, J!TypeOK
<1>3. CASE J!Saving # {}
  <2>1. local' = local
    BY <1>3 DEF J!OpensDraft
  <2>2. J!Found' = J!Found /\ J!Catalog' = J!Catalog
    BY <1>2, <2>1, CatalogStays
  <2>. QED
    BY <1>2, <2>1, <2>2, DesktopWorks
<1>4. CASE J!Saving = {}
  <2>1. local' = Append(local, [holds |-> TRUE, project |-> 0])
    BY <1>4 DEF J!OpensDraft
  <2>2. ~ J!Found
    BY <1>1, <1>4, FoundIsOne
  <2>3. local' \in Seq(J!LocalProjects) /\ \A c \in DOMAIN local' : local'[c].project \in {0} \union DOMAIN saved'
    BY <1>1, <1>2, <2>1, ClientIsAdded
  <2>. QED
    BY <1>2, <2>2, <2>3, DesktopWorks
<1>. QED
  BY <1>3, <1>4

LEMMA ProjectIsMapped ==
  ASSUME J!RegistrationInv, NEW c \in DOMAIN local, J!Maps(c)
  PROVE  J!RegistrationInv'
<1>1. J!TypeOK
  BY DEF J!RegistrationInv
<1>2. /\ UNCHANGED <<owner, pin, moves, late, drafts, changes, reg>> /\ drafts \in Nat /\ local[c].project = 0
      /\ saved \in Seq(J!SavedProjects) /\ local \in Seq(J!LocalProjects) /\ local[c].holds \in BOOLEAN
      /\ \A d \in DOMAIN local : local[d].project \in {0} \union DOMAIN saved
  <2>1. local[c] \in J!LocalProjects
    BY <1>1 DEF J!TypeOK
  <2>. QED
    BY <1>1, <2>1 DEF J!Maps, J!TypeOK, J!LocalProjects
<1>3. \E p \in Nat : /\ local' = [local EXCEPT ![c].project = p]
                     /\ saved' \in Seq(J!SavedProjects) /\ p \in DOMAIN saved' /\ DOMAIN saved \subseteq DOMAIN saved'
  <2>1. CASE saved' = Append(saved, [holds |-> local[c].holds, version |-> 0])
             /\ local' = [local EXCEPT ![c].project = Len(saved) + 1]
    <3>1. Len(saved) + 1 \in Nat
      BY <1>2
    <3>. QED
      BY <1>1, <1>2, <2>1, <3>1, ProjectIsAdded
  <2>2. CASE \E p \in DOMAIN saved : local' = [local EXCEPT ![c].project = p] /\ UNCHANGED saved
    <3>1. DOMAIN saved = 1..Len(saved) /\ Len(saved) \in Nat
      BY <1>2
    <3>2. PICK p \in DOMAIN saved : local' = [local EXCEPT ![c].project = p] /\ UNCHANGED saved
      BY <2>2
    <3>3. p \in Nat
      BY <3>1, <3>2
    <3>. QED
      BY <1>2, <3>2, <3>3
  <2>. QED
    BY <2>1, <2>2 DEF J!Maps
<1>4. PICK p \in Nat : /\ local' = [local EXCEPT ![c].project = p]
                       /\ saved' \in Seq(J!SavedProjects) /\ p \in DOMAIN saved' /\ DOMAIN saved \subseteq DOMAIN saved'
  BY <1>3
<1>. DEFINE u == [local[c] EXCEPT !.project = p]
<1>5. local' = [local EXCEPT ![c] = u] /\ u \in J!LocalProjects /\ u.project = p /\ u.holds = local[c].holds
  BY <1>2, <1>4, ClientIsMapped
<1>. HIDE DEF u
<1>6. /\ local' \in Seq(J!LocalProjects) /\ DOMAIN local' = DOMAIN local /\ local'[c] = u
      /\ \A d \in DOMAIN local : d # c => local'[d] = local[d]
  BY <1>2, <1>5
<1>7. \A d \in DOMAIN local' : local'[d].project \in {0} \union DOMAIN saved'
  BY <1>2, <1>4, <1>5, <1>6
<1>8. J!Saving' = J!Saving
  BY <1>5, <1>6 DEF J!Saving
<1>9. ASSUME J!Found
      PROVE  J!Found' /\ J!Catalog'.client = J!Catalog.client /\ J!Catalog'.project = J!Catalog.project
  <2>1. PICK d \in DOMAIN local : /\ J!Saving = {d} /\ local[d].project # 0
                                  /\ J!Catalog.client = d /\ J!Catalog.project = local[d].project
    BY <1>1, <1>9, FoundIsOne
  <2>2. J!Saving' = {d} /\ local'[d].project = local[d].project
    BY <1>2, <1>6, <1>8, <2>1
  <2>. QED
    BY <2>1, <2>2, OneIsFoundStill
<1>. QED
  BY <1>2, <1>4, <1>6, <1>7, <1>9, DesktopWorks

LEMMA UserChanges ==
  ASSUME J!RegistrationInv,
         \/ \E inCatalog \in BOOLEAN : J!AddsProject(inCatalog)
         \/ \E c \in DOMAIN local : J!DropsRoot(c)
         \/ \E c \in DOMAIN local, t \in Threads : J!MovesThread(t, c)
  PROVE  J!RegistrationInv'
<1>1. J!TypeOK
  BY DEF J!RegistrationInv
<1>2. /\ changes' = changes + 1 /\ late' = {} /\ UNCHANGED <<drafts, reg>> /\ drafts \in Nat
      /\ saved \in Seq(J!SavedProjects) /\ local \in Seq(J!LocalProjects)
      /\ \A c \in DOMAIN local : local[c].project \in {0} \union DOMAIN saved
      /\ owner \in [Threads -> Nat] /\ pin \in [Threads -> Nat] /\ moves \in [Threads -> Nat]
  BY <1>1 DEF J!AddsProject, J!DropsRoot, J!MovesThread, J!Change, J!TypeOK
<1>3. ASSUME NEW inCatalog \in BOOLEAN, J!AddsProject(inCatalog)
      PROVE  J!RegistrationInv'
  <2>1. UNCHANGED <<owner, pin, moves>>
    BY <1>3 DEF J!AddsProject
  <2>2. CASE inCatalog
    <3>1. local' = Append(local, [holds |-> TRUE, project |-> 0]) /\ UNCHANGED saved
      BY <1>3, <2>2 DEF J!AddsProject
    <3>2. local' \in Seq(J!LocalProjects) /\ \A c \in DOMAIN local' : local'[c].project \in {0} \union DOMAIN saved'
      BY <1>1, <3>1, ClientIsAdded
    <3>. QED
      BY <1>2, <2>1, <3>1, <3>2, ChangeComes
  <2>3. CASE ~ inCatalog
    <3>1. saved' = Append(saved, [holds |-> TRUE, version |-> 0]) /\ UNCHANGED local
      BY <1>3, <2>3 DEF J!AddsProject
    <3>2. saved' \in Seq(J!SavedProjects) /\ DOMAIN saved \subseteq DOMAIN saved'
      BY <1>1, <3>1, ProjectIsAdded
    <3>3. \A c \in DOMAIN local' : local'[c].project \in {0} \union DOMAIN saved'
      BY <1>2, <3>1, <3>2
    <3>. QED
      BY <1>2, <2>1, <3>1, <3>2, <3>3, ChangeComes
  <2>. QED
    BY <2>2, <2>3
<1>4. ASSUME NEW c \in DOMAIN local, J!DropsRoot(c)
      PROVE  J!RegistrationInv'
  <2>. DEFINE p == local[c].project
              v == [local[c] EXCEPT !.holds = FALSE]
              k == saved[p].version + 1
              e == [holds |-> FALSE, version |-> k]
  <2>1. /\ UNCHANGED <<owner, pin, moves>> /\ local' = [local EXCEPT ![c].holds = FALSE]
        /\ saved' = IF p = 0 THEN saved ELSE [saved EXCEPT ![p] = e]
    BY <1>2, <1>4 DEF J!DropsRoot
  <2>2. local' = [local EXCEPT ![c] = v] /\ v \in J!LocalProjects /\ v.project = p
    <3>1. p \in Nat
      <4>1. local[c] \in J!LocalProjects
        BY <1>2
      <4>. QED
        BY <4>1 DEF J!LocalProjects
    <3>. QED
      BY <1>2, <2>1, <3>1, ClientIsDropped
  <2>3. p # 0 => e \in J!SavedProjects
    <3>1. p # 0 => saved[p] \in J!SavedProjects
      BY <1>2
    <3>. QED
      BY <3>1 DEF J!SavedProjects
  <2>4. p \in {0} \union DOMAIN saved
    BY <1>2
  <2>. HIDE DEF v, e, p
  <2>5. /\ local' \in Seq(J!LocalProjects) /\ DOMAIN local' = DOMAIN local /\ local'[c].project = p
        /\ \A d \in DOMAIN local : d # c => local'[d] = local[d]
    BY <1>2, <2>2
  <2>6. saved' \in Seq(J!SavedProjects) /\ DOMAIN saved' = DOMAIN saved
    BY <1>2, <2>1, <2>3, <2>4
  <2>7. \A d \in DOMAIN local' : local'[d].project \in {0} \union DOMAIN saved'
    BY <1>2, <2>4, <2>5, <2>6
  <2>. QED
    BY <1>2, <2>1, <2>5, <2>6, <2>7, ChangeComes
<1>5. ASSUME NEW c \in DOMAIN local, NEW t \in Threads, J!MovesThread(t, c)
      PROVE  J!RegistrationInv'
  <2>. DEFINE p == local[c].project
  <2>1. /\ UNCHANGED <<saved, local>> /\ pin' = [pin EXCEPT ![t] = c] /\ owner' = [owner EXCEPT ![t] = p]
        /\ moves' = [moves EXCEPT ![t] = moves[t] + 1]
    BY <1>2, <1>5 DEF J!MovesThread
  <2>2. p \in Nat /\ c \in Nat
    <3>1. local[c] \in J!LocalProjects
      BY <1>2
    <3>. QED
      BY <1>2, <3>1 DEF J!LocalProjects
  <2>. HIDE DEF p
  <2>3. /\ owner' \in [Threads -> Nat] /\ pin' \in [Threads -> Nat] /\ moves' \in [Threads -> Nat]
        /\ \A x \in Threads : moves'[x] >= moves[x] /\ (moves'[x] = moves[x] => owner'[x] = owner[x])
    <3>1. moves[t] \in Nat /\ moves'[t] = moves[t] + 1
      BY <1>2, <2>1
    <3>2. moves'[t] >= moves[t] /\ moves'[t] # moves[t]
      BY <3>1
    <3>3. ASSUME NEW x \in Threads, x # t
          PROVE  moves'[x] = moves[x] /\ owner'[x] = owner[x] /\ moves[x] \in Nat
      BY <1>2, <2>1, <3>3
    <3>4. owner' \in [Threads -> Nat] /\ pin' \in [Threads -> Nat] /\ moves' \in [Threads -> Nat]
      BY <1>2, <2>1, <2>2, <3>1
    <3>5. ASSUME NEW x \in Threads
          PROVE  moves'[x] >= moves[x] /\ (moves'[x] = moves[x] => owner'[x] = owner[x])
      <4>1. CASE x = t
        BY <3>2, <4>1
      <4>2. CASE x # t
        <5>1. moves'[x] = moves[x] /\ owner'[x] = owner[x] /\ moves[x] \in Nat
          BY <3>3, <4>2
        <5>. QED
          BY <5>1
      <4>. QED
        BY <4>1, <4>2
    <3>. QED
      BY <3>4, <3>5
  <2>. QED
    BY <1>2, <2>1, <2>3, ChangeComes
<1>. QED
  BY <1>3, <1>4, <1>5

LEMMA RegistrationsBegin == J!Init => J!RegistrationInv
<1>. SUFFICES ASSUME J!Init PROVE J!RegistrationInv
  OBVIOUS
<1>1. J!Fresh \in J!Registrations /\ J!Fresh.step = "idle" /\ J!Fresh.since = 0
  BY DEF J!Fresh, J!NoCatalog, J!Registrations, J!Steps, J!Catalogs
<1>2. J!TypeOK
  BY <1>1 DEF J!Init, J!TypeOK
<1>3. \A r \in Regs : reg[r].step = "idle" /\ reg[r].since = 0
  BY <1>1 DEF J!Init
<1>. QED
  BY <1>2, <1>3 DEF J!Init, J!RegistrationInv, J!BeginBeforeNow, J!CatalogIsCurrent, J!KnowsCatalog,
     J!ThreadsAreKnown, J!HasThread, J!ThreadsAreThere

LEMMA RegistrationStep ==
  ASSUME J!RegistrationInv, [J!Next]_(J!vars)
  PROVE  J!RegistrationInv'
<1>1. CASE UNCHANGED J!vars
  <2>1. J!TypeOK /\ UNCHANGED <<owner, pin, moves, late, changes, reg, drafts, saved, local>>
    BY <1>1 DEF J!vars, J!RegistrationInv
  <2>2. J!Found' = J!Found /\ J!Catalog' = J!Catalog
    BY <2>1, CatalogStays
  <2>. QED
    BY <2>1, <2>2, DesktopWorks DEF J!TypeOK
<1>2. ASSUME NEW r \in Regs,
             \/ \E t \in Threads \union {NoThread} : J!Start(r, t)
             \/ J!ReadsCatalog(r) \/ J!GivesUp(r) \/ J!Lists(r) \/ J!ReadsThread(r) \/ J!ReadsProject(r)
             \/ J!Rechecks(r) \/ J!Updates(r) \/ J!ReadsBack(r) \/ J!Verifies(r) \/ J!ConnectionFails(r)
      PROVE  J!RegistrationInv'
  BY <1>2, RegistrationStarts, CatalogIsRead, ProjectsAreListed, ThreadIsRead, ProjectIsRead, ThreadIsRechecked,
     ThreadIsMoved, ThreadIsVerified
<1>. QED
  BY <1>1, <1>2, DraftIsOpened, ProjectIsMapped, UserChanges DEF J!Next

\* What a registration knows of the Desktop's catalog is so until its user changes something, and a thread is
\* moved only from where it was read (codex-projects.ts, registerProject).
THEOREM RegistrationsAreSound == J!Spec => []J!RegistrationInv
<1>1. J!RegistrationInv /\ [J!Next]_(J!vars) => J!RegistrationInv'
  BY RegistrationStep
<1>. QED
  BY RegistrationsBegin, <1>1, PTL DEF J!Spec

\* However many registrations run beside each other and the Desktop, none takes a thread from where it may not, but for
\* one moved since it was looked at, and what one reports is what the Desktop shows until its user changes something,
\* but for a thread that a registration from before the last change moves late.
THEOREM RegistrationsTellTheTruth == J!Spec => []J!RegistrationsAreTrue
<1>1. J!RegistrationInv => J!RegistrationsAreTrue
  <2>. SUFFICES ASSUME J!RegistrationInv PROVE J!RegistrationsAreTrue
    OBVIOUS
  <2>1. J!CatalogIsCurrent /\ J!ThreadsAreKnown /\ J!ThreadsAreThere
    BY DEF J!RegistrationInv
  <2>2. J!NoThreadIsTaken
    BY <2>1 DEF J!NoThreadIsTaken, J!ThreadsAreKnown, J!HasThread, J!MayTake, J!MayMove
  <2>3. J!ReceiptsAreTrue
    BY <2>1 DEF J!ReceiptsAreTrue, J!CatalogIsCurrent, J!ThreadsAreThere, J!KnowsCatalog, J!Steps
  <2>. QED
    BY <2>2, <2>3 DEF J!RegistrationsAreTrue
<1>. QED
  BY <1>1, RegistrationsAreSound, PTL

-------------------------------------------------------------------------------
(***************************************************************************)
(* Agentd: the part that moves behaves as its own specification says.      *)
(***************************************************************************)
\* The daemons that fail are a second instance, of which the same is proved.
LEMMA FailingTypeIsInductive == F!TypeOK /\ [F!Next]_(F!vars) => F!TypeOK'
<1>. SUFFICES ASSUME F!TypeOK, [F!Next]_(F!vars) PROVE F!TypeOK'
  OBVIOUS
<1>. USE FailingRevisionsAssumption
     DEF F!TypeOK, F!Starting, F!Ending, F!Gone, F!ClientPlaces, F!Goes, F!files, F!work, F!daemon
<1>1. ASSUME NEW p \in Daemons, F!Publish(p) PROVE F!TypeOK'
  BY <1>1 DEF F!Publish
<1>2. ASSUME NEW p \in Daemons, F!Occupied(p) PROVE F!TypeOK'
  BY <1>2 DEF F!Occupied
<1>3. ASSUME NEW p \in Daemons, F!AlreadyRunning(p) PROVE F!TypeOK'
  BY <1>3 DEF F!AlreadyRunning
<1>4. ASSUME NEW p \in Daemons, F!FindsStale(p) PROVE F!TypeOK'
  BY <1>4 DEF F!FindsStale
<1>5. ASSUME NEW p \in Daemons, F!RemoveStale(p) PROVE F!TypeOK'
  BY <1>5 DEF F!RemoveStale
<1>6. ASSUME NEW p \in Daemons, F!Reconcile(p) PROVE F!TypeOK'
  BY <1>6 DEF F!Reconcile
<1>7. ASSUME NEW p \in Daemons, F!Listen(p) PROVE F!TypeOK'
  BY <1>7 DEF F!Listen
<1>8. ASSUME NEW p \in Daemons, F!CleansUp(p) PROVE F!TypeOK'
  BY <1>8 DEF F!CleansUp
<1>9. ASSUME NEW p \in Daemons, F!Close(p) PROVE F!TypeOK'
  BY <1>9 DEF F!Close, F!Closes, F!CutOff
<1>10. ASSUME NEW p \in Daemons, F!RemoveFiles(p) PROVE F!TypeOK'
  BY <1>10 DEF F!RemoveFiles
<1>11. ASSUME NEW p \in Daemons, F!Release(p) PROVE F!TypeOK'
  BY <1>11 DEF F!Release, F!Ends
<1>12. ASSUME NEW p \in Daemons, F!StartFails(p) PROVE F!TypeOK'
  BY <1>12 DEF F!StartFails
<1>13. ASSUME NEW p \in Daemons, F!Stop(p) PROVE F!TypeOK'
  BY <1>13 DEF F!Stop
<1>14. ASSUME NEW p \in Daemons, F!IdleShutdown(p) PROVE F!TypeOK'
  BY <1>14 DEF F!IdleShutdown, F!Closes, F!CutOff
<1>15. ASSUME NEW p \in Daemons, F!Die(p) PROVE F!TypeOK'
  BY <1>15 DEF F!Die, F!Ends, F!CutOff
<1>16. ASSUME NEW p \in Daemons, NEW c \in FailingClients, F!BeginsTurn(p, c) PROVE F!TypeOK'
  BY <1>16 DEF F!BeginsTurn, F!AnswersClient
<1>17. ASSUME NEW p \in Daemons, NEW c \in FailingClients, F!RequestFails(p, c) PROVE F!TypeOK'
  BY <1>17 DEF F!RequestFails, F!AnswersClient
<1>18. ASSUME NEW p \in Daemons, NEW c \in FailingClients, F!TurnEnds(p, c) PROVE F!TypeOK'
  BY <1>18 DEF F!TurnEnds
<1>19. ASSUME NEW c \in FailingClients, F!Ask(c) PROVE F!TypeOK'
  BY <1>19 DEF F!Ask, F!Moves
<1>20. ASSUME NEW c \in FailingClients, F!HelloUnavailable(c) PROVE F!TypeOK'
  BY <1>20 DEF F!HelloUnavailable, F!Moves
<1>21. ASSUME NEW c \in FailingClients, F!StopRefused(c) PROVE F!TypeOK'
  BY <1>21, ZenonT(60) DEF F!StopRefused, F!GivesUp, F!Moves
<1>22. ASSUME NEW c \in FailingClients, F!StopSeen(c) PROVE F!TypeOK'
  BY <1>22, ZenonT(60) DEF F!StopSeen, F!GivesUp, F!Moves
<1>23. ASSUME NEW c \in FailingClients, F!SendRefused(c) PROVE F!TypeOK'
  BY <1>23 DEF F!SendRefused, F!Moves
<1>24. ASSUME NEW c \in FailingClients, F!OutOfTime(c) PROVE F!TypeOK'
  BY <1>24 DEF F!OutOfTime, F!Moves
<1>25. ASSUME NEW c \in FailingClients, F!TimesOut(c) PROVE F!TypeOK'
  BY <1>25 DEF F!TimesOut, F!Moves
<1>26. ASSUME NEW p \in Daemons, NEW c \in FailingClients, F!HelloReady(c, p) PROVE F!TypeOK'
  BY <1>26 DEF F!HelloReady, F!Moves
<1>27. ASSUME NEW p \in Daemons, NEW c \in FailingClients, F!HelloBusy(c, p) PROVE F!TypeOK'
  BY <1>27 DEF F!HelloBusy, F!Moves
<1>28. ASSUME NEW p \in Daemons, NEW c \in FailingClients, F!HelloChanged(c, p) PROVE F!TypeOK'
  BY <1>28, ZenonT(60) DEF F!HelloChanged
<1>29. ASSUME NEW p \in Daemons, NEW c \in FailingClients, F!StopAccepted(c, p) PROVE F!TypeOK'
  <2>1. failingClient' \in [FailingClients -> [at : F!ClientPlaces, spawned : BOOLEAN, daemon : Daemons \union {None}]]
    BY <1>29 DEF F!StopAccepted, F!Moves
  <2>2. failingAt' \in [Daemons -> F!Starting \union F!Ending \union F!Gone \union {"ready"}]
    BY <1>29 DEF F!StopAccepted
  <2>3. failingReplaced' \subseteq Daemons \X FailingClients
    BY <1>29 DEF F!StopAccepted
  <2>. QED BY <1>29, <2>1, <2>2, <2>3, Zenon DEF F!StopAccepted
<1>30. ASSUME NEW p \in Daemons, NEW c \in FailingClients, F!ReplacementSeen(c, p) PROVE F!TypeOK'
  BY <1>30 DEF F!ReplacementSeen, F!Moves
<1>31. ASSUME NEW p \in Daemons, NEW c \in FailingClients, F!Spawn(c, p) PROVE F!TypeOK'
  BY <1>31, ZenonT(60) DEF F!Spawn
<1>32. ASSUME NEW p \in Daemons, NEW c \in FailingClients, F!Send(c, p) PROVE F!TypeOK'
  BY <1>32, ZenonT(60) DEF F!Send
<1>33. CASE UNCHANGED F!vars
  BY <1>33 DEF F!vars
<1>. QED
  BY <1>1, <1>2, <1>3, <1>4, <1>5, <1>6, <1>7, <1>8, <1>9, <1>10, <1>11, <1>12,
     <1>13, <1>14, <1>15, <1>16, <1>17, <1>18, <1>19, <1>20, <1>21, <1>22,
     <1>23, <1>24, <1>25, <1>26, <1>27, <1>28, <1>29, <1>30, <1>31, <1>32, <1>33
     DEF F!Next, F!DaemonStep, F!Intervenes, F!Serves, F!ClientStep

LEMMA FailingLeavingInductive ==
  F!TypeOK /\ F!ReplacedAreLeaving /\ [F!Next]_(F!vars) => F!ReplacedAreLeaving'
<1>. SUFFICES ASSUME F!TypeOK, F!ReplacedAreLeaving, [F!Next]_(F!vars) PROVE F!ReplacedAreLeaving'
  OBVIOUS
<1>. USE DEF F!TypeOK, F!ReplacedAreLeaving, F!Ending, F!Answers, F!IdleEnough, F!Goes, F!files, F!work, F!daemon
<1>1. ASSUME NEW p \in Daemons, F!Publish(p) PROVE F!ReplacedAreLeaving'
  BY <1>1 DEF F!Publish
<1>2. ASSUME NEW p \in Daemons, F!Occupied(p) PROVE F!ReplacedAreLeaving'
  BY <1>2 DEF F!Occupied
<1>3. ASSUME NEW p \in Daemons, F!AlreadyRunning(p) PROVE F!ReplacedAreLeaving'
  BY <1>3 DEF F!AlreadyRunning
<1>4. ASSUME NEW p \in Daemons, F!FindsStale(p) PROVE F!ReplacedAreLeaving'
  BY <1>4 DEF F!FindsStale
<1>5. ASSUME NEW p \in Daemons, F!RemoveStale(p) PROVE F!ReplacedAreLeaving'
  BY <1>5 DEF F!RemoveStale
<1>6. ASSUME NEW p \in Daemons, F!Reconcile(p) PROVE F!ReplacedAreLeaving'
  BY <1>6 DEF F!Reconcile
<1>7. ASSUME NEW p \in Daemons, F!Listen(p) PROVE F!ReplacedAreLeaving'
  BY <1>7 DEF F!Listen
<1>8. ASSUME NEW p \in Daemons, F!CleansUp(p) PROVE F!ReplacedAreLeaving'
  BY <1>8 DEF F!CleansUp
<1>9. ASSUME NEW p \in Daemons, F!Close(p) PROVE F!ReplacedAreLeaving'
  BY <1>9 DEF F!Close, F!Closes, F!CutOff
<1>10. ASSUME NEW p \in Daemons, F!RemoveFiles(p) PROVE F!ReplacedAreLeaving'
  BY <1>10 DEF F!RemoveFiles
<1>11. ASSUME NEW p \in Daemons, F!Release(p) PROVE F!ReplacedAreLeaving'
  BY <1>11 DEF F!Release, F!Ends
<1>12. ASSUME NEW p \in Daemons, F!StartFails(p) PROVE F!ReplacedAreLeaving'
  BY <1>12 DEF F!StartFails
<1>13. ASSUME NEW p \in Daemons, F!Stop(p) PROVE F!ReplacedAreLeaving'
  BY <1>13 DEF F!Stop
<1>14. ASSUME NEW p \in Daemons, F!IdleShutdown(p) PROVE F!ReplacedAreLeaving'
  BY <1>14 DEF F!IdleShutdown, F!Closes, F!CutOff
<1>15. ASSUME NEW p \in Daemons, F!Die(p) PROVE F!ReplacedAreLeaving'
  BY <1>15 DEF F!Die, F!Ends, F!CutOff
<1>16. ASSUME NEW p \in Daemons, NEW c \in FailingClients, F!BeginsTurn(p, c) PROVE F!ReplacedAreLeaving'
  BY <1>16 DEF F!BeginsTurn, F!AnswersClient
<1>17. ASSUME NEW p \in Daemons, NEW c \in FailingClients, F!RequestFails(p, c) PROVE F!ReplacedAreLeaving'
  BY <1>17 DEF F!RequestFails, F!AnswersClient
<1>18. ASSUME NEW p \in Daemons, NEW c \in FailingClients, F!TurnEnds(p, c) PROVE F!ReplacedAreLeaving'
  BY <1>18 DEF F!TurnEnds
<1>19. ASSUME NEW c \in FailingClients, F!Ask(c) PROVE F!ReplacedAreLeaving'
  BY <1>19 DEF F!Ask, F!Moves
<1>20. ASSUME NEW c \in FailingClients, F!HelloUnavailable(c) PROVE F!ReplacedAreLeaving'
  BY <1>20 DEF F!HelloUnavailable, F!Moves
<1>21. ASSUME NEW c \in FailingClients, F!StopRefused(c) PROVE F!ReplacedAreLeaving'
  BY <1>21 DEF F!StopRefused, F!GivesUp, F!Moves
<1>22. ASSUME NEW c \in FailingClients, F!StopSeen(c) PROVE F!ReplacedAreLeaving'
  BY <1>22 DEF F!StopSeen, F!GivesUp, F!Moves
<1>23. ASSUME NEW c \in FailingClients, F!SendRefused(c) PROVE F!ReplacedAreLeaving'
  BY <1>23 DEF F!SendRefused, F!Moves
<1>24. ASSUME NEW c \in FailingClients, F!OutOfTime(c) PROVE F!ReplacedAreLeaving'
  BY <1>24 DEF F!OutOfTime, F!Moves
<1>25. ASSUME NEW c \in FailingClients, F!TimesOut(c) PROVE F!ReplacedAreLeaving'
  BY <1>25 DEF F!TimesOut, F!Moves
<1>26. ASSUME NEW p \in Daemons, NEW c \in FailingClients, F!HelloReady(c, p) PROVE F!ReplacedAreLeaving'
  BY <1>26 DEF F!HelloReady, F!Moves
<1>27. ASSUME NEW p \in Daemons, NEW c \in FailingClients, F!HelloBusy(c, p) PROVE F!ReplacedAreLeaving'
  BY <1>27 DEF F!HelloBusy, F!Moves
<1>28. ASSUME NEW p \in Daemons, NEW c \in FailingClients, F!HelloChanged(c, p) PROVE F!ReplacedAreLeaving'
  BY <1>28 DEF F!HelloChanged
<1>29. ASSUME NEW p \in Daemons, NEW c \in FailingClients, F!StopAccepted(c, p) PROVE F!ReplacedAreLeaving'
  BY <1>29 DEF F!StopAccepted, F!Moves
<1>30. ASSUME NEW p \in Daemons, NEW c \in FailingClients, F!ReplacementSeen(c, p) PROVE F!ReplacedAreLeaving'
  BY <1>30 DEF F!ReplacementSeen, F!Moves
<1>31. ASSUME NEW p \in Daemons, NEW c \in FailingClients, F!Spawn(c, p) PROVE F!ReplacedAreLeaving'
  BY <1>31 DEF F!Spawn
<1>32. ASSUME NEW p \in Daemons, NEW c \in FailingClients, F!Send(c, p) PROVE F!ReplacedAreLeaving'
  BY <1>32 DEF F!Send
<1>33. CASE UNCHANGED F!vars
  BY <1>33 DEF F!vars
<1>. QED
  BY <1>1, <1>2, <1>3, <1>4, <1>5, <1>6, <1>7, <1>8, <1>9, <1>10, <1>11, <1>12,
     <1>13, <1>14, <1>15, <1>16, <1>17, <1>18, <1>19, <1>20, <1>21, <1>22,
     <1>23, <1>24, <1>25, <1>26, <1>27, <1>28, <1>29, <1>30, <1>31, <1>32, <1>33
     DEF F!Next, F!DaemonStep, F!Intervenes, F!Serves, F!ClientStep

\* Neither a daemon that ends in order nor one of those that fail is stopped for replacement
\* while it has work, in Agentd as in DaemonLifecycle alone.
THEOREM AgentdSparesWork == AgentdSpec => []ReplacementNeverCutsWork
<1>1. /\ AgentdInit => TypeOK /\ ReplacedAreLeaving
      /\ AgentdInit /\ part = "failing" => F!TypeOK /\ F!ReplacedAreLeaving
  <2>1. AgentdInit => Init /\ (part = "failing" => F!Init)
    BY DEF AgentdInit
  <2>2. Init => TypeOK /\ ReplacedAreLeaving
    BY DEF Init, Earlier, TypeOK, ReplacedAreLeaving, Starting, Ending, Gone, ClientPlaces
  <2>3. F!Init => F!TypeOK /\ F!ReplacedAreLeaving
    BY DEF F!Init, F!Earlier, F!TypeOK, F!ReplacedAreLeaving, F!Starting, F!Ending, F!Gone,
           F!ClientPlaces
  <2>. QED
    BY <2>1, <2>2, <2>3
<1>2. [AgentdNext]_agentdVars => /\ (part = "failing")' <=> part = "failing"
                                 /\ [Next]_vars
                                 /\ part = "failing" => [F!Next]_(F!vars)
  <2>. SUFFICES ASSUME [AgentdNext]_agentdVars
                PROVE  part' = part /\ [Next]_vars /\ (part = "failing" => [F!Next]_(F!vars))
    OBVIOUS
  <2>1. part' = part /\ ((part = "failing" /\ F!Next) \/ part # "failing" \/ UNCHANGED failing)
    BY DEF AgentdNext, agentdVars
  <2>2. Next \/ UNCHANGED vars
    BY DEF AgentdNext, agentdVars
  <2>3. UNCHANGED failing => UNCHANGED F!vars
    BY DEF failing, F!vars, F!files, F!daemon, F!work
  <2>. QED
    BY <2>1, <2>2, <2>3
<1>3. /\ ReplacedAreLeaving => ReplacementSparesWork
      /\ F!ReplacedAreLeaving => F!ReplacementSparesWork
  BY DEF ReplacedAreLeaving, ReplacementSparesWork, F!ReplacedAreLeaving, F!ReplacementSparesWork
<1>. QED
  BY <1>1, <1>2, <1>3, TypeIsInductive, LeavingInductive, FailingTypeIsInductive,
     FailingLeavingInductive, PTL DEF AgentdSpec, ReplacementNeverCutsWork

\* What callers of the daemon are told is true, in Agentd as in DaemonWire alone.
THEOREM AgentdAnswersTruly == ASSUME RequestsAreKnown PROVE AgentdSpec => []AnswersAreTrue
<1>1. AgentdInit /\ part = "wire" => W!Init
  BY DEF AgentdInit
<1>2. [AgentdNext]_agentdVars => ((part = "wire")' <=> part = "wire") /\ (part = "wire" => [W!Next]_(W!vars))
  <2>. SUFFICES ASSUME [AgentdNext]_agentdVars PROVE part' = part /\ (part = "wire" => [W!Next]_(W!vars))
    OBVIOUS
  <2>1. part' = part /\ ((part = "wire" /\ W!Next) \/ part # "wire" \/ UNCHANGED connections)
    BY DEF AgentdNext, agentdVars
  <2>2. UNCHANGED connections => UNCHANGED W!vars
    BY DEF connections, W!vars, W!wire, W!rows
  <2>. QED
    BY <2>1, <2>2
<1>. QED
  BY <1>1, <1>2, CallersAreToldTheTruth, PTL DEF AgentdSpec, AnswersAreTrue, W!Spec

\* A turn of Agentd has the limits, defaults and settings it was asked for.
THEOREM AgentdKeepsSettings == ASSUME LimitsAreEfforts PROVE AgentdSpec => []SettingsAreOfTheTurn
<1>1. AgentdInit /\ part = "settings" => S!Init
  BY DEF AgentdInit
<1>2. [AgentdNext]_agentdVars => ((part = "settings")' <=> part = "settings") /\ (part = "settings" => [S!Next]_(S!vars))
  <2>. SUFFICES ASSUME [AgentdNext]_agentdVars PROVE part' = part /\ (part = "settings" => [S!Next]_(S!vars))
    OBVIOUS
  <2>1. part' = part /\ ((part = "settings" /\ S!Next) \/ part # "settings" \/ UNCHANGED settings)
    BY DEF AgentdNext, agentdVars
  <2>2. UNCHANGED settings => UNCHANGED S!vars
    BY DEF settings, S!vars
  <2>. QED
    BY <2>1, <2>2
<1>. QED
  BY <1>1, <1>2, TurnsHaveTheirSettings, PTL DEF AgentdSpec, SettingsAreOfTheTurn, S!Spec

\* What Agentd reports of a registration is what the Desktop shows.
THEOREM AgentdRegistersTruly == AgentdSpec => []RegistrationsAreTrue
<1>1. AgentdInit /\ part = "projects" => J!Init
  BY DEF AgentdInit
<1>2. [AgentdNext]_agentdVars => ((part = "projects")' <=> part = "projects") /\ (part = "projects" => [J!Next]_(J!vars))
  <2>. SUFFICES ASSUME [AgentdNext]_agentdVars PROVE part' = part /\ (part = "projects" => [J!Next]_(J!vars))
    OBVIOUS
  <2>1. part' = part /\ ((part = "projects" /\ J!Next) \/ part # "projects" \/ UNCHANGED projects)
    BY DEF AgentdNext, agentdVars
  <2>2. UNCHANGED projects => UNCHANGED J!vars
    BY DEF projects, J!vars
  <2>. QED
    BY <2>1, <2>2
<1>. QED
  BY <1>1, <1>2, RegistrationsTellTheTruth, PTL DEF AgentdSpec, RegistrationsAreTrue, J!Spec
===============================================================================
