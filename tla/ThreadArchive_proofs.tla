----------------------- MODULE ThreadArchive_proofs -----------------------
(***************************************************************************)
(* The safety of archiving threads, for any number of threads, previews    *)
(* and requests, whatever other Codex clients do; and, when none of them   *)
(* moves threads, that the rows never say of a settled thread what Codex   *)
(* denies.                                                                 *)
(*                                                                         *)
(* The argument: requests are alone (ClaimsAreHeld), so an entry is as its *)
(* request found it (RequestsSeeTheirEntry), so a thread whose row says    *)
(* that it rests is in no other batch's hands (OneBatchMoves).             *)
(***************************************************************************)
EXTENDS ThreadArchive, TLAPS

LEMMA TypeIsInductive == TypeOK /\ [Next]_vars => TypeOK'
<1>. SUFFICES ASSUME TypeOK, [Next]_vars PROVE TypeOK'
  OBVIOUS
<1>. USE HoldersAssumption DEF TypeOK, Pending, Away, Modes, Before, Moving, After,
     threadRows, batchRows, admission, codex
<1>1. ASSUME NEW t \in Threads, Account(t) PROVE TypeOK'
  BY <1>1 DEF Account
<1>2. ASSUME NEW t \in Threads, Admit(t) PROVE TypeOK'
  BY <1>2 DEF Admit
<1>3. ASSUME NEW t \in Threads, TicketAdmits(t) PROVE TypeOK'
  BY <1>3 DEF TicketAdmits
<1>4. ASSUME NEW t \in Threads, TicketExpires(t) PROVE TypeOK'
  BY <1>4 DEF TicketExpires
<1>5. ASSUME NEW t \in Threads, Dispatch(t) PROVE TypeOK'
  BY <1>5 DEF Dispatch, Revise
<1>6. ASSUME NEW t \in Threads, DispatchRefused(t) PROVE TypeOK'
  BY <1>6 DEF DispatchRefused
<1>7. ASSUME NEW t \in Threads, ProviderCompletes(t) PROVE TypeOK'
  BY <1>7 DEF ProviderCompletes, Grow
<1>8. ASSUME NEW t \in Threads, EndTurn(t) PROVE TypeOK'
  BY <1>8 DEF EndTurn
<1>9. ASSUME NEW t \in Threads, Accept(t) PROVE TypeOK'
  BY <1>9 DEF Accept
<1>10. ASSUME NEW b \in Batches, NEW m \in Modes, PlanStarts(b, m) PROVE TypeOK'
  BY <1>10 DEF PlanStarts
<1>11. ASSUME NEW b \in Batches, NEW t \in Threads, PlanFinds(b, t) PROVE TypeOK'
  BY <1>11 DEF PlanFinds
<1>12. ASSUME NEW b \in Batches, NEW t \in Threads, PlanSkips(b, t) PROVE TypeOK'
  BY <1>12 DEF PlanSkips, Notice, Revise
<1>13. ASSUME NEW b \in Batches, PlanSaved(b) PROVE TypeOK'
  BY <1>13 DEF PlanSaved
<1>14. ASSUME NEW b \in Batches, PlanExpires(b) PROVE TypeOK'
  BY <1>14 DEF PlanExpires
<1>15. ASSUME NEW q \in Requests, NEW b \in Batches, ExecuteStarts(q, b) PROVE TypeOK'
  <2>1. \E t \in Threads, place \in {"check", "settle"}, again \in BOOLEAN :
           Begins(q, place, b, t, again)
    BY <1>15 DEF ExecuteStarts, Doubtful, Ready
  <2>2. request' \in [Requests -> {Away} \union
           [at: {"check", "inspect", "ask", "asked", "settle"}, batch: Batches,
            thread: Threads, again: BOOLEAN]]
    BY <2>1 DEF Begins
  <2>. QED
    BY <1>15, <2>2 DEF ExecuteStarts
<1>16. ASSUME NEW q \in Requests, CheckPasses(q) PROVE TypeOK'
  BY <1>16 DEF CheckPasses, Goes, Begins
<1>17. ASSUME NEW q \in Requests, CheckRefuses(q) PROVE TypeOK'
  BY <1>17 DEF CheckRefuses, Goes, Begins, GivesUp
<1>18. ASSUME NEW q \in Requests, InspectRefuses(q) PROVE TypeOK'
  BY <1>18 DEF InspectRefuses, Goes, Begins, GivesUp, Notice, Revise
<1>19. ASSUME NEW q \in Requests, Intend(q) PROVE TypeOK'
  BY <1>19 DEF Intend, Goes, Begins, Revise, FirstLook
<1>20. ASSUME NEW q \in Requests, NotAsPreviewed(q) PROVE TypeOK'
  BY <1>20 DEF NotAsPreviewed, Goes, Begins, GivesUp, FirstLook
<1>21. ASSUME NEW q \in Requests, Reconciles(q) PROVE TypeOK'
  BY <1>21 DEF Reconciles, Goes, Begins, Succeeds, Revise
<1>22. ASSUME NEW q \in Requests, StaysInDoubt(q) PROVE TypeOK'
  BY <1>22 DEF StaysInDoubt, Goes, Begins, GivesUp
<1>23. ASSUME NEW q \in Requests, Ask(q) PROVE TypeOK'
  BY <1>23 DEF Ask, Goes, Begins
<1>24. ASSUME NEW q \in Requests, Confirm(q) PROVE TypeOK'
  BY <1>24 DEF Confirm, Goes, Begins, Succeeds, Revise
<1>25. ASSUME NEW q \in Requests, Doubt(q) PROVE TypeOK'
  BY <1>25 DEF Doubt, Goes, Begins, Revise
<1>26. ASSUME NEW q \in Requests, Settle(q) PROVE TypeOK'
  BY <1>26 DEF Settle
<1>27. ASSUME NEW t \in Threads, Protect(t) PROVE TypeOK'
  BY <1>27 DEF Protect, Revise
<1>28. ASSUME NEW t \in Threads, OutsideTurn(t) PROVE TypeOK'
  BY <1>28 DEF OutsideTurn, Grow
<1>29. ASSUME NEW t \in Threads, OutsideMove(t) PROVE TypeOK'
  BY <1>29 DEF OutsideMove
<1>30. ASSUME NEW t \in Threads, NEW m \in Modes, CodexActs(t, m) PROVE TypeOK'
  BY <1>30 DEF CodexActs
<1>31. ASSUME NEW t \in Threads, NEW m \in Modes, CodexFails(t, m) PROVE TypeOK'
  BY <1>31 DEF CodexFails
<1>32. CASE Crash
  BY <1>32 DEF Crash
<1>33. CASE OrphanRemoved
  BY <1>33 DEF OrphanRemoved
<1>34. CASE UNCHANGED vars
  BY <1>34 DEF vars
<1>. HIDE HoldersAssumption DEF TypeOK, Pending, Away, Modes, Before, Moving, After,
     threadRows, batchRows, admission, codex
<1>. QED
  BY <1>1, <1>2, <1>3, <1>4, <1>5, <1>6, <1>7, <1>8, <1>9, <1>10, <1>11, <1>12,
     <1>13, <1>14, <1>15, <1>16, <1>17, <1>18, <1>19, <1>20, <1>21, <1>22, <1>23, <1>24,
     <1>25, <1>26, <1>27, <1>28, <1>29, <1>30, <1>31, <1>32, <1>33, <1>34
     DEF Next, Turns, Plans, Executes, World


\* The rows, the requests and Codex always have the shape the code expects.
THEOREM TypeCorrect == Spec => []TypeOK
<1>1. Init => TypeOK
  BY DEF Init, TypeOK, Pending, Away, Modes
<1>. QED
  BY <1>1, TypeIsInductive, PTL DEF Spec

LEMMA ClaimsAreKept == TypeOK /\ ClaimsAreHeld /\ [Next]_vars => ClaimsAreHeld'
<1>. SUFFICES ASSUME TypeOK, ClaimsAreHeld, [Next]_vars PROVE ClaimsAreHeld'
  OBVIOUS
<1>. USE HoldersAssumption DEF TypeOK, Pending, Away, Modes, threadRows, batchRows,
     admission, codex, ClaimsAreHeld
<1>1. ASSUME NEW t \in Threads, Account(t) PROVE ClaimsAreHeld'
  BY <1>1 DEF Account
<1>2. ASSUME NEW t \in Threads, Admit(t) PROVE ClaimsAreHeld'
  BY <1>2 DEF Admit, Quiet
<1>3. ASSUME NEW t \in Threads, TicketAdmits(t) PROVE ClaimsAreHeld'
  BY <1>3 DEF TicketAdmits
<1>4. ASSUME NEW t \in Threads, TicketExpires(t) PROVE ClaimsAreHeld'
  BY <1>4 DEF TicketExpires
<1>5. ASSUME NEW t \in Threads, Dispatch(t) PROVE ClaimsAreHeld'
  BY <1>5 DEF Dispatch, Revise
<1>6. ASSUME NEW t \in Threads, DispatchRefused(t) PROVE ClaimsAreHeld'
  BY <1>6 DEF DispatchRefused
<1>7. ASSUME NEW t \in Threads, ProviderCompletes(t) PROVE ClaimsAreHeld'
  BY <1>7 DEF ProviderCompletes, Grow
<1>8. ASSUME NEW t \in Threads, EndTurn(t) PROVE ClaimsAreHeld'
  BY <1>8 DEF EndTurn
<1>9. ASSUME NEW t \in Threads, Accept(t) PROVE ClaimsAreHeld'
  BY <1>9 DEF Accept
<1>10. ASSUME NEW b \in Batches, NEW m \in Modes, PlanStarts(b, m) PROVE ClaimsAreHeld'
  BY <1>10 DEF PlanStarts
<1>11. ASSUME NEW b \in Batches, NEW t \in Threads, PlanFinds(b, t) PROVE ClaimsAreHeld'
  BY <1>11 DEF PlanFinds
<1>12. ASSUME NEW b \in Batches, NEW t \in Threads, PlanSkips(b, t) PROVE ClaimsAreHeld'
  BY <1>12 DEF PlanSkips, Notice, Revise
<1>13. ASSUME NEW b \in Batches, PlanSaved(b) PROVE ClaimsAreHeld'
  BY <1>13 DEF PlanSaved
<1>14. ASSUME NEW b \in Batches, PlanExpires(b) PROVE ClaimsAreHeld'
  BY <1>14 DEF PlanExpires
<1>15. ASSUME NEW q \in Requests, NEW b \in Batches, ExecuteStarts(q, b) PROVE
     ClaimsAreHeld'
  BY <1>15 DEF ExecuteStarts, Doubtful, Ready, Begins, Quiet
<1>16. ASSUME NEW q \in Requests, CheckPasses(q) PROVE ClaimsAreHeld'
  BY <1>16 DEF CheckPasses, Goes, Begins
<1>17. ASSUME NEW q \in Requests, CheckRefuses(q) PROVE ClaimsAreHeld'
  BY <1>17 DEF CheckRefuses, Goes, Begins, GivesUp
<1>18. ASSUME NEW q \in Requests, InspectRefuses(q) PROVE ClaimsAreHeld'
  BY <1>18 DEF InspectRefuses, Goes, Begins, GivesUp, Notice, Revise
<1>19. ASSUME NEW q \in Requests, Intend(q) PROVE ClaimsAreHeld'
  BY <1>19 DEF Intend, Goes, Begins, Revise, FirstLook
<1>20. ASSUME NEW q \in Requests, NotAsPreviewed(q) PROVE ClaimsAreHeld'
  BY <1>20 DEF NotAsPreviewed, Goes, Begins, GivesUp, FirstLook
<1>21. ASSUME NEW q \in Requests, Reconciles(q) PROVE ClaimsAreHeld'
  BY <1>21 DEF Reconciles, Goes, Begins, Succeeds, Revise
<1>22. ASSUME NEW q \in Requests, StaysInDoubt(q) PROVE ClaimsAreHeld'
  BY <1>22 DEF StaysInDoubt, Goes, Begins, GivesUp
<1>23. ASSUME NEW q \in Requests, Ask(q) PROVE ClaimsAreHeld'
  BY <1>23 DEF Ask, Goes, Begins
<1>24. ASSUME NEW q \in Requests, Confirm(q) PROVE ClaimsAreHeld'
  BY <1>24 DEF Confirm, Goes, Begins, Succeeds, Revise
<1>25. ASSUME NEW q \in Requests, Doubt(q) PROVE ClaimsAreHeld'
  BY <1>25 DEF Doubt, Goes, Begins, Revise
<1>26. ASSUME NEW q \in Requests, Settle(q) PROVE ClaimsAreHeld'
  BY <1>26 DEF Settle
<1>27. ASSUME NEW t \in Threads, Protect(t) PROVE ClaimsAreHeld'
  BY <1>27 DEF Protect, Revise
<1>28. ASSUME NEW t \in Threads, OutsideTurn(t) PROVE ClaimsAreHeld'
  BY <1>28 DEF OutsideTurn, Grow
<1>29. ASSUME NEW t \in Threads, OutsideMove(t) PROVE ClaimsAreHeld'
  BY <1>29 DEF OutsideMove
<1>30. ASSUME NEW t \in Threads, NEW m \in Modes, CodexActs(t, m) PROVE ClaimsAreHeld'
  BY <1>30 DEF CodexActs
<1>31. ASSUME NEW t \in Threads, NEW m \in Modes, CodexFails(t, m) PROVE ClaimsAreHeld'
  BY <1>31 DEF CodexFails
<1>32. CASE Crash
  BY <1>32 DEF Crash
<1>33. CASE OrphanRemoved
  BY <1>33 DEF OrphanRemoved
<1>34. CASE UNCHANGED vars
  BY <1>34 DEF vars
<1>. HIDE HoldersAssumption DEF TypeOK, Pending, Away, Modes, threadRows, batchRows,
     admission, codex, ClaimsAreHeld
<1>. QED
  BY <1>1, <1>2, <1>3, <1>4, <1>5, <1>6, <1>7, <1>8, <1>9, <1>10, <1>11, <1>12,
     <1>13, <1>14, <1>15, <1>16, <1>17, <1>18, <1>19, <1>20, <1>21, <1>22, <1>23, <1>24,
     <1>25, <1>26, <1>27, <1>28, <1>29, <1>30, <1>31, <1>32, <1>33, <1>34
     DEF Next, Turns, Plans, Executes, World

LEMMA RequestsKeepTheirEntry ==
    TypeOK /\ ClaimsAreHeld /\ UntouchedIsUnasked /\ RequestsSeeTheirEntry /\
       [Next]_vars => RequestsSeeTheirEntry'
<1>. SUFFICES ASSUME TypeOK, ClaimsAreHeld, UntouchedIsUnasked, RequestsSeeTheirEntry,
     [Next]_vars PROVE RequestsSeeTheirEntry'
  OBVIOUS
<1>. USE HoldersAssumption DEF TypeOK, Pending, Away, Modes, threadRows, batchRows,
     admission, codex, ClaimsAreHeld, UntouchedIsUnasked, RequestsSeeTheirEntry,
     EntryIsAsFound, Before, Moving, After
<1>1. ASSUME NEW t \in Threads, Account(t) PROVE RequestsSeeTheirEntry'
  BY <1>1 DEF Account
<1>2. ASSUME NEW t \in Threads, Admit(t) PROVE RequestsSeeTheirEntry'
  BY <1>2 DEF Admit
<1>3. ASSUME NEW t \in Threads, TicketAdmits(t) PROVE RequestsSeeTheirEntry'
  BY <1>3 DEF TicketAdmits
<1>4. ASSUME NEW t \in Threads, TicketExpires(t) PROVE RequestsSeeTheirEntry'
  BY <1>4 DEF TicketExpires
<1>5. ASSUME NEW t \in Threads, Dispatch(t) PROVE RequestsSeeTheirEntry'
  BY <1>5 DEF Dispatch, Revise
<1>6. ASSUME NEW t \in Threads, DispatchRefused(t) PROVE RequestsSeeTheirEntry'
  BY <1>6 DEF DispatchRefused
<1>7. ASSUME NEW t \in Threads, ProviderCompletes(t) PROVE RequestsSeeTheirEntry'
  BY <1>7 DEF ProviderCompletes, Grow
<1>8. ASSUME NEW t \in Threads, EndTurn(t) PROVE RequestsSeeTheirEntry'
  BY <1>8 DEF EndTurn
<1>9. ASSUME NEW t \in Threads, Accept(t) PROVE RequestsSeeTheirEntry'
  BY <1>9 DEF Accept
<1>10. ASSUME NEW b \in Batches, NEW m \in Modes, PlanStarts(b, m) PROVE
     RequestsSeeTheirEntry'
  BY <1>10 DEF PlanStarts
<1>11. ASSUME NEW b \in Batches, NEW t \in Threads, PlanFinds(b, t) PROVE
     RequestsSeeTheirEntry'
  BY <1>11 DEF PlanFinds
<1>12. ASSUME NEW b \in Batches, NEW t \in Threads, PlanSkips(b, t) PROVE
     RequestsSeeTheirEntry'
  BY <1>12 DEF PlanSkips, Notice, Revise
<1>13. ASSUME NEW b \in Batches, PlanSaved(b) PROVE RequestsSeeTheirEntry'
  BY <1>13 DEF PlanSaved
<1>14. ASSUME NEW b \in Batches, PlanExpires(b) PROVE RequestsSeeTheirEntry'
  BY <1>14 DEF PlanExpires
<1>15. ASSUME NEW q \in Requests, NEW b \in Batches, ExecuteStarts(q, b) PROVE
     RequestsSeeTheirEntry'
  BY <1>15 DEF ExecuteStarts, Doubtful, Ready, Begins, Quiet
<1>16. ASSUME NEW q \in Requests, CheckPasses(q) PROVE RequestsSeeTheirEntry'
  BY <1>16 DEF CheckPasses, Goes, Begins, Unchanged, RowAllows, WorkAllows
<1>17. ASSUME NEW q \in Requests, CheckRefuses(q) PROVE RequestsSeeTheirEntry'
  BY <1>17 DEF CheckRefuses, Goes, Begins, GivesUp
<1>18. ASSUME NEW q \in Requests, InspectRefuses(q) PROVE RequestsSeeTheirEntry'
  BY <1>18 DEF InspectRefuses, Goes, Begins, GivesUp, Notice, Revise
<1>19. ASSUME NEW q \in Requests, Intend(q) PROVE RequestsSeeTheirEntry'
  BY <1>19 DEF Intend, Goes, Begins, Revise, FirstLook
<1>20. ASSUME NEW q \in Requests, NotAsPreviewed(q) PROVE RequestsSeeTheirEntry'
  BY <1>20 DEF NotAsPreviewed, Goes, Begins, GivesUp, FirstLook
<1>21. ASSUME NEW q \in Requests, Reconciles(q) PROVE RequestsSeeTheirEntry'
  BY <1>21 DEF Reconciles, Goes, Begins, Succeeds, Revise
<1>22. ASSUME NEW q \in Requests, StaysInDoubt(q) PROVE RequestsSeeTheirEntry'
  BY <1>22 DEF StaysInDoubt, Goes, Begins, GivesUp
<1>23. ASSUME NEW q \in Requests, Ask(q) PROVE RequestsSeeTheirEntry'
  BY <1>23 DEF Ask, Goes, Begins
<1>24. ASSUME NEW q \in Requests, Confirm(q) PROVE RequestsSeeTheirEntry'
  BY <1>24 DEF Confirm, Goes, Begins, Succeeds, Revise
<1>25. ASSUME NEW q \in Requests, Doubt(q) PROVE RequestsSeeTheirEntry'
  BY <1>25 DEF Doubt, Goes, Begins, Revise
<1>26. ASSUME NEW q \in Requests, Settle(q) PROVE RequestsSeeTheirEntry'
  BY <1>26 DEF Settle
<1>27. ASSUME NEW t \in Threads, Protect(t) PROVE RequestsSeeTheirEntry'
  BY <1>27 DEF Protect, Revise
<1>28. ASSUME NEW t \in Threads, OutsideTurn(t) PROVE RequestsSeeTheirEntry'
  BY <1>28 DEF OutsideTurn, Grow
<1>29. ASSUME NEW t \in Threads, OutsideMove(t) PROVE RequestsSeeTheirEntry'
  BY <1>29 DEF OutsideMove
<1>30. ASSUME NEW t \in Threads, NEW m \in Modes, CodexActs(t, m) PROVE
     RequestsSeeTheirEntry'
  BY <1>30 DEF CodexActs
<1>31. ASSUME NEW t \in Threads, NEW m \in Modes, CodexFails(t, m) PROVE
     RequestsSeeTheirEntry'
  BY <1>31 DEF CodexFails
<1>32. CASE Crash
  BY <1>32 DEF Crash
<1>33. CASE OrphanRemoved
  BY <1>33 DEF OrphanRemoved
<1>34. CASE UNCHANGED vars
  BY <1>34 DEF vars
<1>. HIDE HoldersAssumption DEF TypeOK, Pending, Away, Modes, threadRows, batchRows,
     admission, codex, ClaimsAreHeld, UntouchedIsUnasked, RequestsSeeTheirEntry,
     EntryIsAsFound, Before, Moving, After
<1>. QED
  BY <1>1, <1>2, <1>3, <1>4, <1>5, <1>6, <1>7, <1>8, <1>9, <1>10, <1>11, <1>12,
     <1>13, <1>14, <1>15, <1>16, <1>17, <1>18, <1>19, <1>20, <1>21, <1>22, <1>23, <1>24,
     <1>25, <1>26, <1>27, <1>28, <1>29, <1>30, <1>31, <1>32, <1>33, <1>34
     DEF Next, Turns, Plans, Executes, World

LEMMA UntouchedStaysUnasked ==
    TypeOK /\ ClaimsAreHeld /\ RequestsSeeTheirEntry /\ UntouchedIsUnasked /\
       [Next]_vars => UntouchedIsUnasked'
<1>. SUFFICES ASSUME TypeOK, ClaimsAreHeld, RequestsSeeTheirEntry, UntouchedIsUnasked,
     [Next]_vars PROVE UntouchedIsUnasked'
  OBVIOUS
<1>. USE HoldersAssumption DEF TypeOK, Pending, Away, Modes, threadRows, batchRows,
     admission, codex, ClaimsAreHeld, UntouchedIsUnasked, RequestsSeeTheirEntry,
     EntryIsAsFound
<1>1. ASSUME NEW t \in Threads, Account(t) PROVE UntouchedIsUnasked'
  BY <1>1 DEF Account
<1>2. ASSUME NEW t \in Threads, Admit(t) PROVE UntouchedIsUnasked'
  BY <1>2 DEF Admit
<1>3. ASSUME NEW t \in Threads, TicketAdmits(t) PROVE UntouchedIsUnasked'
  BY <1>3 DEF TicketAdmits
<1>4. ASSUME NEW t \in Threads, TicketExpires(t) PROVE UntouchedIsUnasked'
  BY <1>4 DEF TicketExpires
<1>5. ASSUME NEW t \in Threads, Dispatch(t) PROVE UntouchedIsUnasked'
  BY <1>5 DEF Dispatch, Revise
<1>6. ASSUME NEW t \in Threads, DispatchRefused(t) PROVE UntouchedIsUnasked'
  BY <1>6 DEF DispatchRefused
<1>7. ASSUME NEW t \in Threads, ProviderCompletes(t) PROVE UntouchedIsUnasked'
  BY <1>7 DEF ProviderCompletes, Grow
<1>8. ASSUME NEW t \in Threads, EndTurn(t) PROVE UntouchedIsUnasked'
  BY <1>8 DEF EndTurn
<1>9. ASSUME NEW t \in Threads, Accept(t) PROVE UntouchedIsUnasked'
  BY <1>9 DEF Accept
<1>10. ASSUME NEW b \in Batches, NEW m \in Modes, PlanStarts(b, m) PROVE
     UntouchedIsUnasked'
  BY <1>10 DEF PlanStarts
<1>11. ASSUME NEW b \in Batches, NEW t \in Threads, PlanFinds(b, t) PROVE
     UntouchedIsUnasked'
  BY <1>11 DEF PlanFinds
<1>12. ASSUME NEW b \in Batches, NEW t \in Threads, PlanSkips(b, t) PROVE
     UntouchedIsUnasked'
  BY <1>12 DEF PlanSkips, Notice, Revise
<1>13. ASSUME NEW b \in Batches, PlanSaved(b) PROVE UntouchedIsUnasked'
  BY <1>13 DEF PlanSaved
<1>14. ASSUME NEW b \in Batches, PlanExpires(b) PROVE UntouchedIsUnasked'
  BY <1>14 DEF PlanExpires
<1>15. ASSUME NEW q \in Requests, NEW b \in Batches, ExecuteStarts(q, b) PROVE
     UntouchedIsUnasked'
  BY <1>15 DEF ExecuteStarts, Doubtful, Ready, Begins
<1>16. ASSUME NEW q \in Requests, CheckPasses(q) PROVE UntouchedIsUnasked'
  BY <1>16 DEF CheckPasses, Goes, Begins
<1>17. ASSUME NEW q \in Requests, CheckRefuses(q) PROVE UntouchedIsUnasked'
  BY <1>17 DEF CheckRefuses, Goes, Begins, GivesUp
<1>18. ASSUME NEW q \in Requests, InspectRefuses(q) PROVE UntouchedIsUnasked'
  BY <1>18 DEF InspectRefuses, Goes, Begins, GivesUp, Notice, Revise
<1>19. ASSUME NEW q \in Requests, Intend(q) PROVE UntouchedIsUnasked'
  BY <1>19 DEF Intend, Goes, Begins, Revise, FirstLook
<1>20. ASSUME NEW q \in Requests, NotAsPreviewed(q) PROVE UntouchedIsUnasked'
  BY <1>20 DEF NotAsPreviewed, Goes, Begins, GivesUp, FirstLook
<1>21. ASSUME NEW q \in Requests, Reconciles(q) PROVE UntouchedIsUnasked'
  BY <1>21 DEF Reconciles, Goes, Begins, Succeeds, Revise
<1>22. ASSUME NEW q \in Requests, StaysInDoubt(q) PROVE UntouchedIsUnasked'
  BY <1>22 DEF StaysInDoubt, Goes, Begins, GivesUp
<1>23. ASSUME NEW q \in Requests, Ask(q) PROVE UntouchedIsUnasked'
  BY <1>23 DEF Ask, Goes, Begins
<1>24. ASSUME NEW q \in Requests, Confirm(q) PROVE UntouchedIsUnasked'
  BY <1>24 DEF Confirm, Goes, Begins, Succeeds, Revise
<1>25. ASSUME NEW q \in Requests, Doubt(q) PROVE UntouchedIsUnasked'
  BY <1>25 DEF Doubt, Goes, Begins, Revise
<1>26. ASSUME NEW q \in Requests, Settle(q) PROVE UntouchedIsUnasked'
  BY <1>26 DEF Settle, Doubtful, Ready
<1>27. ASSUME NEW t \in Threads, Protect(t) PROVE UntouchedIsUnasked'
  BY <1>27 DEF Protect, Revise
<1>28. ASSUME NEW t \in Threads, OutsideTurn(t) PROVE UntouchedIsUnasked'
  BY <1>28 DEF OutsideTurn, Grow
<1>29. ASSUME NEW t \in Threads, OutsideMove(t) PROVE UntouchedIsUnasked'
  BY <1>29 DEF OutsideMove
<1>30. ASSUME NEW t \in Threads, NEW m \in Modes, CodexActs(t, m) PROVE
     UntouchedIsUnasked'
  BY <1>30 DEF CodexActs
<1>31. ASSUME NEW t \in Threads, NEW m \in Modes, CodexFails(t, m) PROVE
     UntouchedIsUnasked'
  BY <1>31 DEF CodexFails
<1>32. CASE Crash
  BY <1>32 DEF Crash
<1>33. CASE OrphanRemoved
  BY <1>33 DEF OrphanRemoved
<1>34. CASE UNCHANGED vars
  BY <1>34 DEF vars
<1>. HIDE HoldersAssumption DEF TypeOK, Pending, Away, Modes, threadRows, batchRows,
     admission, codex, ClaimsAreHeld, UntouchedIsUnasked, RequestsSeeTheirEntry,
     EntryIsAsFound
<1>. QED
  BY <1>1, <1>2, <1>3, <1>4, <1>5, <1>6, <1>7, <1>8, <1>9, <1>10, <1>11, <1>12,
     <1>13, <1>14, <1>15, <1>16, <1>17, <1>18, <1>19, <1>20, <1>21, <1>22, <1>23, <1>24,
     <1>25, <1>26, <1>27, <1>28, <1>29, <1>30, <1>31, <1>32, <1>33, <1>34
     DEF Next, Turns, Plans, Executes, World

LEMMA NobodyIsAskedTwice ==
    TypeOK /\ RequestsSeeTheirEntry /\ AskedOnce /\ [Next]_vars => AskedOnce'
<1>. SUFFICES ASSUME TypeOK, RequestsSeeTheirEntry, AskedOnce, [Next]_vars PROVE
     AskedOnce'
  OBVIOUS
<1>. USE HoldersAssumption DEF TypeOK, Pending, Away, Modes, threadRows, batchRows,
     admission, codex, AskedOnce, RequestsSeeTheirEntry, EntryIsAsFound
<1>1. ASSUME NEW t \in Threads, Account(t) PROVE AskedOnce'
  BY <1>1 DEF Account
<1>2. ASSUME NEW t \in Threads, Admit(t) PROVE AskedOnce'
  BY <1>2 DEF Admit
<1>3. ASSUME NEW t \in Threads, TicketAdmits(t) PROVE AskedOnce'
  BY <1>3 DEF TicketAdmits
<1>4. ASSUME NEW t \in Threads, TicketExpires(t) PROVE AskedOnce'
  BY <1>4 DEF TicketExpires
<1>5. ASSUME NEW t \in Threads, Dispatch(t) PROVE AskedOnce'
  BY <1>5 DEF Dispatch, Revise
<1>6. ASSUME NEW t \in Threads, DispatchRefused(t) PROVE AskedOnce'
  BY <1>6 DEF DispatchRefused
<1>7. ASSUME NEW t \in Threads, ProviderCompletes(t) PROVE AskedOnce'
  BY <1>7 DEF ProviderCompletes, Grow
<1>8. ASSUME NEW t \in Threads, EndTurn(t) PROVE AskedOnce'
  BY <1>8 DEF EndTurn
<1>9. ASSUME NEW t \in Threads, Accept(t) PROVE AskedOnce'
  BY <1>9 DEF Accept
<1>10. ASSUME NEW b \in Batches, NEW m \in Modes, PlanStarts(b, m) PROVE AskedOnce'
  BY <1>10 DEF PlanStarts
<1>11. ASSUME NEW b \in Batches, NEW t \in Threads, PlanFinds(b, t) PROVE AskedOnce'
  BY <1>11 DEF PlanFinds
<1>12. ASSUME NEW b \in Batches, NEW t \in Threads, PlanSkips(b, t) PROVE AskedOnce'
  BY <1>12 DEF PlanSkips, Notice, Revise
<1>13. ASSUME NEW b \in Batches, PlanSaved(b) PROVE AskedOnce'
  BY <1>13 DEF PlanSaved
<1>14. ASSUME NEW b \in Batches, PlanExpires(b) PROVE AskedOnce'
  BY <1>14 DEF PlanExpires
<1>15. ASSUME NEW q \in Requests, NEW b \in Batches, ExecuteStarts(q, b) PROVE
     AskedOnce'
  BY <1>15 DEF ExecuteStarts, Doubtful, Ready, Begins
<1>16. ASSUME NEW q \in Requests, CheckPasses(q) PROVE AskedOnce'
  BY <1>16 DEF CheckPasses, Goes, Begins
<1>17. ASSUME NEW q \in Requests, CheckRefuses(q) PROVE AskedOnce'
  BY <1>17 DEF CheckRefuses, Goes, Begins, GivesUp
<1>18. ASSUME NEW q \in Requests, InspectRefuses(q) PROVE AskedOnce'
  BY <1>18 DEF InspectRefuses, Goes, Begins, GivesUp, Notice, Revise
<1>19. ASSUME NEW q \in Requests, Intend(q) PROVE AskedOnce'
  BY <1>19 DEF Intend, Goes, Begins, Revise, FirstLook
<1>20. ASSUME NEW q \in Requests, NotAsPreviewed(q) PROVE AskedOnce'
  BY <1>20 DEF NotAsPreviewed, Goes, Begins, GivesUp, FirstLook
<1>21. ASSUME NEW q \in Requests, Reconciles(q) PROVE AskedOnce'
  BY <1>21 DEF Reconciles, Goes, Begins, Succeeds, Revise
<1>22. ASSUME NEW q \in Requests, StaysInDoubt(q) PROVE AskedOnce'
  BY <1>22 DEF StaysInDoubt, Goes, Begins, GivesUp
<1>23. ASSUME NEW q \in Requests, Ask(q) PROVE AskedOnce'
  BY <1>23 DEF Ask, Goes, Begins
<1>24. ASSUME NEW q \in Requests, Confirm(q) PROVE AskedOnce'
  BY <1>24 DEF Confirm, Goes, Begins, Succeeds, Revise
<1>25. ASSUME NEW q \in Requests, Doubt(q) PROVE AskedOnce'
  BY <1>25 DEF Doubt, Goes, Begins, Revise
<1>26. ASSUME NEW q \in Requests, Settle(q) PROVE AskedOnce'
  BY <1>26 DEF Settle
<1>27. ASSUME NEW t \in Threads, Protect(t) PROVE AskedOnce'
  BY <1>27 DEF Protect, Revise
<1>28. ASSUME NEW t \in Threads, OutsideTurn(t) PROVE AskedOnce'
  BY <1>28 DEF OutsideTurn, Grow
<1>29. ASSUME NEW t \in Threads, OutsideMove(t) PROVE AskedOnce'
  BY <1>29 DEF OutsideMove
<1>30. ASSUME NEW t \in Threads, NEW m \in Modes, CodexActs(t, m) PROVE AskedOnce'
  BY <1>30 DEF CodexActs
<1>31. ASSUME NEW t \in Threads, NEW m \in Modes, CodexFails(t, m) PROVE AskedOnce'
  BY <1>31 DEF CodexFails
<1>32. CASE Crash
  BY <1>32 DEF Crash
<1>33. CASE OrphanRemoved
  BY <1>33 DEF OrphanRemoved
<1>34. CASE UNCHANGED vars
  BY <1>34 DEF vars
<1>. HIDE HoldersAssumption DEF TypeOK, Pending, Away, Modes, threadRows, batchRows,
     admission, codex, AskedOnce, RequestsSeeTheirEntry, EntryIsAsFound
<1>. QED
  BY <1>1, <1>2, <1>3, <1>4, <1>5, <1>6, <1>7, <1>8, <1>9, <1>10, <1>11, <1>12,
     <1>13, <1>14, <1>15, <1>16, <1>17, <1>18, <1>19, <1>20, <1>21, <1>22, <1>23, <1>24,
     <1>25, <1>26, <1>27, <1>28, <1>29, <1>30, <1>31, <1>32, <1>33, <1>34
     DEF Next, Turns, Plans, Executes, World

LEMMA OneBatchKeepsMoving ==
    TypeOK /\ ClaimsAreHeld /\ RequestsSeeTheirEntry /\ UntouchedIsUnasked /\
       OneBatchMoves /\ [Next]_vars => OneBatchMoves'
<1>. SUFFICES ASSUME TypeOK, ClaimsAreHeld, RequestsSeeTheirEntry, UntouchedIsUnasked,
     OneBatchMoves, [Next]_vars PROVE OneBatchMoves'
  OBVIOUS
<1>. USE HoldersAssumption DEF TypeOK, Pending, Away, Modes, threadRows, batchRows,
     admission, codex, OneBatchMoves, ClaimsAreHeld, RequestsSeeTheirEntry,
     EntryIsAsFound, UntouchedIsUnasked, Before, Moving, After
<1>1. ASSUME NEW t \in Threads, Account(t) PROVE OneBatchMoves'
  BY <1>1 DEF Account
<1>2. ASSUME NEW t \in Threads, Admit(t) PROVE OneBatchMoves'
  BY <1>2 DEF Admit
<1>3. ASSUME NEW t \in Threads, TicketAdmits(t) PROVE OneBatchMoves'
  BY <1>3 DEF TicketAdmits
<1>4. ASSUME NEW t \in Threads, TicketExpires(t) PROVE OneBatchMoves'
  BY <1>4 DEF TicketExpires
<1>5. ASSUME NEW t \in Threads, Dispatch(t) PROVE OneBatchMoves'
  BY <1>5 DEF Dispatch, Revise
<1>6. ASSUME NEW t \in Threads, DispatchRefused(t) PROVE OneBatchMoves'
  BY <1>6 DEF DispatchRefused
<1>7. ASSUME NEW t \in Threads, ProviderCompletes(t) PROVE OneBatchMoves'
  BY <1>7 DEF ProviderCompletes, Grow
<1>8. ASSUME NEW t \in Threads, EndTurn(t) PROVE OneBatchMoves'
  BY <1>8 DEF EndTurn
<1>9. ASSUME NEW t \in Threads, Accept(t) PROVE OneBatchMoves'
  BY <1>9 DEF Accept
<1>10. ASSUME NEW b \in Batches, NEW m \in Modes, PlanStarts(b, m) PROVE OneBatchMoves'
  BY <1>10 DEF PlanStarts
<1>11. ASSUME NEW b \in Batches, NEW t \in Threads, PlanFinds(b, t) PROVE OneBatchMoves'
  BY <1>11 DEF PlanFinds
<1>12. ASSUME NEW b \in Batches, NEW t \in Threads, PlanSkips(b, t) PROVE OneBatchMoves'
  BY <1>12 DEF PlanSkips, Notice, Revise
<1>13. ASSUME NEW b \in Batches, PlanSaved(b) PROVE OneBatchMoves'
  BY <1>13 DEF PlanSaved
<1>14. ASSUME NEW b \in Batches, PlanExpires(b) PROVE OneBatchMoves'
  BY <1>14 DEF PlanExpires
<1>15. ASSUME NEW q \in Requests, NEW b \in Batches, ExecuteStarts(q, b) PROVE
     OneBatchMoves'
  BY <1>15 DEF ExecuteStarts, Doubtful, Ready, Begins
<1>16. ASSUME NEW q \in Requests, CheckPasses(q) PROVE OneBatchMoves'
  BY <1>16 DEF CheckPasses, Goes, Begins
<1>17. ASSUME NEW q \in Requests, CheckRefuses(q) PROVE OneBatchMoves'
  BY <1>17 DEF CheckRefuses, Goes, Begins, GivesUp
<1>18. ASSUME NEW q \in Requests, InspectRefuses(q) PROVE OneBatchMoves'
  BY <1>18 DEF InspectRefuses, Goes, Begins, GivesUp, Notice, Revise
<1>19. ASSUME NEW q \in Requests, Intend(q) PROVE OneBatchMoves'
  BY <1>19 DEF Intend, Goes, Begins, Revise, FirstLook
<1>20. ASSUME NEW q \in Requests, NotAsPreviewed(q) PROVE OneBatchMoves'
  BY <1>20 DEF NotAsPreviewed, Goes, Begins, GivesUp, FirstLook
<1>21. ASSUME NEW q \in Requests, Reconciles(q) PROVE OneBatchMoves'
  BY <1>21 DEF Reconciles, Goes, Begins, Succeeds, Revise
<1>22. ASSUME NEW q \in Requests, StaysInDoubt(q) PROVE OneBatchMoves'
  BY <1>22 DEF StaysInDoubt, Goes, Begins, GivesUp
<1>23. ASSUME NEW q \in Requests, Ask(q) PROVE OneBatchMoves'
  BY <1>23 DEF Ask, Goes, Begins
<1>24. ASSUME NEW q \in Requests, Confirm(q) PROVE OneBatchMoves'
  BY <1>24 DEF Confirm, Goes, Begins, Succeeds, Revise
<1>25. ASSUME NEW q \in Requests, Doubt(q) PROVE OneBatchMoves'
  BY <1>25 DEF Doubt, Goes, Begins, Revise
<1>26. ASSUME NEW q \in Requests, Settle(q) PROVE OneBatchMoves'
  BY <1>26 DEF Settle
<1>27. ASSUME NEW t \in Threads, Protect(t) PROVE OneBatchMoves'
  BY <1>27 DEF Protect, Revise
<1>28. ASSUME NEW t \in Threads, OutsideTurn(t) PROVE OneBatchMoves'
  BY <1>28 DEF OutsideTurn, Grow
<1>29. ASSUME NEW t \in Threads, OutsideMove(t) PROVE OneBatchMoves'
  BY <1>29 DEF OutsideMove
<1>30. ASSUME NEW t \in Threads, NEW m \in Modes, CodexActs(t, m) PROVE OneBatchMoves'
  BY <1>30 DEF CodexActs
<1>31. ASSUME NEW t \in Threads, NEW m \in Modes, CodexFails(t, m) PROVE OneBatchMoves'
  BY <1>31 DEF CodexFails
<1>32. CASE Crash
  <2>1. \A c \in Batches, u \in Threads :
          entry'[c][u] \in Pending <=> entry[c][u] \in Pending
    BY <1>32 DEF Crash
  <2>2. UNCHANGED <<archiveState, mode>>
    BY <1>32 DEF Crash
  <2>. HIDE DEF Pending, TypeOK, ClaimsAreHeld, RequestsSeeTheirEntry,
       UntouchedIsUnasked
  <2>. QED
    BY <2>1, <2>2
<1>33. CASE OrphanRemoved
  BY <1>33 DEF OrphanRemoved
<1>34. CASE UNCHANGED vars
  BY <1>34 DEF vars
<1>. HIDE HoldersAssumption DEF TypeOK, Pending, Away, Modes, threadRows, batchRows,
     admission, codex, OneBatchMoves, ClaimsAreHeld, RequestsSeeTheirEntry,
     EntryIsAsFound, UntouchedIsUnasked, Before, Moving, After
<1>. QED
  BY <1>1, <1>2, <1>3, <1>4, <1>5, <1>6, <1>7, <1>8, <1>9, <1>10, <1>11, <1>12,
     <1>13, <1>14, <1>15, <1>16, <1>17, <1>18, <1>19, <1>20, <1>21, <1>22, <1>23, <1>24,
     <1>25, <1>26, <1>27, <1>28, <1>29, <1>30, <1>31, <1>32, <1>33, <1>34
     DEF Next, Turns, Plans, Executes, World

LEMMA TurnsStayOnTheirThread ==
    TypeOK /\ ClaimsAreHeld /\ RequestsSeeTheirEntry /\ TurnsKeepTheirThread /\
       [Next]_vars => TurnsKeepTheirThread'
<1>. SUFFICES ASSUME TypeOK, ClaimsAreHeld, RequestsSeeTheirEntry,
     TurnsKeepTheirThread, [Next]_vars PROVE TurnsKeepTheirThread'
  OBVIOUS
<1>. USE HoldersAssumption DEF TypeOK, Pending, Away, Modes, threadRows, batchRows,
     admission, codex, TurnsKeepTheirThread, ClaimsAreHeld
<1>1. ASSUME NEW t \in Threads, Account(t) PROVE TurnsKeepTheirThread'
  BY <1>1 DEF Account
<1>2. ASSUME NEW t \in Threads, Admit(t) PROVE TurnsKeepTheirThread'
  BY <1>2 DEF Admit
<1>3. ASSUME NEW t \in Threads, TicketAdmits(t) PROVE TurnsKeepTheirThread'
  BY <1>3 DEF TicketAdmits
<1>4. ASSUME NEW t \in Threads, TicketExpires(t) PROVE TurnsKeepTheirThread'
  BY <1>4 DEF TicketExpires
<1>5. ASSUME NEW t \in Threads, Dispatch(t) PROVE TurnsKeepTheirThread'
  BY <1>5 DEF Dispatch, Revise, Usable
<1>6. ASSUME NEW t \in Threads, DispatchRefused(t) PROVE TurnsKeepTheirThread'
  BY <1>6 DEF DispatchRefused
<1>7. ASSUME NEW t \in Threads, ProviderCompletes(t) PROVE TurnsKeepTheirThread'
  BY <1>7 DEF ProviderCompletes, Grow
<1>8. ASSUME NEW t \in Threads, EndTurn(t) PROVE TurnsKeepTheirThread'
  BY <1>8 DEF EndTurn
<1>9. ASSUME NEW t \in Threads, Accept(t) PROVE TurnsKeepTheirThread'
  BY <1>9 DEF Accept
<1>10. ASSUME NEW b \in Batches, NEW m \in Modes, PlanStarts(b, m) PROVE
     TurnsKeepTheirThread'
  BY <1>10 DEF PlanStarts
<1>11. ASSUME NEW b \in Batches, NEW t \in Threads, PlanFinds(b, t) PROVE
     TurnsKeepTheirThread'
  BY <1>11 DEF PlanFinds
<1>12. ASSUME NEW b \in Batches, NEW t \in Threads, PlanSkips(b, t) PROVE
     TurnsKeepTheirThread'
  BY <1>12 DEF PlanSkips, Notice, Revise
<1>13. ASSUME NEW b \in Batches, PlanSaved(b) PROVE TurnsKeepTheirThread'
  BY <1>13 DEF PlanSaved
<1>14. ASSUME NEW b \in Batches, PlanExpires(b) PROVE TurnsKeepTheirThread'
  BY <1>14 DEF PlanExpires
<1>15. ASSUME NEW q \in Requests, NEW b \in Batches, ExecuteStarts(q, b) PROVE
     TurnsKeepTheirThread'
  BY <1>15 DEF ExecuteStarts, Doubtful, Ready, Begins, Quiet
<1>16. ASSUME NEW q \in Requests, CheckPasses(q) PROVE TurnsKeepTheirThread'
  BY <1>16 DEF CheckPasses, Goes, Begins
<1>17. ASSUME NEW q \in Requests, CheckRefuses(q) PROVE TurnsKeepTheirThread'
  BY <1>17 DEF CheckRefuses, Goes, Begins, GivesUp
<1>18. ASSUME NEW q \in Requests, InspectRefuses(q) PROVE TurnsKeepTheirThread'
  BY <1>18 DEF InspectRefuses, Goes, Begins, GivesUp, Notice, Revise
<1>19. ASSUME NEW q \in Requests, Intend(q) PROVE TurnsKeepTheirThread'
  BY <1>19 DEF Intend, Goes, Begins, Revise, FirstLook
<1>20. ASSUME NEW q \in Requests, NotAsPreviewed(q) PROVE TurnsKeepTheirThread'
  BY <1>20 DEF NotAsPreviewed, Goes, Begins, GivesUp, FirstLook
<1>21. ASSUME NEW q \in Requests, Reconciles(q) PROVE TurnsKeepTheirThread'
  BY <1>21 DEF Reconciles, Goes, Begins, Succeeds, Revise
<1>22. ASSUME NEW q \in Requests, StaysInDoubt(q) PROVE TurnsKeepTheirThread'
  BY <1>22 DEF StaysInDoubt, Goes, Begins, GivesUp
<1>23. ASSUME NEW q \in Requests, Ask(q) PROVE TurnsKeepTheirThread'
  BY <1>23 DEF Ask, Goes, Begins
<1>24. ASSUME NEW q \in Requests, Confirm(q) PROVE TurnsKeepTheirThread'
  BY <1>24 DEF Confirm, Goes, Begins, Succeeds, Revise
<1>25. ASSUME NEW q \in Requests, Doubt(q) PROVE TurnsKeepTheirThread'
  BY <1>25 DEF Doubt, Goes, Begins, Revise
<1>26. ASSUME NEW q \in Requests, Settle(q) PROVE TurnsKeepTheirThread'
  BY <1>26 DEF Settle
<1>27. ASSUME NEW t \in Threads, Protect(t) PROVE TurnsKeepTheirThread'
  BY <1>27 DEF Protect, Revise
<1>28. ASSUME NEW t \in Threads, OutsideTurn(t) PROVE TurnsKeepTheirThread'
  BY <1>28 DEF OutsideTurn, Grow
<1>29. ASSUME NEW t \in Threads, OutsideMove(t) PROVE TurnsKeepTheirThread'
  BY <1>29 DEF OutsideMove
<1>30. ASSUME NEW t \in Threads, NEW m \in Modes, CodexActs(t, m) PROVE
     TurnsKeepTheirThread'
  BY <1>30 DEF CodexActs
<1>31. ASSUME NEW t \in Threads, NEW m \in Modes, CodexFails(t, m) PROVE
     TurnsKeepTheirThread'
  BY <1>31 DEF CodexFails
<1>32. CASE Crash
  BY <1>32 DEF Crash
<1>33. CASE OrphanRemoved
  BY <1>33 DEF OrphanRemoved
<1>34. CASE UNCHANGED vars
  BY <1>34 DEF vars
<1>. HIDE HoldersAssumption DEF TypeOK, Pending, Away, Modes, threadRows, batchRows,
     admission, codex, TurnsKeepTheirThread, ClaimsAreHeld
<1>. QED
  BY <1>1, <1>2, <1>3, <1>4, <1>5, <1>6, <1>7, <1>8, <1>9, <1>10, <1>11, <1>12,
     <1>13, <1>14, <1>15, <1>16, <1>17, <1>18, <1>19, <1>20, <1>21, <1>22, <1>23, <1>24,
     <1>25, <1>26, <1>27, <1>28, <1>29, <1>30, <1>31, <1>32, <1>33, <1>34
     DEF Next, Turns, Plans, Executes, World


LEMMA ArchiveIsSafe == Spec => [](TypeOK /\ ArchiveInv)
<1>1. Init => ArchiveInv
  BY HoldersAssumption
     DEF Init, ArchiveInv, OneBatchMoves, ClaimsAreHeld, RequestsSeeTheirEntry,
         UntouchedIsUnasked, AskedOnce, TurnsKeepTheirThread, Pending
<1>2. TypeOK /\ ArchiveInv /\ [Next]_vars => ArchiveInv'
  BY ClaimsAreKept, RequestsKeepTheirEntry, UntouchedStaysUnasked, NobodyIsAskedTwice,
     OneBatchKeepsMoving, TurnsStayOnTheirThread DEF ArchiveInv
<1>. QED
  BY <1>1, <1>2, TypeCorrect, PTL DEF Spec

\* execute() of project-archive.ts: however many previews name a thread and
\* requests work on them, one entry moves it, and its row says so.
THEOREM OneBatchMovesAThread == Spec => []OneBatchMoves
<1>1. ArchiveInv => OneBatchMoves
  BY DEF ArchiveInv
<1>. QED
  BY <1>1, ArchiveIsSafe, PTL

\* beginExecution() and attachThread() of work-ledger.ts: no archive begins
\* on a thread that an agent's turn has in use.
THEOREM TurnsAreSafe == Spec => []TurnsKeepTheirThread
<1>1. ArchiveInv => TurnsKeepTheirThread
  BY DEF ArchiveInv
<1>. QED
  BY <1>1, ArchiveIsSafe, PTL

\* execute() of project-archive.ts: a retry never asks Codex again.
THEOREM CodexIsAskedOnce == Spec => []AskedOnce
<1>1. ArchiveInv => AskedOnce
  BY DEF ArchiveInv
<1>. QED
  BY <1>1, ArchiveIsSafe, PTL

\* The three together: an archive in project-archive.ts moves each thread by one
\* entry, asks Codex once for it, and keeps away from threads of agents' turns.
THEOREM ArchiveIsCareful == Spec => []ArchiveSparesTurns
<1>1. ArchiveInv => ArchiveSparesTurns
  BY DEF ArchiveInv, ArchiveSparesTurns
<1>. QED
  BY <1>1, ArchiveIsSafe, PTL

LEMMA StepMovesAsPreviewed ==
    TypeOK /\ RequestsSeeTheirEntry /\ [Next]_vars => MovesAsPreviewed
<1>. SUFFICES ASSUME TypeOK, RequestsSeeTheirEntry, [Next]_vars PROVE MovesAsPreviewed
  OBVIOUS
<1>. USE HoldersAssumption DEF TypeOK, Pending, Away, Modes, threadRows, batchRows,
     admission, codex, MovesAsPreviewed, RequestsSeeTheirEntry, EntryIsAsFound
<1>1. ASSUME NEW t \in Threads, Account(t) PROVE MovesAsPreviewed
  BY <1>1 DEF Account
<1>2. ASSUME NEW t \in Threads, Admit(t) PROVE MovesAsPreviewed
  BY <1>2 DEF Admit
<1>3. ASSUME NEW t \in Threads, TicketAdmits(t) PROVE MovesAsPreviewed
  BY <1>3 DEF TicketAdmits
<1>4. ASSUME NEW t \in Threads, TicketExpires(t) PROVE MovesAsPreviewed
  BY <1>4 DEF TicketExpires
<1>5. ASSUME NEW t \in Threads, Dispatch(t) PROVE MovesAsPreviewed
  BY <1>5 DEF Dispatch, Revise
<1>6. ASSUME NEW t \in Threads, DispatchRefused(t) PROVE MovesAsPreviewed
  BY <1>6 DEF DispatchRefused
<1>7. ASSUME NEW t \in Threads, ProviderCompletes(t) PROVE MovesAsPreviewed
  BY <1>7 DEF ProviderCompletes, Grow
<1>8. ASSUME NEW t \in Threads, EndTurn(t) PROVE MovesAsPreviewed
  BY <1>8 DEF EndTurn
<1>9. ASSUME NEW t \in Threads, Accept(t) PROVE MovesAsPreviewed
  BY <1>9 DEF Accept
<1>10. ASSUME NEW b \in Batches, NEW m \in Modes, PlanStarts(b, m) PROVE
     MovesAsPreviewed
  BY <1>10 DEF PlanStarts
<1>11. ASSUME NEW b \in Batches, NEW t \in Threads, PlanFinds(b, t) PROVE
     MovesAsPreviewed
  BY <1>11 DEF PlanFinds
<1>12. ASSUME NEW b \in Batches, NEW t \in Threads, PlanSkips(b, t) PROVE
     MovesAsPreviewed
  BY <1>12 DEF PlanSkips, Notice, Revise
<1>13. ASSUME NEW b \in Batches, PlanSaved(b) PROVE MovesAsPreviewed
  BY <1>13 DEF PlanSaved
<1>14. ASSUME NEW b \in Batches, PlanExpires(b) PROVE MovesAsPreviewed
  BY <1>14 DEF PlanExpires
<1>15. ASSUME NEW q \in Requests, NEW b \in Batches, ExecuteStarts(q, b) PROVE
     MovesAsPreviewed
  BY <1>15 DEF ExecuteStarts, Doubtful, Ready, Begins
<1>16. ASSUME NEW q \in Requests, CheckPasses(q) PROVE MovesAsPreviewed
  BY <1>16 DEF CheckPasses, Goes, Begins
<1>17. ASSUME NEW q \in Requests, CheckRefuses(q) PROVE MovesAsPreviewed
  BY <1>17 DEF CheckRefuses, Goes, Begins, GivesUp
<1>18. ASSUME NEW q \in Requests, InspectRefuses(q) PROVE MovesAsPreviewed
  BY <1>18 DEF InspectRefuses, Goes, Begins, GivesUp, Notice, Revise
<1>19. ASSUME NEW q \in Requests, Intend(q) PROVE MovesAsPreviewed
  BY <1>19 DEF Intend, Goes, Begins, Revise, FirstLook, AsPreviewed
<1>20. ASSUME NEW q \in Requests, NotAsPreviewed(q) PROVE MovesAsPreviewed
  BY <1>20 DEF NotAsPreviewed, Goes, Begins, GivesUp, FirstLook
<1>21. ASSUME NEW q \in Requests, Reconciles(q) PROVE MovesAsPreviewed
  BY <1>21 DEF Reconciles, Goes, Begins, Succeeds, Revise
<1>22. ASSUME NEW q \in Requests, StaysInDoubt(q) PROVE MovesAsPreviewed
  BY <1>22 DEF StaysInDoubt, Goes, Begins, GivesUp
<1>23. ASSUME NEW q \in Requests, Ask(q) PROVE MovesAsPreviewed
  BY <1>23 DEF Ask, Goes, Begins
<1>24. ASSUME NEW q \in Requests, Confirm(q) PROVE MovesAsPreviewed
  BY <1>24 DEF Confirm, Goes, Begins, Succeeds, Revise
<1>25. ASSUME NEW q \in Requests, Doubt(q) PROVE MovesAsPreviewed
  BY <1>25 DEF Doubt, Goes, Begins, Revise
<1>26. ASSUME NEW q \in Requests, Settle(q) PROVE MovesAsPreviewed
  BY <1>26 DEF Settle
<1>27. ASSUME NEW t \in Threads, Protect(t) PROVE MovesAsPreviewed
  BY <1>27 DEF Protect, Revise
<1>28. ASSUME NEW t \in Threads, OutsideTurn(t) PROVE MovesAsPreviewed
  BY <1>28 DEF OutsideTurn, Grow
<1>29. ASSUME NEW t \in Threads, OutsideMove(t) PROVE MovesAsPreviewed
  BY <1>29 DEF OutsideMove
<1>30. ASSUME NEW t \in Threads, NEW m \in Modes, CodexActs(t, m) PROVE MovesAsPreviewed
  BY <1>30 DEF CodexActs
<1>31. ASSUME NEW t \in Threads, NEW m \in Modes, CodexFails(t, m) PROVE
     MovesAsPreviewed
  BY <1>31 DEF CodexFails
<1>32. ASSUME Crash PROVE MovesAsPreviewed
  BY <1>32 DEF Crash
<1>33. ASSUME OrphanRemoved PROVE MovesAsPreviewed
  BY <1>33 DEF OrphanRemoved
<1>34. ASSUME UNCHANGED vars PROVE MovesAsPreviewed
  BY <1>34 DEF vars
<1>. HIDE HoldersAssumption DEF TypeOK, Pending, Away, Modes, threadRows, batchRows,
     admission, codex, MovesAsPreviewed, RequestsSeeTheirEntry, EntryIsAsFound
<1>. QED
  BY <1>1, <1>2, <1>3, <1>4, <1>5, <1>6, <1>7, <1>8, <1>9, <1>10, <1>11, <1>12,
     <1>13, <1>14, <1>15, <1>16, <1>17, <1>18, <1>19, <1>20, <1>21, <1>22, <1>23, <1>24,
     <1>25, <1>26, <1>27, <1>28, <1>29, <1>30, <1>31, <1>32, <1>33, <1>34
     DEF Next, Turns, Plans, Executes, World


\* execute() of project-archive.ts: what starts to move is what plan() showed.
THEOREM PreviewIsBinding == Spec => MovesWhatWasPreviewed
<1>1. TypeOK /\ ArchiveInv /\ [Next]_vars => [MovesAsPreviewed]_vars
  BY StepMovesAsPreviewed DEF ArchiveInv
<1>. QED
  BY <1>1, ArchiveIsSafe, PTL DEF Spec, MovesWhatWasPreviewed

--------------------------------------------------------------------------------
(* DevSpace alone moves threads.                                            *)

NoOtherMoves == Outside \intersect {"archive", "unarchive"} = {}

LEMMA RowsKeepFollowingCodex ==
    NoOtherMoves /\ TypeOK /\ ClaimsAreHeld /\ RequestsSeeTheirEntry /\
       UntouchedIsUnasked /\ OneBatchMoves /\ CodexFollows /\ [Next]_vars =>
       ArchivedInCodex'
<1>. SUFFICES ASSUME NoOtherMoves, TypeOK, ClaimsAreHeld, RequestsSeeTheirEntry,
     UntouchedIsUnasked, OneBatchMoves, CodexFollows, [Next]_vars PROVE
     ArchivedInCodex'
  OBVIOUS
<1>. USE HoldersAssumption DEF TypeOK, Pending, Away, Modes, threadRows, batchRows,
     admission, codex, NoOtherMoves, OneBatchMoves, RequestsSeeTheirEntry,
     EntryIsAsFound, CodexFollows, Unmoved, Before, Moving, After, ArchivedInCodex,
     MovesUnderWay
<1>1. ASSUME NEW t \in Threads, Account(t) PROVE ArchivedInCodex'
  BY <1>1 DEF Account
<1>2. ASSUME NEW t \in Threads, Admit(t) PROVE ArchivedInCodex'
  BY <1>2 DEF Admit
<1>3. ASSUME NEW t \in Threads, TicketAdmits(t) PROVE ArchivedInCodex'
  BY <1>3 DEF TicketAdmits
<1>4. ASSUME NEW t \in Threads, TicketExpires(t) PROVE ArchivedInCodex'
  BY <1>4 DEF TicketExpires
<1>5. ASSUME NEW t \in Threads, Dispatch(t) PROVE ArchivedInCodex'
  BY <1>5 DEF Dispatch, Revise
<1>6. ASSUME NEW t \in Threads, DispatchRefused(t) PROVE ArchivedInCodex'
  BY <1>6 DEF DispatchRefused
<1>7. ASSUME NEW t \in Threads, ProviderCompletes(t) PROVE ArchivedInCodex'
  BY <1>7 DEF ProviderCompletes, Grow
<1>8. ASSUME NEW t \in Threads, EndTurn(t) PROVE ArchivedInCodex'
  BY <1>8 DEF EndTurn
<1>9. ASSUME NEW t \in Threads, Accept(t) PROVE ArchivedInCodex'
  BY <1>9 DEF Accept
<1>10. ASSUME NEW b \in Batches, NEW m \in Modes, PlanStarts(b, m) PROVE
     ArchivedInCodex'
  BY <1>10 DEF PlanStarts
<1>11. ASSUME NEW b \in Batches, NEW t \in Threads, PlanFinds(b, t) PROVE
     ArchivedInCodex'
  BY <1>11 DEF PlanFinds
<1>12. ASSUME NEW b \in Batches, NEW t \in Threads, PlanSkips(b, t) PROVE
     ArchivedInCodex'
  BY <1>12 DEF PlanSkips, Notice, Revise
<1>13. ASSUME NEW b \in Batches, PlanSaved(b) PROVE ArchivedInCodex'
  BY <1>13 DEF PlanSaved
<1>14. ASSUME NEW b \in Batches, PlanExpires(b) PROVE ArchivedInCodex'
  BY <1>14 DEF PlanExpires
<1>15. ASSUME NEW q \in Requests, NEW b \in Batches, ExecuteStarts(q, b) PROVE
     ArchivedInCodex'
  BY <1>15 DEF ExecuteStarts, Doubtful, Ready, Begins
<1>16. ASSUME NEW q \in Requests, CheckPasses(q) PROVE ArchivedInCodex'
  BY <1>16 DEF CheckPasses, Goes, Begins
<1>17. ASSUME NEW q \in Requests, CheckRefuses(q) PROVE ArchivedInCodex'
  BY <1>17 DEF CheckRefuses, Goes, Begins, GivesUp
<1>18. ASSUME NEW q \in Requests, InspectRefuses(q) PROVE ArchivedInCodex'
  BY <1>18 DEF InspectRefuses, Goes, Begins, GivesUp, Notice, Revise
<1>19. ASSUME NEW q \in Requests, Intend(q) PROVE ArchivedInCodex'
  BY <1>19 DEF Intend, Goes, Begins, Revise, FirstLook
<1>20. ASSUME NEW q \in Requests, NotAsPreviewed(q) PROVE ArchivedInCodex'
  BY <1>20 DEF NotAsPreviewed, Goes, Begins, GivesUp, FirstLook
<1>21. ASSUME NEW q \in Requests, Reconciles(q) PROVE ArchivedInCodex'
  BY <1>21 DEF Reconciles, Goes, Begins, Succeeds, Revise, AsIntended
<1>22. ASSUME NEW q \in Requests, StaysInDoubt(q) PROVE ArchivedInCodex'
  BY <1>22 DEF StaysInDoubt, Goes, Begins, GivesUp
<1>23. ASSUME NEW q \in Requests, Ask(q) PROVE ArchivedInCodex'
  BY <1>23 DEF Ask, Goes, Begins
<1>24. ASSUME NEW q \in Requests, Confirm(q) PROVE ArchivedInCodex'
  BY <1>24 DEF Confirm, Goes, Begins, Succeeds, Revise, AsIntended
<1>25. ASSUME NEW q \in Requests, Doubt(q) PROVE ArchivedInCodex'
  BY <1>25 DEF Doubt, Goes, Begins, Revise
<1>26. ASSUME NEW q \in Requests, Settle(q) PROVE ArchivedInCodex'
  BY <1>26 DEF Settle
<1>27. ASSUME NEW t \in Threads, Protect(t) PROVE ArchivedInCodex'
  BY <1>27 DEF Protect, Revise
<1>28. ASSUME NEW t \in Threads, OutsideTurn(t) PROVE ArchivedInCodex'
  BY <1>28 DEF OutsideTurn, Grow
<1>29. ASSUME NEW t \in Threads, OutsideMove(t) PROVE ArchivedInCodex'
  BY <1>29 DEF OutsideMove
<1>30. ASSUME NEW t \in Threads, NEW m \in Modes, CodexActs(t, m) PROVE ArchivedInCodex'
  BY <1>30 DEF CodexActs
<1>31. ASSUME NEW t \in Threads, NEW m \in Modes, CodexFails(t, m) PROVE
     ArchivedInCodex'
  BY <1>31 DEF CodexFails
<1>32. CASE Crash
  BY <1>32 DEF Crash
<1>33. CASE OrphanRemoved
  BY <1>33 DEF OrphanRemoved
<1>34. CASE UNCHANGED vars
  BY <1>34 DEF vars
<1>. HIDE HoldersAssumption DEF TypeOK, Pending, Away, Modes, threadRows, batchRows,
     admission, codex, NoOtherMoves, OneBatchMoves, RequestsSeeTheirEntry,
     EntryIsAsFound, CodexFollows, Unmoved, Before, Moving, After, ArchivedInCodex,
     MovesUnderWay
<1>. QED
  BY <1>1, <1>2, <1>3, <1>4, <1>5, <1>6, <1>7, <1>8, <1>9, <1>10, <1>11, <1>12,
     <1>13, <1>14, <1>15, <1>16, <1>17, <1>18, <1>19, <1>20, <1>21, <1>22, <1>23, <1>24,
     <1>25, <1>26, <1>27, <1>28, <1>29, <1>30, <1>31, <1>32, <1>33, <1>34
     DEF Next, Turns, Plans, Executes, World

LEMMA MovesStayUnderWay ==
    NoOtherMoves /\ TypeOK /\ ClaimsAreHeld /\ RequestsSeeTheirEntry /\
       UntouchedIsUnasked /\ OneBatchMoves /\ CodexFollows /\ [Next]_vars =>
       MovesUnderWay'
<1>. SUFFICES ASSUME NoOtherMoves, TypeOK, ClaimsAreHeld, RequestsSeeTheirEntry,
     UntouchedIsUnasked, OneBatchMoves, CodexFollows, [Next]_vars PROVE MovesUnderWay'
  OBVIOUS
<1>. USE HoldersAssumption DEF TypeOK, Pending, Away, Modes, threadRows, batchRows,
     admission, codex, Unmoved
<1>. DEFINE Kept == \A t \in Threads, m \in Modes : <<t, m>> \in rpc' =>
        /\ <<t, m>> \in rpc
        /\ Unmoved(t, m)' <=> Unmoved(t, m)
        /\ \A b \in Batches : entry[b][t] \in Pending /\ mode[b] = m
             => entry'[b][t] \in Pending /\ mode'[b] = m
<1>0. Kept => MovesUnderWay'
  <2>. SUFFICES ASSUME Kept, NEW t \in Threads, NEW m \in Modes, <<t, m>> \in rpc'
                PROVE  /\ Unmoved(t, m)'
                       /\ \E b \in Batches : entry'[b][t] \in Pending /\ mode'[b] = m
    BY DEF MovesUnderWay
  <2>. HIDE DEF TypeOK, Unmoved, Modes, Pending
  <2>1. <<t, m>> \in rpc
    OBVIOUS
  <2>2. Unmoved(t, m) /\ \E b \in Batches : entry[b][t] \in Pending /\ mode[b] = m
    BY <2>1 DEF MovesUnderWay, CodexFollows
  <2>. QED
    BY <2>1, <2>2
<1>1. ASSUME NEW t \in Threads, Account(t) PROVE Kept
  BY <1>1 DEF Account
<1>2. ASSUME NEW t \in Threads, Admit(t) PROVE Kept
  BY <1>2 DEF Admit
<1>3. ASSUME NEW t \in Threads, TicketAdmits(t) PROVE Kept
  BY <1>3 DEF TicketAdmits
<1>4. ASSUME NEW t \in Threads, TicketExpires(t) PROVE Kept
  BY <1>4 DEF TicketExpires
<1>5. ASSUME NEW t \in Threads, Dispatch(t) PROVE Kept
  BY <1>5 DEF Dispatch, Revise
<1>6. ASSUME NEW t \in Threads, DispatchRefused(t) PROVE Kept
  BY <1>6 DEF DispatchRefused
<1>7. ASSUME NEW t \in Threads, ProviderCompletes(t) PROVE Kept
  BY <1>7 DEF ProviderCompletes, Grow
<1>8. ASSUME NEW t \in Threads, EndTurn(t) PROVE Kept
  BY <1>8 DEF EndTurn
<1>9. ASSUME NEW t \in Threads, Accept(t) PROVE Kept
  BY <1>9 DEF Accept
<1>10. ASSUME NEW b \in Batches, NEW m \in Modes, PlanStarts(b, m) PROVE Kept
  BY <1>10 DEF PlanStarts, UntouchedIsUnasked
<1>11. ASSUME NEW b \in Batches, NEW t \in Threads, PlanFinds(b, t) PROVE Kept
  BY <1>11 DEF PlanFinds
<1>12. ASSUME NEW b \in Batches, NEW t \in Threads, PlanSkips(b, t) PROVE Kept
  BY <1>12 DEF PlanSkips, Notice, Revise
<1>13. ASSUME NEW b \in Batches, PlanSaved(b) PROVE Kept
  BY <1>13 DEF PlanSaved
<1>14. ASSUME NEW b \in Batches, PlanExpires(b) PROVE Kept
  BY <1>14 DEF PlanExpires
<1>15. ASSUME NEW q \in Requests, NEW b \in Batches, ExecuteStarts(q, b) PROVE Kept
  BY <1>15 DEF ExecuteStarts, Doubtful, Ready, Begins
<1>16. ASSUME NEW q \in Requests, CheckPasses(q) PROVE Kept
  BY <1>16 DEF CheckPasses, Goes, Begins
<1>17. ASSUME NEW q \in Requests, CheckRefuses(q) PROVE Kept
  BY <1>17 DEF CheckRefuses, Goes, Begins, GivesUp, RequestsSeeTheirEntry,
       EntryIsAsFound
<1>18. ASSUME NEW q \in Requests, InspectRefuses(q) PROVE Kept
  BY <1>18 DEF InspectRefuses, Goes, Begins, GivesUp, Notice, Revise,
       RequestsSeeTheirEntry, EntryIsAsFound
<1>19. ASSUME NEW q \in Requests, Intend(q) PROVE Kept
  BY <1>19 DEF Intend, Goes, Begins, Revise, FirstLook, RequestsSeeTheirEntry,
       EntryIsAsFound
<1>20. ASSUME NEW q \in Requests, NotAsPreviewed(q) PROVE Kept
  BY <1>20 DEF NotAsPreviewed, Goes, Begins, GivesUp, FirstLook,
       RequestsSeeTheirEntry, EntryIsAsFound
<1>21. ASSUME NEW q \in Requests, Reconciles(q) PROVE Kept
  <2>. DEFINE r == request[q]
  <2>1. r.batch \in Batches /\ r.thread \in Threads /\ entry[r.batch][r.thread] \in
       Pending
    BY <1>21 DEF Reconciles, RequestsSeeTheirEntry, EntryIsAsFound
  <2>2. \A m \in Modes : <<r.thread, m>> \notin rpc
    <3>. SUFFICES ASSUME NEW m \in Modes, <<r.thread, m>> \in rpc PROVE FALSE
      OBVIOUS
    <3>1. Unmoved(r.thread, m) /\ \E b \in Batches : entry[b][r.thread] \in Pending /\
         mode[b] = m
      <4>. HIDE DEF TypeOK, Unmoved, Modes, Pending, r
      <4>. QED
        BY <2>1 DEF MovesUnderWay, CodexFollows
    <3>2. m = mode[r.batch]
      <4>. HIDE DEF TypeOK, Pending, r
      <4>. QED
        BY <2>1, <3>1 DEF OneBatchMoves
    <3>. QED
      BY <1>21, <3>1, <3>2 DEF Reconciles, AsIntended
  <2>3. \A t \in Threads : t # r.thread => \A b \in Batches : entry'[b][t] = entry[b][t]
    BY <1>21, <2>1 DEF Reconciles, Succeeds
  <2>4. UNCHANGED <<mode, rpc, archived>>
    BY <1>21 DEF Reconciles
  <2>. HIDE DEF TypeOK, Pending, r
  <2>. QED
    BY <2>2, <2>3, <2>4
<1>22. ASSUME NEW q \in Requests, StaysInDoubt(q) PROVE Kept
  BY <1>22 DEF StaysInDoubt, Goes, Begins, GivesUp, RequestsSeeTheirEntry,
       EntryIsAsFound
<1>23. ASSUME NEW q \in Requests, Ask(q) PROVE MovesUnderWay'
  <2>. DEFINE r == request[q]
  <2>1. r.batch \in Batches /\ r.thread \in Threads /\ mode[r.batch] \in Modes
    BY <1>23 DEF Ask
  <2>2. entry[r.batch][r.thread] = "executing" /\ Unmoved(r.thread, mode[r.batch])
    <3>1. entry[r.batch][r.thread] = "executing"
      BY <1>23 DEF Ask, RequestsSeeTheirEntry, EntryIsAsFound
    <3>2. Unmoved(r.thread, mode[r.batch])
      <4>. HIDE DEF Unmoved
      <4>. QED
        BY <1>23 DEF Ask, CodexFollows, NotYetAsked
    <3>. QED
      BY <3>1, <3>2
  <2>3. UNCHANGED <<entry, mode, archived>> /\ rpc' = rpc \union {<<r.thread,
       mode[r.batch]>>}
    BY <1>23 DEF Ask
  <2>. SUFFICES ASSUME NEW t \in Threads, NEW m \in Modes, <<t, m>> \in rpc'
                PROVE  /\ Unmoved(t, m)'
                       /\ \E b \in Batches : entry'[b][t] \in Pending /\ mode'[b] = m
    BY DEF MovesUnderWay
  <2>. HIDE DEF TypeOK, r
  <2>4. CASE <<t, m>> \in rpc
    <3>1. Unmoved(t, m) /\ \E b \in Batches : entry[b][t] \in Pending /\ mode[b] = m
      <4>. HIDE DEF Unmoved, Modes, Pending
      <4>. QED
        BY <2>4 DEF MovesUnderWay, CodexFollows
    <3>. QED
      BY <2>3, <3>1
  <2>5. CASE t = r.thread /\ m = mode[r.batch]
    BY <2>1, <2>2, <2>3, <2>5
  <2>. QED
    BY <2>3, <2>4, <2>5
<1>24. ASSUME NEW q \in Requests, Confirm(q) PROVE Kept
  <2>. DEFINE r == request[q]
  <2>1. r.batch \in Batches /\ r.thread \in Threads /\ entry[r.batch][r.thread] \in
       Pending
    BY <1>24 DEF Confirm, RequestsSeeTheirEntry, EntryIsAsFound
  <2>2. \A m \in Modes : <<r.thread, m>> \notin rpc
    <3>. SUFFICES ASSUME NEW m \in Modes, <<r.thread, m>> \in rpc PROVE FALSE
      OBVIOUS
    <3>1. Unmoved(r.thread, m) /\ \E b \in Batches : entry[b][r.thread] \in Pending /\
         mode[b] = m
      <4>. HIDE DEF TypeOK, Unmoved, Modes, Pending, r
      <4>. QED
        BY <2>1 DEF MovesUnderWay, CodexFollows
    <3>2. m = mode[r.batch]
      <4>. HIDE DEF TypeOK, Pending, r
      <4>. QED
        BY <2>1, <3>1 DEF OneBatchMoves
    <3>. QED
      BY <1>24, <3>1, <3>2 DEF Confirm, AsIntended
  <2>3. \A t \in Threads : t # r.thread => \A b \in Batches : entry'[b][t] = entry[b][t]
    BY <1>24, <2>1 DEF Confirm, Succeeds
  <2>4. UNCHANGED <<mode, rpc, archived>>
    BY <1>24 DEF Confirm
  <2>. HIDE DEF TypeOK, Pending, r
  <2>. QED
    BY <2>2, <2>3, <2>4
<1>25. ASSUME NEW q \in Requests, Doubt(q) PROVE Kept
  BY <1>25 DEF Doubt, Goes, Begins, Revise, RequestsSeeTheirEntry, EntryIsAsFound
<1>26. ASSUME NEW q \in Requests, Settle(q) PROVE Kept
  BY <1>26 DEF Settle
<1>27. ASSUME NEW t \in Threads, Protect(t) PROVE Kept
  BY <1>27 DEF Protect, Revise
<1>28. ASSUME NEW t \in Threads, OutsideTurn(t) PROVE Kept
  BY <1>28 DEF OutsideTurn, Grow
<1>29. ASSUME NEW t \in Threads, OutsideMove(t) PROVE Kept
  BY <1>29 DEF OutsideMove, NoOtherMoves
<1>30. ASSUME NEW t \in Threads, NEW m \in Modes, CodexActs(t, m) PROVE Kept
  BY <1>30 DEF CodexActs, OneBatchMoves, MovesUnderWay, CodexFollows
<1>31. ASSUME NEW t \in Threads, NEW m \in Modes, CodexFails(t, m) PROVE Kept
  BY <1>31 DEF CodexFails
<1>32. ASSUME Crash PROVE Kept
  <2>1. \A c \in Batches, u \in Threads :
          entry[c][u] \in Pending => entry'[c][u] \in Pending
    BY <1>32 DEF Crash, UntouchedIsUnasked
  <2>2. UNCHANGED <<mode, rpc, archived>>
    BY <1>32 DEF Crash
  <2>. HIDE DEF TypeOK, Pending
  <2>. QED
    BY <2>1, <2>2
<1>33. ASSUME OrphanRemoved PROVE Kept
  BY <1>33 DEF OrphanRemoved
<1>34. ASSUME UNCHANGED vars PROVE Kept
  BY <1>34 DEF vars
<1>. HIDE HoldersAssumption DEF TypeOK, Pending, Away, Modes, threadRows, batchRows,
     admission, codex, Unmoved
<1>. QED
  BY <1>0, <1>1, <1>2, <1>3, <1>4, <1>5, <1>6, <1>7, <1>8, <1>9, <1>10, <1>11,
     <1>12, <1>13, <1>14, <1>15, <1>16, <1>17, <1>18, <1>19, <1>20, <1>21, <1>22, <1>23,
     <1>24, <1>25, <1>26, <1>27, <1>28, <1>29, <1>30, <1>31, <1>32, <1>33, <1>34
     DEF Next, Turns, Plans, Executes, World

LEMMA NotYetAskedStays ==
    NoOtherMoves /\ TypeOK /\ ClaimsAreHeld /\ RequestsSeeTheirEntry /\
       UntouchedIsUnasked /\ OneBatchMoves /\ CodexFollows /\ [Next]_vars =>
       NotYetAsked'
<1>. SUFFICES ASSUME NoOtherMoves, TypeOK, ClaimsAreHeld, RequestsSeeTheirEntry,
     UntouchedIsUnasked, OneBatchMoves, CodexFollows, [Next]_vars PROVE NotYetAsked'
  OBVIOUS
<1>. USE HoldersAssumption DEF TypeOK, Pending, Away, Modes, threadRows, batchRows,
     admission, codex, NoOtherMoves, OneBatchMoves, RequestsSeeTheirEntry,
     EntryIsAsFound, CodexFollows, Unmoved, Before, Moving, After, MovesUnderWay,
     NotYetAsked, ArchivedInCodex, ClaimsAreHeld
<1>1. ASSUME NEW t \in Threads, Account(t) PROVE NotYetAsked'
  BY <1>1 DEF Account
<1>2. ASSUME NEW t \in Threads, Admit(t) PROVE NotYetAsked'
  BY <1>2 DEF Admit
<1>3. ASSUME NEW t \in Threads, TicketAdmits(t) PROVE NotYetAsked'
  BY <1>3 DEF TicketAdmits
<1>4. ASSUME NEW t \in Threads, TicketExpires(t) PROVE NotYetAsked'
  BY <1>4 DEF TicketExpires
<1>5. ASSUME NEW t \in Threads, Dispatch(t) PROVE NotYetAsked'
  BY <1>5 DEF Dispatch, Revise
<1>6. ASSUME NEW t \in Threads, DispatchRefused(t) PROVE NotYetAsked'
  BY <1>6 DEF DispatchRefused
<1>7. ASSUME NEW t \in Threads, ProviderCompletes(t) PROVE NotYetAsked'
  BY <1>7 DEF ProviderCompletes, Grow
<1>8. ASSUME NEW t \in Threads, EndTurn(t) PROVE NotYetAsked'
  BY <1>8 DEF EndTurn
<1>9. ASSUME NEW t \in Threads, Accept(t) PROVE NotYetAsked'
  BY <1>9 DEF Accept
<1>10. ASSUME NEW b \in Batches, NEW m \in Modes, PlanStarts(b, m) PROVE NotYetAsked'
  BY <1>10 DEF PlanStarts
<1>11. ASSUME NEW b \in Batches, NEW t \in Threads, PlanFinds(b, t) PROVE NotYetAsked'
  BY <1>11 DEF PlanFinds
<1>12. ASSUME NEW b \in Batches, NEW t \in Threads, PlanSkips(b, t) PROVE NotYetAsked'
  BY <1>12 DEF PlanSkips, Notice, Revise
<1>13. ASSUME NEW b \in Batches, PlanSaved(b) PROVE NotYetAsked'
  BY <1>13 DEF PlanSaved
<1>14. ASSUME NEW b \in Batches, PlanExpires(b) PROVE NotYetAsked'
  BY <1>14 DEF PlanExpires
<1>15. ASSUME NEW q \in Requests, NEW b \in Batches, ExecuteStarts(q, b) PROVE
     NotYetAsked'
  <2>. HIDE DEF MovesUnderWay, ArchivedInCodex, OneBatchMoves, RequestsSeeTheirEntry
  <2>1. \A u \in Requests : u # q => request'[u] = Away
    BY <1>15 DEF ExecuteStarts, Begins, Quiet
  <2>2. request'[q].at \in {"check", "settle"}
    BY <1>15 DEF ExecuteStarts, Begins
  <2>. QED
    BY <2>1, <2>2, SMTT(30)
<1>16. ASSUME NEW q \in Requests, CheckPasses(q) PROVE NotYetAsked'
  BY <1>16 DEF CheckPasses, Goes, Begins
<1>17. ASSUME NEW q \in Requests, CheckRefuses(q) PROVE NotYetAsked'
  BY <1>17 DEF CheckRefuses, Goes, Begins, GivesUp
<1>18. ASSUME NEW q \in Requests, InspectRefuses(q) PROVE NotYetAsked'
  BY <1>18 DEF InspectRefuses, Goes, Begins, GivesUp, Notice, Revise
<1>19. ASSUME NEW q \in Requests, Intend(q) PROVE NotYetAsked'
  BY <1>19 DEF Intend, Goes, Begins, Revise, FirstLook
<1>20. ASSUME NEW q \in Requests, NotAsPreviewed(q) PROVE NotYetAsked'
  BY <1>20 DEF NotAsPreviewed, Goes, Begins, GivesUp, FirstLook
<1>21. ASSUME NEW q \in Requests, Reconciles(q) PROVE NotYetAsked'
  BY <1>21 DEF Reconciles, Goes, Begins, Succeeds, Revise, AsIntended
<1>22. ASSUME NEW q \in Requests, StaysInDoubt(q) PROVE NotYetAsked'
  BY <1>22 DEF StaysInDoubt, Goes, Begins, GivesUp
<1>23. ASSUME NEW q \in Requests, Ask(q) PROVE NotYetAsked'
  BY <1>23 DEF Ask, Goes, Begins
<1>24. ASSUME NEW q \in Requests, Confirm(q) PROVE NotYetAsked'
  BY <1>24 DEF Confirm, Goes, Begins, Succeeds, Revise, AsIntended
<1>25. ASSUME NEW q \in Requests, Doubt(q) PROVE NotYetAsked'
  BY <1>25 DEF Doubt, Goes, Begins, Revise
<1>26. ASSUME NEW q \in Requests, Settle(q) PROVE NotYetAsked'
  BY <1>26 DEF Settle
<1>27. ASSUME NEW t \in Threads, Protect(t) PROVE NotYetAsked'
  BY <1>27 DEF Protect, Revise
<1>28. ASSUME NEW t \in Threads, OutsideTurn(t) PROVE NotYetAsked'
  BY <1>28 DEF OutsideTurn, Grow
<1>29. ASSUME NEW t \in Threads, OutsideMove(t) PROVE NotYetAsked'
  BY <1>29 DEF OutsideMove
<1>30. ASSUME NEW t \in Threads, NEW m \in Modes, CodexActs(t, m) PROVE NotYetAsked'
  BY <1>30 DEF CodexActs
<1>31. ASSUME NEW t \in Threads, NEW m \in Modes, CodexFails(t, m) PROVE NotYetAsked'
  BY <1>31 DEF CodexFails
<1>32. CASE Crash
  BY <1>32 DEF Crash
<1>33. CASE OrphanRemoved
  BY <1>33 DEF OrphanRemoved
<1>34. CASE UNCHANGED vars
  BY <1>34 DEF vars
<1>. HIDE HoldersAssumption DEF TypeOK, Pending, Away, Modes, threadRows, batchRows,
     admission, codex, NoOtherMoves, OneBatchMoves, RequestsSeeTheirEntry,
     EntryIsAsFound, CodexFollows, Unmoved, Before, Moving, After, MovesUnderWay,
     NotYetAsked, ArchivedInCodex, ClaimsAreHeld
<1>. QED
  BY <1>1, <1>2, <1>3, <1>4, <1>5, <1>6, <1>7, <1>8, <1>9, <1>10, <1>11, <1>12,
     <1>13, <1>14, <1>15, <1>16, <1>17, <1>18, <1>19, <1>20, <1>21, <1>22, <1>23, <1>24,
     <1>25, <1>26, <1>27, <1>28, <1>29, <1>30, <1>31, <1>32, <1>33, <1>34
     DEF Next, Turns, Plans, Executes, World


\* Late answers, lost answers and dead consoles notwithstanding, a thread that
\* project-archive.ts shows as archived, or as active, is so in Codex.
THEOREM RowsAreTrue == ASSUME NoOtherMoves PROVE Spec => []ArchivedInCodex
<1>1. Init => CodexFollows
  BY DEF Init, CodexFollows, ArchivedInCodex, MovesUnderWay, NotYetAsked, Away
<1>2. TypeOK /\ ArchiveInv /\ CodexFollows /\ [Next]_vars => CodexFollows'
  BY RowsKeepFollowingCodex, MovesStayUnderWay, NotYetAskedStays DEF ArchiveInv, CodexFollows
<1>3. CodexFollows => ArchivedInCodex
  BY DEF CodexFollows
<1>. QED
  BY <1>1, <1>2, <1>3, ArchiveIsSafe, PTL DEF Spec

============================================================================
