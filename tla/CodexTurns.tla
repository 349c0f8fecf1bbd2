------------------------------ MODULE CodexTurns -------------------------------
(***************************************************************************)
(* Successive turns on one Codex thread and what they are billed: run() of *)
(* local-agent-codex.ts over its line protocol, the callbacks of           *)
(* local-agent-manager.ts, and the rows of work-ledger.ts (one execution   *)
(* per turn) and agent-usage.ts (one snapshot per turn).                   *)
(*                                                                         *)
(* Codex reports what a thread has used so far, never what one turn used.  *)
(* Its lines arrive in order, but the driver learns the id of its turn in  *)
(* a continuation that may run after further lines were read, and the last *)
(* report of a turn may follow the turn's completion.  The turns of the    *)
(* thread are numbered in the order the manager runs them; Outside stands  *)
(* for a turn of another client.                                           *)
(***************************************************************************)
EXTENDS Naturals, Sequences, FiniteSetsExt

CONSTANTS
    NumTurns,     \* how many turns are run
    MaxSpent,     \* bound: tokens a turn may use
    TurnFaults,   \* out of "late", "timeout", "refused", "dies", "outside"
    Unknown       \* a count or a turn that is not known

\* Turns are numbered in the order in which they begin.
Numbers == 1..NumTurns
Outside == 0

VARIABLES
    driver,     \* per turn: where run() stands, usage kept for later, its completion
    handlers,   \* turns whose late usage is still routed (recentUsage)
    row,        \* console_executions
    snapshot,   \* agent_usage_snapshots
    wire,       \* lines of the app-server that are not yet handled
    codex,      \* the provider's own account of the thread
    missed      \* history: turns with usage that never reached their row

vars == <<driver, handlers, row, snapshot, wire, codex, missed>>

NewRow == [thread |-> FALSE, fresh |-> FALSE, baseline |-> Unknown, continuous |-> FALSE, cumulative |-> Unknown,
           delta |-> Unknown, quality |-> "not_used", dispatched |-> FALSE,
           requested |-> FALSE, turn |-> FALSE, finished |-> FALSE]

Init ==
    /\ driver = [e \in Numbers |-> [at |-> "idle", early |-> <<>>, ending |-> Unknown]]
    /\ handlers = {} /\ wire = <<>> /\ missed = {}
    /\ row = [e \in Numbers |-> NewRow]
    /\ snapshot = [e \in Numbers |-> [base |-> Unknown, total |-> Unknown]]
    /\ codex = [total |-> 0, spent |-> [t \in Numbers |-> 0], mark |-> [t \in Numbers |-> 0],
                history |-> {}, open |-> {}, asked |-> {}, owed |-> {}]

At(places) == {e \in Numbers : driver[e].at \in places}
Goes(e, place) == driver' = [driver EXCEPT ![e].at = place]
Over == {"finished", "failed"}

\* Numbers with usage in the list that is replayed once the id is known.
Kept(e) == {driver[e].early[i].turn : i \in DOMAIN driver[e].early}

(***************************************************************************)
(* The ledger.                                                             *)
(***************************************************************************)
Prior(e) == {d \in Numbers \ {e} : row[d].thread}

\* executionUsage(): what a receipt says of a row.
Status(e) ==
    IF ~(\/ row[e].requested \/ row[e].turn \/ row[e].finished \/ row[e].dispatched
         \/ row[e].cumulative # Unknown \/ row[e].quality # "not_used")
    THEN "not_used"
    ELSE IF row[e].delta = Unknown THEN "unavailable"
    ELSE IF row[e].quality = "complete" THEN "complete" ELSE "partial"

\* summarizeExecutions(): the total of a receipt, and how it is labelled.
Requested == {e \in Numbers : driver[e].at # "idle" /\ Status(e) # "not_used"}
Contributing == {e \in Requested : row[e].delta # Unknown}
Billed[n \in 0..NumTurns] ==
    IF n = 0 THEN 0 ELSE Billed[n - 1] + (IF n \in Contributing THEN row[n].delta ELSE 0)
Summary ==
    [total |-> Billed[NumTurns],
     status |-> IF Requested = {} THEN "not_used"
                ELSE IF Contributing = {} THEN "unavailable"
                ELSE IF \A e \in Requested : Status(e) = "complete" THEN "complete"
                ELSE "partial"]

Quality(r, delta) ==
    IF delta = Unknown THEN "unavailable" ELSE IF r.finished THEN "complete" ELSE "partial"
Growth(total, baseline) ==
    IF baseline # Unknown /\ total # Unknown
    THEN IF total >= baseline THEN total - baseline ELSE Unknown
    ELSE Unknown

Observed(e, total) ==
    LET d == Growth(total, row[e].baseline)
    IN [row[e] EXCEPT !.cumulative = total, !.delta = d, !.quality = Quality(row[e], d)]

\* mutant: a successor keeps the baseline it took
KeepingFollowers(e, total) == [row EXCEPT ![e] = Observed(e, total)]

\* usage() beyond its early returns: the row, and the rows that took their
\* baseline from the total this one replaces.
Corrected(e, total) ==
    LET follows(f) == /\ f # e /\ row[e].cumulative # Unknown
                      /\ row[f].continuous /\ row[f].baseline = row[e].cumulative
    IN [f \in Numbers |->
          IF f = e THEN Observed(e, total)
          ELSE IF follows(f)
          THEN LET d == Growth(row[f].cumulative, total)
               IN [row[f] EXCEPT !.baseline = total, !.delta = d, !.quality = Quality(row[f], d)]
          ELSE row[f]]

Usage(e, total) ==
    IF ~row[e].turn \/ (row[e].cumulative # Unknown /\ row[e].cumulative >= total)
    THEN row ELSE Corrected(e, total)

\* recordAgentUsage(): a smaller total is stale; the first snapshot of a turn
\* starts at the largest one seen before it.
Snapshot(e, total) ==
    LET seen == {snapshot[d].total : d \in {d \in Numbers : snapshot[d].total # Unknown}}
        base == IF snapshot[e].total # Unknown THEN snapshot[e].base
                ELSE IF seen # {} THEN Max(seen)
                ELSE IF row[e].fresh THEN 0 ELSE Unknown
    IN IF \E t \in seen : t > total THEN snapshot
       ELSE [snapshot EXCEPT ![e] = [base |-> base, total |-> total]]

\* onUsage: both tables.
Record(e, total) == row' = Usage(e, total) /\ snapshot' = Snapshot(e, total)

(***************************************************************************)
(* run(): what leads up to the turn.                                       *)
(***************************************************************************)
\* runTurn() of the manager, before the pool is entered.
Dispatch(e) ==
    /\ driver[e].at = "idle" /\ \A d \in 1..(e - 1) : driver[d].at \in Over
    /\ Goes(e, "dispatched")
    /\ row' = [row EXCEPT ![e].quality = "unavailable", ![e].dispatched = TRUE]
    /\ UNCHANGED <<handlers, snapshot, wire, codex, missed>>

\* Quota, identity, registration, configuration or thread/resume fails before
\* a request is possible: onNotRequested.
NotRequested(e) ==
    /\ "refused" \in TurnFaults /\ driver[e].at \in {"dispatched", "attached"}
    /\ Goes(e, "failed")
    /\ row' = [row EXCEPT ![e].quality = "not_used", ![e].dispatched = FALSE]
    /\ UNCHANGED <<handlers, snapshot, wire, codex, missed>>

UncheckedHistory(e, ids, closed) ==  \* mutant: turns of other clients do not matter
    LET prior == Prior(e)
        last == row[Max(prior)]
        continuous == prior # {} /\ last.finished /\ last.quality = "complete"
                      /\ last.cumulative # Unknown
    IN row' = [row EXCEPT ![e].thread = TRUE, ![e].dispatched = FALSE,
           ![e].fresh = prior = {}, ![e].continuous = continuous,
           ![e].baseline = IF prior = {} THEN 0
                           ELSE IF continuous THEN last.cumulative ELSE Unknown]

\* attachThread(): where the count of this turn begins.  Only a history that
\* the ledger itself has written, and has seen to its end, gives a baseline.
AttachThread(e, ids, closed) ==
    LET prior == Prior(e)
        last == row[Max(prior)]
        clean == closed /\ ids = {d \in prior : row[d].turn}
        continuous == prior # {} /\ clean /\ last.finished /\ last.quality = "complete"
                      /\ last.cumulative # Unknown
    IN row' = [row EXCEPT ![e].thread = TRUE, ![e].dispatched = FALSE,
           ![e].fresh = prior = {}, ![e].continuous = continuous,
           ![e].baseline = IF prior = {} THEN 0
                           ELSE IF continuous THEN last.cumulative ELSE Unknown]

\* The answer to thread/read is behind every line written before it; when the
\* read fails the history counts as unknown.
Attach(e) ==
    /\ driver[e].at = "dispatched" /\ wire = <<>> /\ Goes(e, "attached")
    /\ \/ AttachThread(e, codex.history, codex.open = {})
       \/ Prior(e) # {} /\ AttachThread(e, codex.history, FALSE)
    /\ UNCHANGED <<handlers, snapshot, wire, codex, missed>>

\* requestStarted(), then turn/start is written.
Request(e) ==
    /\ driver[e].at = "attached" /\ Goes(e, "asked")
    /\ row' = [row EXCEPT ![e].requested = TRUE, ![e].quality = "unavailable"]
    /\ codex' = [codex EXCEPT !.asked = @ \union {e}]
    /\ UNCHANGED <<handlers, snapshot, wire, missed>>

(***************************************************************************)
(* run(): the turn itself.                                                 *)
(***************************************************************************)
\* The continuation of turn/start: turnStarted(), then what was kept.
Acknowledge(e) ==
    /\ driver[e].at = "answered" /\ Goes(e, "replaying")
    /\ row' = [row EXCEPT ![e].turn = TRUE, ![e].requested = TRUE]
    /\ UNCHANGED <<handlers, snapshot, wire, codex, missed>>

ReplayEarly(e) ==
    /\ driver[e].at = "replaying"
    /\ IF driver[e].early = <<>>
       THEN Goes(e, "running") /\ UNCHANGED <<row, snapshot, missed>>
       ELSE LET u == Head(driver[e].early) IN
            /\ driver' = [driver EXCEPT ![e].early = Tail(@)]
            /\ IF u.turn = e THEN Record(e, u.total) /\ UNCHANGED missed
               ELSE UNCHANGED <<row, snapshot>> /\ missed' = missed \union {u.turn}
    /\ UNCHANGED <<handlers, wire, codex>>

\* The completion was seen; 150 ms later the late-usage handler is installed
\* and providerFinished() closes the count.
Settle(e) ==
    /\ driver[e].at = "running" /\ driver[e].ending # Unknown /\ Goes(e, "finished")
    /\ handlers' = handlers \union {e}
    /\ row' = [row EXCEPT ![e].finished = TRUE,
                          ![e].quality = IF row[e].delta # Unknown THEN "complete" ELSE @]
    /\ UNCHANGED <<snapshot, wire, codex, missed>>

TimeoutIsNotRequested(e) ==  \* mutant: a start without an answer counts as none
    /\ "timeout" \in TurnFaults /\ driver[e].at = "asked" /\ Goes(e, "failed")
    /\ row' = [row EXCEPT ![e].quality = "not_used", ![e].requested = FALSE]
    /\ UNCHANGED <<handlers, snapshot, wire, codex, missed>>

\* turn/start is not answered within 30 s, or the owner of the turn changed
\* before control was ready.  The provider may still run the turn.
GivesUp(e) ==
    /\ \/ "timeout" \in TurnFaults /\ driver[e].at = "asked" /\ UNCHANGED handlers
       \/ "refused" \in TurnFaults /\ driver[e].at = "replaying"
          /\ handlers' = handlers \union {e}
    /\ driver' = [driver EXCEPT ![e].at = "failed", ![e].early = <<>>]
    /\ missed' = missed \union Kept(e)
    /\ UNCHANGED <<row, snapshot, wire, codex>>

\* A handler is dropped after 60 s, or when 128 others are newer.
HandlerExpires(e) ==
    /\ "late" \in TurnFaults /\ e \in handlers /\ handlers' = handlers \ {e}
    /\ UNCHANGED <<driver, row, snapshot, wire, codex, missed>>

(***************************************************************************)
(* handleLine().                                                           *)
(***************************************************************************)
Active == At({"asked", "answered", "running"})
IdUnknown == At({"asked", "answered"})

HandleResponse(m) ==
    /\ driver' = IF driver[m.turn].at = "asked" THEN [driver EXCEPT ![m.turn].at = "answered"]
                 ELSE driver
    /\ UNCHANGED <<row, snapshot, missed>>

\* mutant: usage is taken for the active turn, whichever turn it names
UsageOfActive(m) ==
    LET e == IF Active # {} THEN CHOOSE e \in Active : TRUE ELSE m.turn
    IN Record(e, m.total) /\ UNCHANGED <<driver, missed>>

HandleUsage(m) ==
    IF m.turn \in handlers \/ m.turn \in Active \ IdUnknown
    THEN Record(m.turn, m.total) /\ UNCHANGED <<driver, missed>>
    ELSE /\ UNCHANGED <<row, snapshot>>
         /\ IF IdUnknown # {}
            THEN LET e == CHOOSE e \in IdUnknown : TRUE IN
                 driver' = [driver EXCEPT ![e].early = Append(@, m)] /\ UNCHANGED missed
            ELSE UNCHANGED driver /\ missed' = missed \union {m.turn}

\* turnMatchesEvent(): the thread is enough until the turn's id is known.
HandleCompleted(m) ==
    /\ driver' = [e \in Numbers |->
                     IF e \in IdUnknown \/ (e \in Active /\ e = m.turn)
                     THEN [driver[e] EXCEPT !.ending = m.turn] ELSE driver[e]]
    /\ UNCHANGED <<row, snapshot, missed>>

HandleLine ==
    /\ wire # <<>> /\ At({"replaying"}) = {} /\ wire' = Tail(wire)
    /\ LET m == Head(wire) IN
         \/ m.line = "response" /\ HandleResponse(m)
         \/ m.line = "usage" /\ HandleUsage(m)
         \/ m.line = "completed" /\ HandleCompleted(m)
    /\ UNCHANGED <<handlers, codex>>

(***************************************************************************)
(* The app-server, as far as the driver relies on it: one turn at a time   *)
(* on a thread, and a total that only grows.                               *)
(***************************************************************************)
Line(kind, t) == [line |-> kind, turn |-> t, total |-> codex.mark[t]]

CodexStarts(t) ==
    /\ t \in codex.asked /\ codex.open = {}
    /\ codex' = [codex EXCEPT !.asked = @ \ {t}, !.open = {t}, !.history = @ \union {t},
                              !.mark[t] = codex.total]
    /\ wire' = Append(wire, Line("response", t))
    /\ UNCHANGED <<driver, handlers, row, snapshot, missed>>

CodexSpends(t) ==
    /\ t \in codex.open /\ codex.spent[t] < MaxSpent
    /\ codex' = [codex EXCEPT !.total = @ + 1, !.spent[t] = @ + 1, !.mark[t] = codex.total + 1,
                              !.owed = @ \union {t}]
    /\ UNCHANGED <<driver, handlers, row, snapshot, wire, missed>>

\* A report may come after the completion, but not after the next turn begins.
CodexReports(t) ==
    /\ t \in codex.owed /\ (t \in codex.open \/ "late" \in TurnFaults)
    /\ codex' = [codex EXCEPT !.owed = @ \ {t}]
    /\ wire' = Append(wire, Line("usage", t))
    /\ UNCHANGED <<driver, handlers, row, snapshot, missed>>

CodexCompletes(t) ==
    /\ t \in codex.open /\ (t \notin codex.owed \/ "late" \in TurnFaults)
    /\ codex' = [codex EXCEPT !.open = @ \ {t}]
    /\ wire' = Append(wire, Line("completed", t))
    /\ UNCHANGED <<driver, handlers, row, snapshot, missed>>

\* Another client runs a whole turn; between the read of the history and the
\* start of our turn nobody notices.
OutsideTurn ==
    /\ "outside" \in TurnFaults /\ codex.open = {} /\ codex.history # {}
    /\ Outside \notin codex.history
    /\ codex' = [codex EXCEPT !.total = @ + 1, !.history = @ \union {Outside}]
    /\ missed' = missed \union At({"attached", "asked"})
    /\ UNCHANGED <<driver, handlers, row, snapshot, wire>>

\* The app-server exits (fail()), or the daemon does: every run in progress is
\* over, lines and handlers are gone, and a new app-server knows the thread.
Dies ==
    /\ "dies" \in TurnFaults /\ driver[NumTurns].at \notin Over
    /\ driver' = [e \in Numbers |-> IF driver[e].at \in Over \union {"idle"} THEN driver[e]
                                  ELSE [driver[e] EXCEPT !.at = "failed", !.early = <<>>]]
    /\ handlers' = {} /\ wire' = <<>>
    /\ missed' = missed \union codex.owed
                  \union {wire[i].turn : i \in {i \in DOMAIN wire : wire[i].line = "usage"}}
                  \union UNION {Kept(e) : e \in Numbers}
    /\ codex' = [codex EXCEPT !.asked = {}, !.open = {}, !.owed = {}]
    /\ UNCHANGED <<row, snapshot>>

Next ==
    \/ \E e \in Numbers :
          \/ Dispatch(e) \/ NotRequested(e) \/ Attach(e) \/ Request(e) \/ Acknowledge(e)
          \/ ReplayEarly(e) \/ Settle(e) \/ GivesUp(e) \/ HandlerExpires(e)
          \/ CodexStarts(e) \/ CodexSpends(e) \/ CodexReports(e) \/ CodexCompletes(e)
    \/ HandleLine \/ OutsideTurn \/ Dies

Spec == Init /\ [][Next]_vars

-------------------------------------------------------------------------------
\* No token is billed twice: neither the receipts of all runs together nor the
\* snapshots together show more than the thread has used, whatever is lost,
\* late or done by others.
BilledOnce ==
    /\ Summary.total <= codex.total
    /\ \A d, e \in Numbers :
          d < e /\ snapshot[d].total # Unknown /\ snapshot[e].base # Unknown =>
              snapshot[d].total <= snapshot[e].base

\* What a receipt calls complete is what the turn used, once its last report
\* has arrived, unless that never did or another client slipped in between.
Undelivered(e) ==
    \/ e \in codex.owed
    \/ \E i \in DOMAIN wire : wire[i].line = "usage" /\ wire[i].turn = e
    \/ \E d \in Numbers : e \in Kept(d)
CompleteIsExact ==
    \A e \in Numbers :
        /\ Status(e) = "complete"
        /\ \A d \in 1..e : d \notin missed /\ ~Undelivered(d)
        => row[e].delta = codex.spent[e]

\* Paid work is never reported as zero: a row that says `not used' belongs to
\* a turn that Codex did not start (docs/project-console.md).
UsedIsNotZero ==
    \A e \in Numbers : codex.spent[e] > 0 => Status(e) # "not_used"

\* The token account of a thread is true: nothing is billed twice, nothing called complete
\* that is not, nothing used called unused.
UsageIsTrue == BilledOnce /\ CompleteIsExact /\ UsedIsNotZero
-------------------------------------------------------------------------------
(***************************************************************************)
(* Why it holds.  A turn uses the tokens between what the thread had used  *)
(* when it began and its last mark.  Turns the driver knows the id of      *)
(* began in the order of their numbers, so these stretches do not overlap; *)
(* and a baseline is zero before the first turn, or else what the turn     *)
(* before has reported, corrected as often as that one reports more.       *)
(***************************************************************************)
Places == {"idle", "dispatched", "attached", "asked", "answered", "replaying", "running", "finished", "failed"}
Counts == Nat \union {Unknown}
Lines == [line : {"response", "usage", "completed"}, turn : Numbers, total : Nat]
Drivers == [at : Places, early : Seq(Lines), ending : Numbers \union {Unknown}]
Rows == [thread : BOOLEAN, fresh : BOOLEAN, baseline : Counts, continuous : BOOLEAN, cumulative : Counts,
         delta : Counts, quality : {"not_used", "unavailable", "partial", "complete"}, dispatched : BOOLEAN,
         requested : BOOLEAN, turn : BOOLEAN, finished : BOOLEAN]
TypeOK ==
    /\ driver \in [Numbers -> Drivers] /\ handlers \in SUBSET Numbers /\ missed \in SUBSET Numbers
    /\ row \in [Numbers -> Rows] /\ wire \in Seq(Lines)
    /\ snapshot \in [Numbers -> [base : Counts, total : Counts]]
    /\ codex \in [total : Nat, spent : [Numbers -> Nat], mark : [Numbers -> Nat],
                  history : SUBSET (Numbers \union {Outside}), open : SUBSET Numbers,
                  asked : SUBSET Numbers, owed : SUBSET Numbers]

Elements(s) == {s[i] : i \in DOMAIN s}
Pending == {m \in Elements(wire) : m.line = "usage"} \union UNION {Elements(driver[e].early) : e \in Numbers}

Start(t) == codex.mark[t] - codex.spent[t]                       \* what the thread had used before t
Known(e) == row[e].turn \/ driver[e].at \in {"asked", "answered"}  \* its id is known, or will be
Awaits(e) == driver[e].at \in {"attached", "asked"} /\ e \notin codex.history
Follows(p, e) == p < e /\ row[p].thread /\ \A d \in Numbers : p < d /\ d < e => ~row[d].thread

\* One turn at a time, and each row as far as its run.
RowFollowsRun(e) ==
    /\ driver[e].at \in {"idle", "dispatched"} => ~row[e].thread
    /\ driver[e].at \in {"attached", "asked", "answered", "replaying", "running", "finished"} => row[e].thread
    /\ row[e].turn => row[e].thread /\ driver[e].at \in {"replaying", "running", "finished", "failed"}
    /\ driver[e].at \in {"replaying", "running", "finished"} => row[e].turn
    /\ row[e].finished => driver[e].at = "finished"
    /\ row[e].cumulative # Unknown => row[e].turn
    /\ row[e].fresh \/ row[e].continuous => row[e].thread
    /\ row[e].fresh => row[e].baseline = 0 /\ ~row[e].continuous
    /\ row[e].baseline # Unknown => row[e].fresh \/ row[e].continuous
    /\ row[e].delta = Growth(row[e].cumulative, row[e].baseline)
    /\ row[e].quality = "complete" => row[e].delta # Unknown
    /\ e \in handlers => row[e].turn
RunsInOrder ==
    \A e \in Numbers :
        /\ RowFollowsRun(e)
        /\ \A d \in Numbers : d < e /\ driver[e].at # "idle" => driver[d].at \in Over

\* What Codex was asked for, what it has begun, and the lines it wrote.
CodexIsSound ==
    /\ codex.open \subseteq codex.history /\ codex.owed \subseteq codex.history
    /\ codex.asked \intersect codex.history = {}
    /\ \A t, u \in codex.open : t = u
    /\ Outside \in codex.history => codex.history \intersect Numbers # {}
    /\ codex.history = {} => codex.total = 0
    /\ codex.history # {} /\ Outside \notin codex.history =>
          \E t \in codex.history : codex.mark[t] = codex.total
    /\ \A t \in Numbers :
        /\ codex.spent[t] <= codex.mark[t] /\ codex.mark[t] <= codex.total
        /\ t \in codex.open => codex.mark[t] = codex.total
        /\ t \in codex.owed => codex.spent[t] > 0
        /\ codex.spent[t] > 0 => t \in codex.history
        /\ t \in codex.asked \union codex.history =>
              row[t].thread /\ row[t].requested /\ driver[t].at \notin {"idle", "dispatched", "attached"}
        /\ row[t].turn \/ driver[t].at = "answered" => t \in codex.history
    /\ \A m \in Elements(wire) : m.line = "response" => m.turn \in codex.history
    /\ \A m \in Pending : /\ m.line = "usage" /\ m.turn \in codex.history
                          /\ Start(m.turn) < m.total /\ m.total <= codex.mark[m.turn]

\* Stretches in order, and the reports that have arrived within them.
StretchesInOrder ==
    /\ \A d, e \in Numbers :
          d < e /\ Known(d) /\ e \in codex.history =>
              d \in codex.history /\ d \notin codex.open /\ codex.mark[d] <= Start(e)
    /\ \A e \in Numbers :
          /\ row[e].cumulative # Unknown => Start(e) < row[e].cumulative /\ row[e].cumulative <= codex.mark[e]
          /\ snapshot[e].total # Unknown => /\ row[e].turn /\ Start(e) < snapshot[e].total
                                            /\ snapshot[e].total <= codex.mark[e]
          /\ snapshot[e].base # Unknown => snapshot[e].total # Unknown

SnapshotsInOrder ==
    \A d, e \in Numbers :
        d < e /\ snapshot[d].total # Unknown /\ snapshot[e].base # Unknown => snapshot[d].total <= snapshot[e].base

\* Where counts begin: only a row whose predecessors are all over has a
\* baseline, and it is the count of the row before.
BaselinesAreSound ==
    \A e \in Numbers :
        /\ row[e].baseline # Unknown => \A d \in Numbers : d < e /\ row[d].thread => row[d].finished
        /\ row[e].fresh => \A d \in Numbers : d < e => ~row[d].thread
        /\ row[e].continuous =>
              \E p \in Numbers : Follows(p, e) /\ row[p].cumulative # Unknown /\ row[e].baseline = row[p].cumulative

\* Nothing comes between the turn before and this one, or it is known to.
StartsAreSound ==
    \A e \in Numbers :
        /\ row[e].fresh /\ Awaits(e) => codex.history = {}
        /\ row[e].fresh /\ Known(e) /\ e \in codex.history => Start(e) = 0
        /\ row[e].continuous /\ e \notin missed /\ Awaits(e) =>
              codex.open = {} /\ codex.asked \subseteq {e} /\ \A p \in Numbers : Follows(p, e) => codex.mark[p] = codex.total
        /\ row[e].continuous /\ e \notin missed /\ Known(e) /\ e \in codex.history =>
              \A p \in Numbers : Follows(p, e) => codex.mark[p] = Start(e)

\* The last report of a turn is due, on its way, counted or known to be missed.
ReportsAreTracked ==
    \A e \in Numbers :
        codex.spent[e] > 0 /\ e \notin missed /\ e \notin codex.owed =>
            \/ row[e].cumulative = codex.mark[e]
            \/ \E m \in Pending : m.turn = e /\ m.total = codex.mark[e]

UsageInv ==
    /\ TypeOK /\ RunsInOrder /\ CodexIsSound /\ StretchesInOrder /\ SnapshotsInOrder
    /\ BaselinesAreSound /\ StartsAreSound /\ ReportsAreTracked
===============================================================================
