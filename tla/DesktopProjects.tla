------------------------------ MODULE DesktopProjects ------------------------------
(***************************************************************************)
(* Registration of a directory and a thread with the Codex Desktop:        *)
(* codex-projects.ts, codex-desktop-open.ts, codex-desktop-catalog.ts.     *)
(* The MCP server (open_workspace) and agentd (a Codex turn) register in   *)
(* processes of their own, by reads and updates through an app-server of   *)
(* their own, while the Desktop and its user change the same projects and  *)
(* threads.  Nothing is locked: each step re-observes.                     *)
(*                                                                         *)
(* One root and, per registration, one thread or none.  The project/create *)
(* of registerProject() has no caller: each passes the Desktop's catalog.  *)
(***************************************************************************)
EXTENDS Naturals, Sequences, FiniteSets

CONSTANTS Regs, Threads, NoThread,
          MaxChanges, MaxTries    \* bounds

VARIABLES
    saved,      \* app-server's projects: whether the root is among their roots, and a version
    local,      \* the Desktop's own: whether the root is among theirs, and the project mapped
    owner,      \* per thread: its project, 0 for none
    pin,        \* per thread: the Desktop's project its user put it in, 0 for none
    moves,      \* per thread: times it was moved
    late,       \* threads moved since the last change by registrations begun before it
    drafts,     \* drafts that the Desktop was asked to open and has not yet
    changes,    \* bound
    reg         \* the registrations

vars == <<saved, local, owner, pin, moves, late, drafts, changes, reg>>

NoCatalog == [client |-> 0, project |-> 0, pinned |-> {}]
Fresh == [step |-> "idle", tries |-> 0, since |-> 0, thread |-> NoThread, catalog |-> NoCatalog,
          matches |-> {}, roots |-> 0, before |-> 0, seen |-> 0]

Init ==
    /\ saved = <<>> /\ local = <<>> /\ drafts = 0 /\ changes = 0 /\ late = {}
    /\ owner = [t \in Threads |-> 0] /\ pin = [t \in Threads |-> 0] /\ moves = [t \in Threads |-> 0]
    /\ reg = [r \in Regs |-> Fresh]

Others == <<saved, local, pin, changes>>

(***************************************************************************)
(* inspectDesktopCatalog(): missing, pending, ambiguous, or the one client *)
(* project with its mapping and the threads its user put in it.            *)
(***************************************************************************)
Saving == {c \in DOMAIN local : local[c].holds}
Catalog ==
    LET c == CHOOSE d \in Saving : TRUE IN
    [client |-> c, project |-> local[c].project, pinned |-> {t \in Threads : pin[t] = c}]
Found == Cardinality(Saving) = 1 /\ Catalog.project # 0

Becomes(r, new) == reg' = [reg EXCEPT ![r] = new]
Goes(r, step) == Becomes(r, [reg[r] EXCEPT !.step = step])
Partial(r) == Goes(r, "partial")

(***************************************************************************)
(* ensureDesktopProject(), ensureSavedDesktopProject(): a missing project  *)
(* is asked for and waited for; what is ambiguous or not yet mapped fails. *)
(***************************************************************************)
Start(r, t) ==
    /\ reg[r].step \in {"idle", "partial", "persisted"} /\ reg[r].tries < MaxTries
    /\ Becomes(r, [Fresh EXCEPT !.step = "ensure", !.tries = reg[r].tries + 1, !.since = changes, !.thread = t])
    /\ UNCHANGED <<Others, owner, moves, late, drafts>>

ReadsCatalog(r) ==
    /\ reg[r].step \in {"ensure", "opened"}
    /\ \/ /\ Found /\ Becomes(r, [reg[r] EXCEPT !.step = "list", !.catalog = Catalog])
          /\ UNCHANGED drafts
       \/ /\ Saving = {} /\ reg[r].step = "ensure"
          /\ Goes(r, "opened") /\ drafts' = drafts + 1
       \/ /\ Cardinality(Saving) > 1 \/ (Saving # {} /\ ~Found /\ reg[r].step = "ensure")
          /\ Partial(r) /\ UNCHANGED drafts
    /\ UNCHANGED <<Others, owner, moves, late>>

GivesUp(r) ==
    /\ reg[r].step = "opened" /\ ~Found /\ Partial(r)
    /\ UNCHANGED <<Others, owner, moves, late, drafts>>

(***************************************************************************)
(* registerProject(): the mapped project must hold the root; the thread    *)
(* must be free, there already, or the user's own choice among the         *)
(* projects that hold the root; project and thread are read again before   *)
(* the thread is moved, and once more after.                               *)
(***************************************************************************)
Lists(r) ==
    LET project == reg[r].catalog.project   matches == {p \in DOMAIN saved : saved[p].holds} IN
    /\ reg[r].step = "list"
    /\ IF project \in matches
       THEN Becomes(r, [reg[r] EXCEPT !.step = "thread", !.matches = matches, !.roots = saved[project].version])
       ELSE Partial(r)
    /\ UNCHANGED <<Others, owner, moves, late, drafts>>

MayMove(r, t) ==
    \/ owner[t] \in {0, reg[r].catalog.project}
    \/ t \in reg[r].catalog.pinned /\ owner[t] \in reg[r].matches

ReadsThread(r) ==
    LET t == reg[r].thread IN
    /\ reg[r].step = "thread"
    /\ IF t = NoThread THEN Goes(r, "project")
       ELSE IF MayMove(r, t) THEN Becomes(r, [reg[r] EXCEPT !.step = "project", !.before = owner[t]])
       ELSE Partial(r)
    /\ UNCHANGED <<Others, owner, moves, late, drafts>>

ReadsProject(r) ==
    LET p == saved[reg[r].catalog.project] IN
    /\ reg[r].step = "project"
    /\ IF p.version = reg[r].roots /\ p.holds
       THEN Goes(r, IF reg[r].thread = NoThread THEN "verify" ELSE "recheck") ELSE Partial(r)
    /\ UNCHANGED <<Others, owner, moves, late, drafts>>

RechecksNothing(r) ==  \* mutant: the thread is moved on what was read of it at first
    LET t == reg[r].thread IN
    /\ reg[r].step = "recheck"
    /\ Becomes(r, [reg[r] EXCEPT !.step = "update", !.seen = moves[t]])
    /\ UNCHANGED <<Others, owner, moves, late, drafts>>

Rechecks(r) ==
    LET t == reg[r].thread IN
    /\ reg[r].step = "recheck"
    /\ IF owner[t] # reg[r].before THEN Partial(r)
       ELSE IF owner[t] = reg[r].catalog.project THEN Goes(r, "readback")
       ELSE Becomes(r, [reg[r] EXCEPT !.step = "update", !.seen = moves[t]])
    /\ UNCHANGED <<Others, owner, moves, late, drafts>>

TakesForDone(r) ==  \* mutant: an update of unknown outcome is taken to be done
    LET t == reg[r].thread IN
    /\ reg[r].step = "update"
    /\ \/ /\ owner' = [owner EXCEPT ![t] = reg[r].catalog.project] /\ moves' = [moves EXCEPT ![t] = @ + 1]
          /\ Goes(r, "readback") /\ UNCHANGED late
       \/ Goes(r, "verify") /\ UNCHANGED <<owner, moves, late>>
    /\ UNCHANGED <<Others, drafts>>

\* An update that times out is reported as of unknown outcome: it may be done.
Updates(r) ==
    LET t == reg[r].thread IN
    /\ reg[r].step = "update"
    /\ \/ /\ owner' = [owner EXCEPT ![t] = reg[r].catalog.project] /\ moves' = [moves EXCEPT ![t] = @ + 1]
          /\ late' = IF reg[r].since = changes THEN late ELSE late \union {t}
          /\ \E s \in {"readback", "partial"} : Goes(r, s)
       \/ Partial(r) /\ UNCHANGED <<owner, moves, late>>
    /\ UNCHANGED <<Others, drafts>>

ReadsBack(r) ==
    /\ reg[r].step = "readback"
    /\ IF owner[reg[r].thread] = reg[r].catalog.project THEN Goes(r, "verify") ELSE Partial(r)
    /\ UNCHANGED <<Others, owner, moves, late, drafts>>

\* Read once more, after registerProject(): the Desktop still maps its project there.
Verifies(r) ==
    /\ reg[r].step = "verify"
    /\ IF Found /\ Catalog.client = reg[r].catalog.client /\ Catalog.project = reg[r].catalog.project
       THEN Goes(r, "persisted") ELSE Partial(r)
    /\ UNCHANGED <<Others, owner, moves, late, drafts>>

\* The control connection ends, or a read of it times out.
ConnectionFails(r) ==
    /\ reg[r].step \notin {"idle", "partial", "persisted"} /\ Partial(r)
    /\ UNCHANGED <<Others, owner, moves, late, drafts>>

(***************************************************************************)
(* The Desktop and its user.                                               *)
(***************************************************************************)
Change == changes < MaxChanges /\ changes' = changes + 1 /\ late' = {}

OpensDraft ==
    /\ drafts > 0 /\ drafts' = drafts - 1
    /\ local' = IF Saving # {} THEN local ELSE Append(local, [holds |-> TRUE, project |-> 0])
    /\ UNCHANGED <<saved, owner, pin, moves, late, changes, reg>>

AddsProject(inCatalog) ==
    /\ Change
    /\ IF inCatalog THEN local' = Append(local, [holds |-> TRUE, project |-> 0]) /\ UNCHANGED saved
                    ELSE saved' = Append(saved, [holds |-> TRUE, version |-> 0]) /\ UNCHANGED local
    /\ UNCHANGED <<owner, pin, moves, drafts, reg>>

Maps(c) ==
    /\ local[c].project = 0
    /\ \/ saved' = Append(saved, [holds |-> local[c].holds, version |-> 0])
          /\ local' = [local EXCEPT ![c].project = Len(saved) + 1]
       \/ \E p \in DOMAIN saved : saved[p].holds /\ local' = [local EXCEPT ![c].project = p] /\ UNCHANGED saved
    /\ UNCHANGED <<owner, pin, moves, late, drafts, changes, reg>>

DropsRoot(c) ==
    LET p == local[c].project IN
    /\ local[c].holds /\ Change
    /\ local' = [local EXCEPT ![c].holds = FALSE]
    /\ saved' = IF p = 0 THEN saved ELSE [saved EXCEPT ![p] = [holds |-> FALSE, version |-> @.version + 1]]
    /\ UNCHANGED <<owner, pin, moves, drafts, reg>>

MovesThread(t, c) ==
    /\ local[c].project \notin {0, owner[t]} /\ Change
    /\ pin' = [pin EXCEPT ![t] = c] /\ owner' = [owner EXCEPT ![t] = local[c].project]
    /\ moves' = [moves EXCEPT ![t] = @ + 1]
    /\ UNCHANGED <<saved, local, drafts, reg>>

Next ==
    \/ \E r \in Regs :
         \/ \E t \in Threads \union {NoThread} : Start(r, t)
         \/ ReadsCatalog(r) \/ GivesUp(r) \/ Lists(r) \/ ReadsThread(r) \/ ReadsProject(r)
         \/ Rechecks(r) \/ Updates(r) \/ ReadsBack(r) \/ Verifies(r) \/ ConnectionFails(r)
    \/ OpensDraft
    \/ \E inCatalog \in BOOLEAN : AddsProject(inCatalog)
    \/ \E c \in DOMAIN local : Maps(c) \/ DropsRoot(c) \/ \E t \in Threads : MovesThread(t, c)

Spec == Init /\ [][Next]_vars

-------------------------------------------------------------------------------
\* A registration never takes a thread out of a project it may not take it
\* from, unless the thread was moved since the registration read it last.
NoThreadIsTaken ==
    \A r \in Regs :
        reg[r].step = "update" /\ moves[reg[r].thread] = reg[r].seen => MayMove(r, reg[r].thread)

\* What a registration reports as persisted is what the Desktop shows until
\* its user changes something, the thread where the user would look for it
\* unless a registration begun before the last change has moved it since.
ReceiptsAreTrue ==
    \A r \in Regs : reg[r].step = "persisted" /\ reg[r].since = changes =>
        /\ Found /\ Catalog.client = reg[r].catalog.client /\ Catalog.project = reg[r].catalog.project
        /\ reg[r].thread \in {NoThread} \union late \/ owner[reg[r].thread] = Catalog.project

\* Registrations neither take threads nor report what is not so.
RegistrationsAreTrue == NoThreadIsTaken /\ ReceiptsAreTrue

(***************************************************************************)
(* Why it holds: what a registration knows of the catalog changes only by  *)
(* a change, and what it knows of a thread's owner only by a move.         *)
(***************************************************************************)
SavedProjects == [holds : BOOLEAN, version : Nat]
LocalProjects == [holds : BOOLEAN, project : Nat]
Catalogs == [client : Nat, project : Nat, pinned : SUBSET Threads]
Steps == {"idle", "ensure", "opened", "list", "thread", "project", "recheck", "update", "readback", "verify",
          "persisted", "partial"}
Registrations ==
    [step : Steps, tries : Nat, since : Nat, thread : Threads \union {NoThread}, catalog : Catalogs,
     matches : SUBSET Nat, roots : Nat, before : Nat, seen : Nat]

TypeOK ==
    /\ saved \in Seq(SavedProjects) /\ local \in Seq(LocalProjects)
    /\ \A c \in DOMAIN local : local[c].project \in {0} \union DOMAIN saved
    /\ owner \in [Threads -> Nat] /\ pin \in [Threads -> Nat] /\ moves \in [Threads -> Nat]
    /\ late \subseteq Threads /\ drafts \in Nat /\ changes \in Nat
    /\ reg \in [Regs -> Registrations]

BeginBeforeNow == \A r \in Regs : reg[r].since <= changes

\* What was read of the catalog is so until a change.
KnowsCatalog(r) == reg[r].step \in Steps \ {"idle", "ensure", "opened", "partial"}
CatalogIsCurrent == \A r \in Regs : KnowsCatalog(r) /\ reg[r].since = changes =>
    Found /\ Catalog.client = reg[r].catalog.client /\ Catalog.project = reg[r].catalog.project

\* A thread was read where it may be taken from, and is there until it is moved.
MayTake(r) ==
    \/ reg[r].before \in {0, reg[r].catalog.project}
    \/ reg[r].thread \in reg[r].catalog.pinned /\ reg[r].before \in reg[r].matches
HasThread(r) == reg[r].step \in {"recheck", "update", "readback"}
ThreadsAreKnown == \A r \in Regs :
    /\ HasThread(r) => reg[r].thread # NoThread
    /\ reg[r].step \in {"project", "recheck", "update"} /\ reg[r].thread # NoThread => MayTake(r)
    /\ reg[r].step = "update" =>
         /\ reg[r].seen <= moves[reg[r].thread]
         /\ moves[reg[r].thread] = reg[r].seen => owner[reg[r].thread] = reg[r].before

\* A thread that was read back is there until it is moved late, or a change.
ThreadsAreThere == \A r \in Regs :
    reg[r].step \in {"verify", "persisted"} /\ reg[r].since = changes
        => reg[r].thread \in {NoThread} \union late \/ owner[reg[r].thread] = reg[r].catalog.project

RegistrationInv ==
    TypeOK /\ BeginBeforeNow /\ CatalogIsCurrent /\ ThreadsAreKnown /\ ThreadsAreThere
===============================================================================
