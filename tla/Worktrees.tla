------------------------------- MODULE Worktrees -------------------------------
(***************************************************************************)
(* One managed worktree: git-worktrees.ts and worktree-prune.ts, with the  *)
(* parts of workspaces.ts and workspace-store.ts that create, use and      *)
(* restore it.  Pruners are runs of `devspace worktrees prune' and of the  *)
(* prune at the start of `devspace serve'; the server and whoever works in *)
(* the worktree go on beside them.  Every git command and every statement  *)
(* on the store is a step, since each is awaited or made by a process of   *)
(* its own.                                                                *)
(*                                                                         *)
(* Contents are versions: head is the version that is committed, tracked   *)
(* the one in the tracked files; 0 is the base commit. `git' says whether  *)
(* git knows the directory as a worktree, so that its commands work there. *)
(***************************************************************************)
EXTENDS Naturals, FiniteSets

CONSTANTS
    Pruners,
    MaxWork, MaxMishaps     \* bounds: versions written, kinds of mishaps

VARIABLES
    row,        \* the session row: status, recoveryKind, and whether it is stale
    tree,       \* the directory
    ref,        \* refs/devspace/recovery/<id>
    prune,      \* per pruner: its step and what it decided
    server,     \* the open or the restore that is under way in the server
    latest,     \* history: what the directory held when it was last written to
    written,    \* history: versions written
    mishaps     \* history: what happened that the code does not guard against

vars == <<row, tree, ref, prune, server, latest, written, mishaps>>

NoTree == [there |-> FALSE, git |-> FALSE, head |-> 0, tracked |-> 0, untracked |-> FALSE]
Base == [NoTree EXCEPT !.there = TRUE, !.git = TRUE]
Idle == [step |-> "idle", kind |-> "none", head |-> 0, tracked |-> 0]

Init ==
    /\ row = [status |-> "none", kind |-> "none", stale |-> FALSE]
    /\ tree = NoTree /\ ref = Idle /\ prune = [p \in Pruners |-> Idle] /\ server = Idle
    /\ latest = Base /\ written = 0 /\ mishaps = {}

Mishap(m) ==
    /\ m \in mishaps \/ Cardinality(mishaps) < MaxMishaps
    /\ mishaps' = mishaps \union {m}

(***************************************************************************)
(* `git worktree remove --force' that stops half-way leaves a part of the  *)
(* files, a version nobody wrote.  Git forgets the worktree all the same,  *)
(* unless it was killed before it came to that.  A removal that cleans up  *)
(* may do its work, refuse, or stop half-way.                              *)
(***************************************************************************)
RemovedInPart(known) ==
    /\ tree.there /\ written < MaxWork /\ written' = written + 1
    /\ tree' = [tree EXCEPT !.tracked = written + 1, !.git = known]

CleansUp ==
    \/ (tree' = NoTree \/ UNCHANGED tree) /\ UNCHANGED written
    \/ \E known \in BOOLEAN : RemovedInPart(known)

Goes(p, step) == prune' = [prune EXCEPT ![p].step = step]
Ends(p) == prune' = [prune EXCEPT ![p] = Idle]

(***************************************************************************)
(* createManagedWorktree(), then createSession(): a failure in between     *)
(* leaves a directory that no session knows.                               *)
(***************************************************************************)
Create ==
    /\ row.status = "none" /\ ~tree.there /\ server = Idle
    /\ tree' = Base /\ server' = [Idle EXCEPT !.step = "created"]
    /\ UNCHANGED <<row, ref, prune, latest, written, mishaps>>

CreateSession ==
    /\ server.step = "created" /\ server' = Idle /\ row' = [row EXCEPT !.status = "active"]
    /\ UNCHANGED <<tree, ref, prune, latest, written, mishaps>>

(***************************************************************************)
(* Use: a call of getWorkspace() touches an active row, even when the      *)
(* directory of a workspace that is not in the cache is not there.         *)
(***************************************************************************)
Touch ==
    /\ row.status = "active" /\ row.stale /\ row' = [row EXCEPT !.stale = FALSE]
    /\ UNCHANGED <<tree, ref, prune, server, latest, written, mishaps>>

Deciding == {"looked", "snapped", "saved", "restore", "apply"}
Works(t) ==
    /\ row.status = "active" /\ tree.there /\ tree' = t /\ latest' = t
    /\ IF \E p \in Pruners : prune[p].step \in Deciding
       THEN Mishap("written while pruned") ELSE UNCHANGED mishaps
    /\ UNCHANGED <<row, ref, prune, server>>

Work ==
    \/ written < MaxWork /\ written' = written + 1 /\ Works([tree EXCEPT !.tracked = written + 1])
    \/ tree.git /\ Works([tree EXCEPT !.head = tree.tracked]) /\ UNCHANGED written
    \/ Works([tree EXCEPT !.untracked = ~tree.untracked]) /\ UNCHANGED written

RemoveByHand ==
    /\ tree.there /\ tree' = NoTree /\ Mishap("removed by hand")
    /\ UNCHANGED <<row, ref, prune, server, latest, written>>

ThreeDaysPass ==
    /\ row.status = "active" /\ ~row.stale /\ server = Idle
    /\ \A p \in Pruners : prune[p] = Idle
    /\ row' = [row EXCEPT !.stale = TRUE]
    /\ UNCHANGED <<tree, ref, prune, server, latest, written, mishaps>>

(***************************************************************************)
(* cleanupManagedWorktree().                                               *)
(***************************************************************************)
List(p) ==  \* listStaleManagedWorktrees()
    /\ prune[p] = Idle /\ row.status = "active" /\ row.stale /\ Goes(p, "listed")
    /\ IF \E q \in Pruners : prune[q] # Idle THEN Mishap("overlap") ELSE UNCHANGED mishaps
    /\ UNCHANGED <<row, tree, ref, server, latest, written>>

\* git status: untracked files keep the worktree, and so does one git does not know.
Look(p) ==
    /\ prune[p].step = "listed"
    /\ IF ~tree.there THEN Goes(p, "missing")
       ELSE IF tree.untracked \/ ~tree.git THEN Ends(p)
       ELSE prune' = [prune EXCEPT ![p].step = "looked",
                          ![p].kind = IF tree.tracked # tree.head THEN "stash" ELSE "none"]
    /\ UNCHANGED <<row, tree, ref, server, latest, written, mishaps>>

DeleteSession(p) ==
    /\ prune[p].step = "missing" /\ Ends(p) /\ row' = [row EXCEPT !.status = "gone"]
    /\ UNCHANGED <<tree, ref, server, latest, written, mishaps>>

SnapshotOfChanges(p) ==  \* mutant: commits made in the worktree are not looked for
    /\ prune[p].step = "looked" /\ tree.there /\ tree.git
    /\ prune' = [prune EXCEPT ![p] = [step |-> "snapped", head |-> tree.head, tracked |-> tree.tracked,
                                      kind |-> @.kind]]
    /\ UNCHANGED <<row, tree, ref, server, latest, written, mishaps>>

\* rev-parse HEAD, and stash create when there were changes.
Snapshot(p) ==
    /\ prune[p].step = "looked" /\ tree.there /\ tree.git
    /\ IF prune[p].kind = "stash"
       THEN IF tree.tracked = tree.head THEN Ends(p)
            ELSE prune' = [prune EXCEPT ![p] = [step |-> "snapped", head |-> tree.head,
                                                tracked |-> tree.tracked, kind |-> "stash"]]
       ELSE prune' = [prune EXCEPT ![p] = [step |-> "snapped", head |-> tree.head,
                          tracked |-> tree.head, kind |-> IF tree.head # 0 THEN "head" ELSE "none"]]
    /\ UNCHANGED <<row, tree, ref, server, latest, written, mishaps>>

UpdateRef(p) ==
    /\ prune[p].step = "snapped" /\ Goes(p, "saved")
    /\ ref' = IF prune[p].kind = "none" THEN ref ELSE prune[p]
    /\ UNCHANGED <<row, tree, server, latest, written, mishaps>>

Remove(p) ==
    /\ prune[p].step = "saved" /\ tree.there /\ tree.git /\ tree' = NoTree /\ Goes(p, "removed")
    /\ UNCHANGED <<row, ref, server, latest, written, mishaps>>

\* The removal fails, with a part of the files gone or with all of them; the row
\* stays as it is.
RemoveStops(p) ==
    /\ prune[p].step = "saved" /\ tree.there /\ tree.git /\ Ends(p)
    /\ \/ RemovedInPart(FALSE) /\ Mishap("half removed")
       \/ RemovedInPart(TRUE) /\ Mishap("git killed")
       \/ tree' = NoTree /\ UNCHANGED written /\ Mishap("interrupted")
    /\ UNCHANGED <<row, ref, server, latest>>

\* A command or a check of a path fails before anything is removed.
GitFails(p) ==
    /\ prune[p].step \in {"listed", "looked", "snapped", "saved"} /\ Ends(p)
    /\ UNCHANGED <<row, tree, ref, server, latest, written, mishaps>>

\* markSessionPruned() updates by id, whatever the row says by now.
Marked(p) ==
    IF row.status = "gone" THEN row ELSE [row EXCEPT !.status = "pruned", !.kind = prune[p].kind]

MarkPruned(p) ==
    /\ prune[p].step = "removed" /\ row' = Marked(p) /\ Ends(p)
    /\ UNCHANGED <<tree, ref, server, latest, written, mishaps>>

MarkIsLost(p) ==  \* mutant: nothing is restored when the row cannot be marked
    /\ prune[p].step = "removed" /\ Ends(p)
    /\ UNCHANGED <<row, tree, ref, server, latest, written, mishaps>>

MarkFails(p) ==
    /\ prune[p].step = "removed" /\ Goes(p, "restore")
    /\ UNCHANGED <<row, tree, ref, server, latest, written, mishaps>>

(***************************************************************************)
(* restoreManagedWorktree(): the commit first, then the stash; for the     *)
(* pruner that could not mark the row, and for the server.                 *)
(***************************************************************************)
Added(kind) == LET head == IF kind = "none" THEN 0 ELSE ref.head IN
               [Base EXCEPT !.head = head, !.tracked = head]

RestoreRemoved(p) ==
    /\ prune[p].step = "restore" /\ ~tree.there /\ tree' = Added(prune[p].kind)
    /\ IF prune[p].kind = "stash" THEN Goes(p, "apply") ELSE Ends(p)
    /\ UNCHANGED <<row, ref, server, latest, written, mishaps>>

ApplyRemoved(p) ==
    /\ prune[p].step = "apply" /\ tree.there /\ tree.git
    /\ tree' = [tree EXCEPT !.tracked = ref.tracked] /\ Ends(p)
    /\ UNCHANGED <<row, ref, server, latest, written, mishaps>>

\* The partial worktree goes, and the row is marked again, if each can be done.
RestoreFails(p) ==
    /\ prune[p].step \in {"restore", "apply"} /\ Ends(p)
    /\ IF prune[p].step = "apply" THEN CleansUp ELSE UNCHANGED <<tree, written>>
    /\ \/ row' = Marked(p) /\ UNCHANGED mishaps
       \/ Mishap(IF tree'.there THEN "half restored" ELSE "interrupted") /\ UNCHANGED row
    /\ UNCHANGED <<ref, server, latest>>

CrashPruner(p) ==
    /\ prune[p] # Idle /\ Ends(p)
    /\ Mishap(IF prune[p].step = "apply" THEN "half restored" ELSE "interrupted")
    /\ UNCHANGED <<row, tree, ref, server, latest, written>>

(***************************************************************************)
(* getWorkspace() of a pruned session; calls that come meanwhile share the *)
(* restore.                                                                *)
(***************************************************************************)
Restore ==
    /\ row.status = "pruned" /\ server = Idle
    /\ server' = [Idle EXCEPT !.step = "restore", !.kind = row.kind]
    /\ UNCHANGED <<row, tree, ref, prune, latest, written, mishaps>>

AddWorktree ==
    /\ server.step = "restore"
    /\ \/ server' = Idle /\ UNCHANGED tree  \* refused, or git fails
       \/ /\ ~tree.there /\ tree' = Added(server.kind)
            /\ server' = [server EXCEPT !.step = IF server.kind = "stash" THEN "apply" ELSE "restored"]
    /\ UNCHANGED <<row, ref, prune, latest, written, mishaps>>

ApplyStash ==
    /\ server.step = "apply"
    /\ \/ /\ tree.there /\ tree.git /\ tree' = [tree EXCEPT !.tracked = ref.tracked]
          /\ server' = [server EXCEPT !.step = "restored"] /\ UNCHANGED written
       \/ CleansUp /\ server' = Idle
    /\ UNCHANGED <<row, ref, prune, latest, mishaps>>

Reactivate ==
    /\ server.step = "restored"
    /\ IF row.status = "pruned"
       THEN row' = [status |-> "active", kind |-> "none", stale |-> FALSE] /\ server' = Idle
       ELSE server' = [server EXCEPT !.step = "discard"] /\ UNCHANGED row
    /\ UNCHANGED <<tree, ref, prune, latest, written, mishaps>>

ReactivateFails ==
    /\ server.step = "restored" /\ server' = [server EXCEPT !.step = "discard"]
    /\ UNCHANGED <<row, tree, ref, prune, latest, written, mishaps>>

Discard ==
    /\ server.step = "discard" /\ server' = Idle /\ CleansUp
    /\ UNCHANGED <<row, ref, prune, latest, mishaps>>

CrashServer ==
    /\ server # Idle /\ server' = Idle
    /\ UNCHANGED <<row, tree, ref, prune, latest, written, mishaps>>

Next ==
    \/ Create \/ CreateSession \/ Touch \/ Work \/ RemoveByHand \/ ThreeDaysPass
    \/ \E p \in Pruners :
          \/ List(p) \/ Look(p) \/ DeleteSession(p) \/ Snapshot(p) \/ UpdateRef(p) \/ Remove(p)
          \/ RemoveStops(p) \/ GitFails(p) \/ MarkPruned(p) \/ MarkFails(p) \/ RestoreRemoved(p) \/ ApplyRemoved(p)
          \/ RestoreFails(p) \/ CrashPruner(p)
    \/ Restore \/ AddWorktree \/ ApplyStash \/ Reactivate \/ ReactivateFails \/ Discard
    \/ CrashServer

Spec == Init /\ [][Next]_vars

-------------------------------------------------------------------------------
Holds(place, content) == place.head = content.head /\ place.tracked = content.tracked

\* What was committed or changed in a worktree is in its directory or behind
\* its recovery ref at every moment, through prunes, failed prunes, removals that
\* stop half-way, restores and crashes - unless it was written while a pruner was
\* between its look at the worktree and the removal, two pruners overlapped, git
\* was killed in the middle of a removal, or a pruner died while it put changes
\* back or could not take away what it had put back.  And a worktree that is in
\* use again holds all of it, not the commit without the changes, unless a
\* removal that failed has taken a part of it.
InDirectory == tree.there /\ Holds(tree, latest) /\ tree.untracked = latest.untracked
Saved == ~latest.untracked /\ (Holds(ref, latest) \/ Holds(Base, latest))
NothingIsLost ==
    /\ mishaps \subseteq {"interrupted", "half removed"} => InDirectory \/ Saved
    /\ mishaps \subseteq {"interrupted"} =>
          (row.status = "active" /\ tree.there /\ (\A p \in Pruners : prune[p].step # "apply")
              => Holds(tree, latest))

\* A session is forgotten only when its directory was removed by hand or a
\* prune was interrupted or overtaken; otherwise, also after a removal that left
\* a part of the files, its id stays good for opening the worktree again.
OnlyMishapsForget ==
    row.status = "gone" => ~(mishaps \subseteq {"written while pruned", "half removed", "git killed"})

\* A pruned worktree can be had back: its content, and the id to ask for it.
PrunedIsKept == NothingIsLost /\ OnlyMishapsForget

(***************************************************************************)
(* Why it holds: unless two pruners overlap, one of them or the server has *)
(* the worktree, and whoever has it knows where its content is.            *)
(***************************************************************************)
Kinds == {"none", "head", "stash"}
Contents == [there : BOOLEAN, git : BOOLEAN, head : Nat, tracked : Nat, untracked : BOOLEAN]
Steps == {"idle", "created", "restore", "apply", "restored", "discard", "listed", "looked",
          "missing", "snapped", "saved", "removed"}
Records == [step : Steps, kind : Kinds, head : Nat, tracked : Nat]
Rows == [status : {"none", "active", "pruned", "gone"}, kind : Kinds, stale : BOOLEAN]

\* Rows, directories and what is known of them have the shape the code gives them.
TypeOK ==
    /\ row \in Rows /\ tree \in Contents /\ latest \in Contents /\ ref \in Records
    /\ prune \in [Pruners -> Records] /\ server \in Records /\ written \in Nat

\* Nothing happened that takes a directory away; nothing that takes content away; nothing
\* that leaves a part of it in use; and no two pruners overlapped.
Uncut == mishaps \subseteq {"written while pruned", "half removed", "git killed"}
Quiet == mishaps \subseteq {"interrupted", "half removed"}
Whole == mishaps \subseteq {"interrupted"}
Apart == "overlap" \notin mishaps

\* Pruners that do not overlap work one at a time, on a row that is in use; the
\* server works on one that is not.
OnePruner ==
    Apart =>
        /\ \A p \in Pruners : prune[p] # Idle =>
              row.status = "active" /\ \A q \in Pruners : q # p => prune[q] = Idle
        /\ server # Idle => row.status = IF server.step = "created" THEN "none" ELSE "pruned"

\* Unless it is removed or a pruner is cut short, the directory of a worktree in
\* use is there, or its pruner has just removed it and will mark the row.
InUseIsThere ==
    Uncut =>
        /\ row.status # "gone"
        /\ row.status = "active" =>
              tree.there \/ \E p \in Pruners : prune[p].step \in {"removed", "restore"}
        /\ \A p \in Pruners : prune[p].step # "missing"
        /\ \A p \in Pruners : prune[p].step \in {"listed", "looked", "snapped", "saved", "apply"} => tree.there
        /\ server.step \in {"created", "apply", "restored"} => tree.there

\* What a recovery of a kind would bring back is what was there last.
Kept(kind) ==
    /\ ~latest.untracked
    /\ kind = "none" => Holds(Base, latest)
    /\ kind # "none" => Holds(ref, latest)
    /\ kind = "head" => latest.tracked = latest.head

\* Where the content is, with the row and the directory as they are.
DirectoryKnown ==
    /\ row.status = "active" /\ tree.git /\ (\A p \in Pruners : prune[p].step # "apply")
            => InDirectory
    /\ tree.git => tree.there
    /\ row.status = "active" /\ ~tree.git => InDirectory \/ Saved
    /\ Whole /\ row.status = "active" => tree.there = tree.git
    /\ row.status \in {"none", "gone"} => Saved
    /\ row.status = "none" => Holds(Base, latest)
    /\ row.status = "pruned" => Kept(row.kind)

\* What the server and a pruner know of it, step by step.
ServerKnows ==
    /\ server.step \in {"restore", "apply", "restored"} => server.kind = row.kind
    /\ server.step = "apply" => server.kind = "stash" /\ tree.head = ref.head /\ ~tree.untracked
    /\ server.step \in {"created", "restored"} => InDirectory /\ tree.git /\ ~tree.untracked
PrunerKnows(p) ==
    LET r == prune[p] IN
    /\ r.step \in {"missing", "removed"} => ~tree.there
    /\ r.step \in {"looked", "snapped", "saved"} => tree.git /\ tree.there /\ ~latest.untracked
    /\ r.step = "looked" => (r.kind = "stash" <=> latest.tracked # latest.head)
    /\ r.step = "snapped" =>
          /\ Holds(r, latest)
          /\ r.kind = "none" => Holds(Base, latest)
          /\ r.kind = "head" => latest.tracked = latest.head
    /\ r.step \in {"saved", "removed", "restore", "apply"} => Kept(r.kind)
    /\ r.step = "apply" =>
          r.kind = "stash" /\ tree.git /\ tree.there /\ tree.head = ref.head /\ ~tree.untracked

ContentIsKnown == Quiet => DirectoryKnown /\ ServerKnows /\ \A p \in Pruners : PrunerKnows(p)

PruneInv == TypeOK /\ OnePruner /\ InUseIsThere /\ ContentIsKnown
===============================================================================
