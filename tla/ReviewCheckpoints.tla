--------------------------- MODULE ReviewCheckpoints ---------------------------
(***************************************************************************)
(* The review points of one workspace: review-checkpoints.ts.  Snapshots   *)
(* of the working tree are commits; two refs name the one from the opening *)
(* of the workspace and the one that was shown last.  Every git command is *)
(* awaited, so reviews of one workspace overlap with each other and with   *)
(* whoever writes the files; the refs outlive the server.                  *)
(***************************************************************************)
EXTENDS Naturals, Sequences

CONSTANTS
    Reviews,            \* calls of reviewChanges()
    MaxCommits, MaxWrites   \* bounds

VARIABLES
    work,       \* version of the working tree
    commits,    \* [tree, parent]; parent 0 is the HEAD, or nothing
    refs,       \* open and baseline; 0 when missing
    memory,     \* the server's WorkspaceReviewState
    opening,    \* the initialization that callers share: its step and its snapshot
    review,     \* per call: step, baseline, snapshot, whether it marks
    shown,      \* history: <<baseline, snapshot>> of the reviews computed
    repeated    \* history: what reviewByRef() showed

vars == <<work, commits, refs, memory, opening, review, shown, repeated>>

NoMemory == [ready |-> FALSE, open |-> FALSE, baseline |-> FALSE]
NoReview == [step |-> "none", baseline |-> 0, commit |-> 0, mark |-> FALSE]

Init ==
    /\ work = 0 /\ commits = <<>> /\ refs = [open |-> 0, baseline |-> 0]
    /\ memory = NoMemory /\ opening = [step |-> "none", commit |-> 0]
    /\ review = [q \in Reviews |-> NoReview] /\ shown = {} /\ repeated = {}

Edit ==
    /\ work < MaxWrites /\ work' = work + 1
    /\ UNCHANGED <<commits, refs, memory, opening, review, shown, repeated>>

\* createWorkingTreeSnapshot(): the tree is what the files are by then.
Snapshot(parent) ==
    /\ Len(commits) < MaxCommits
    /\ commits' = Append(commits, [tree |-> work, parent |-> parent])

(***************************************************************************)
(* initializeWorkspaceState(): refs that are there are kept.  A failure    *)
(* leaves the state unready, and the next call starts over.                *)
(***************************************************************************)
Ready(open, baseline) == memory' = [ready |-> TRUE, open |-> open, baseline |-> baseline]

Initialize ==
    /\ ~memory.ready /\ opening.step = "none"
    /\ IF refs.open = 0 /\ refs.baseline = 0
       THEN /\ Snapshot(0) /\ opening' = [step |-> "snapped", commit |-> Len(commits) + 1]
            /\ UNCHANGED memory
       ELSE Ready(refs.open # 0, refs.baseline # 0) /\ UNCHANGED <<commits, opening>>
    /\ UNCHANGED <<work, refs, review, shown, repeated>>

SetOpenRef ==
    /\ opening.step = "snapped" /\ opening' = [opening EXCEPT !.step = "open"]
    /\ refs' = [refs EXCEPT !.open = opening.commit]
    /\ UNCHANGED <<work, commits, memory, review, shown, repeated>>

SetBaselineRef ==
    /\ opening.step = "open" /\ opening' = [step |-> "none", commit |-> 0]
    /\ refs' = [refs EXCEPT !.baseline = opening.commit] /\ Ready(TRUE, TRUE)
    /\ UNCHANGED <<work, commits, review, shown, repeated>>

InitializationFails ==
    /\ opening.step # "none" /\ opening' = [step |-> "none", commit |-> 0]
    /\ UNCHANGED <<work, commits, refs, memory, review, shown, repeated>>

(***************************************************************************)
(* reviewChanges().  Without a baseline the review falls back to the open  *)
(* ref; without the ref that it needs it fails.                            *)
(***************************************************************************)
Begin(q, since, mark) ==
    /\ memory.ready /\ review[q] = NoReview
    /\ LET from == IF since = "last_shown" /\ ~memory.baseline THEN "workspace_open" ELSE since
           commit == IF from = "workspace_open" THEN refs.open ELSE refs.baseline
       IN /\ from = "workspace_open" => memory.open
          /\ commit # 0
          /\ review' = [review EXCEPT ![q] = [NoReview EXCEPT !.step = "began", !.baseline = commit,
                                                              !.mark = mark]]
    /\ UNCHANGED <<work, commits, refs, memory, opening, shown, repeated>>

TakeSnapshot(q) ==
    /\ review[q].step = "began" /\ Snapshot(review[q].baseline)
    /\ review' = [review EXCEPT ![q].step = "snapped", ![q].commit = Len(commits) + 1]
    /\ shown' = shown \union {<<review[q].baseline, Len(commits) + 1>>}
    /\ UNCHANGED <<work, refs, memory, opening, repeated>>

MarkLatest(q) ==  \* mutant: the files of now are marked, not those that were compared
    /\ review[q].step = "snapped" /\ review' = [review EXCEPT ![q] = NoReview]
    /\ Snapshot(review[q].baseline)
    /\ refs' = [refs EXCEPT !.baseline = Len(commits) + 1]
    /\ memory' = [memory EXCEPT !.baseline = TRUE]
    /\ UNCHANGED <<work, opening, shown, repeated>>

Mark(q) ==
    /\ review[q].step = "snapped" /\ review' = [review EXCEPT ![q] = NoReview]
    /\ IF review[q].mark
       THEN /\ refs' = [refs EXCEPT !.baseline = review[q].commit]
            /\ memory' = [memory EXCEPT !.baseline = TRUE]
       ELSE UNCHANGED <<refs, memory>>
    /\ UNCHANGED <<work, commits, opening, shown, repeated>>

ReviewFails(q) ==
    /\ review[q] # NoReview /\ review' = [review EXCEPT ![q] = NoReview]
    /\ UNCHANGED <<work, commits, refs, memory, opening, shown, repeated>>

(***************************************************************************)
(* reviewByRef(): the commits between the two refs may be read again.      *)
(***************************************************************************)
Ancestors[c \in 0..Len(commits)] == IF c = 0 THEN {} ELSE {c} \union Ancestors[commits[c].parent]
IsAncestor(a, c) == a \in Ancestors[c]

IsInHistory(c) ==  \* mutant: whatever leads to the baseline
    refs.open # 0 /\ refs.baseline # 0 /\ IsAncestor(c, refs.baseline)

IsReview(c) ==
    /\ refs.open # 0 /\ refs.baseline # 0 /\ c # refs.open
    /\ IsAncestor(refs.open, c) /\ IsAncestor(c, refs.baseline)

ReviewByRef(c) ==
    /\ memory.ready /\ IsReview(c)
    /\ repeated' = repeated \union {<<commits[c].parent, c>>}
    /\ UNCHANGED <<work, commits, refs, memory, opening, review, shown>>

Restart ==
    /\ memory' = NoMemory /\ opening' = [step |-> "none", commit |-> 0]
    /\ review' = [q \in Reviews |-> NoReview]
    /\ UNCHANGED <<work, commits, refs, shown, repeated>>

\* Somebody deletes a ref of the repository.
LoseRef(kind) ==
    /\ refs[kind] # 0 /\ refs' = [refs EXCEPT ![kind] = 0]
    /\ UNCHANGED <<work, commits, memory, opening, review, shown, repeated>>

Next ==
    \/ Edit \/ Initialize \/ SetOpenRef \/ SetBaselineRef \/ InitializationFails \/ Restart
    \/ \E q \in Reviews :
          \/ \E since \in {"last_shown", "workspace_open"}, mark \in BOOLEAN : Begin(q, since, mark)
          \/ TakeSnapshot(q) \/ Mark(q) \/ ReviewFails(q)
    \/ \E c \in DOMAIN commits : ReviewByRef(c)
    \/ \E kind \in {"open", "baseline"} : LoseRef(kind)

Spec == Init /\ [][Next]_vars

-------------------------------------------------------------------------------
\* No change goes unseen: the way from the opening of the workspace to the
\* baseline consists of differences that reviews computed, however reviews,
\* writers and restarts interleave; the baseline may fall back to an older
\* review, so that a change is shown twice, but never passes one over.
NothingUnseen ==
    (refs.open # 0 /\ refs.baseline # 0) =>
        /\ IsAncestor(refs.open, refs.baseline)
        /\ \A c \in Ancestors[refs.baseline] \ Ancestors[refs.open] : <<commits[c].parent, c>> \in shown

\* What is read by reference is a review that was made, with its own baseline.
OnlyReviewsAreRepeated == repeated \subseteq shown

\* Reviews show every change, and a review that is read again is one that was made.
ReviewsAreComplete == NothingUnseen /\ OnlyReviewsAreRepeated
-------------------------------------------------------------------------------
(***************************************************************************)
(* Why it holds.  The commits form a tree, each younger than its parent.   *)
(* Whatever a review starts from, and the baseline, is covered: the way    *)
(* there from the opening is made of reviews.  A review extends the way by *)
(* its own commit.  The opening is set once, before the first review.      *)
(***************************************************************************)
Commits == [tree : Nat, parent : Nat]
ReviewStates == [step : {"none", "began", "snapped"}, baseline : Nat, commit : Nat, mark : BOOLEAN]
TypeOK ==
    /\ work \in Nat /\ commits \in Seq(Commits) /\ refs \in [open : Nat, baseline : Nat]
    /\ memory \in [ready : BOOLEAN, open : BOOLEAN, baseline : BOOLEAN]
    /\ opening \in [step : {"none", "snapped", "open"}, commit : Nat]
    /\ review \in [Reviews -> ReviewStates]

ParentsAreOlder == \A c \in 1..Len(commits) : commits[c].parent < c

Covered(c) ==
    /\ c \in 1..Len(commits)
    /\ refs.open # 0 =>
         /\ refs.open \in Ancestors[c]
         /\ \A d \in Ancestors[c] \ Ancestors[refs.open] : <<commits[d].parent, d>> \in shown

RefsAreCovered ==
    /\ refs.open # 0 => refs.open \in 1..Len(commits)
    /\ refs.baseline # 0 => Covered(refs.baseline)

ReviewsAreCovered ==
    \A q \in Reviews :
        /\ review[q].step # "none" => memory.ready /\ Covered(review[q].baseline)
        /\ review[q].step = "snapped" =>
              /\ review[q].commit \in 1..Len(commits)
              /\ commits[review[q].commit].parent = review[q].baseline
              /\ <<review[q].baseline, review[q].commit>> \in shown

OpeningIsAlone ==
    opening.step # "none" =>
        /\ ~memory.ready /\ refs.baseline = 0 /\ opening.commit \in 1..Len(commits)
        /\ opening.step = "open" => refs.open \in {0, opening.commit}

ReviewInv ==
    /\ TypeOK /\ ParentsAreOlder /\ RefsAreCovered /\ ReviewsAreCovered /\ OpeningIsAlone
    /\ OnlyReviewsAreRepeated
===============================================================================
