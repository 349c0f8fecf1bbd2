------------------------------- MODULE Checkouts -------------------------------
(***************************************************************************)
(* The checkouts of a machine: who may work in them at once, how           *)
(* conversations open them, and how a managed worktree is pruned and       *)
(* restored. They run one at a time: `part' names the one that moves, so   *)
(* that their state spaces add up instead of multiplying.                  *)
(***************************************************************************)
EXTENDS ExecutionCoordinator, Naturals, Sequences, FiniteSets

CONSTANTS
    Asleep,                                                 \* the state of a part that does not move
    Scopes, Calls, MaxCached, MaxDirs, MaxSessions, None,   \* of Workspaces
    Pruners, MaxWork, MaxMishaps                            \* of Worktrees

VARIABLES
    part,
    dir, made, sessions, binding, cache, pending, call, replies,
    row, tree, ref, prune, server, latest, written, mishaps

W == INSTANCE Workspaces
G == INSTANCE Worktrees

directory == <<dir, made, sessions, binding, cache, pending, call, replies>>
worktree == <<row, tree, ref, prune, server, latest, written, mishaps>>

\* A part that does not move has no state.
DirectoryIdle ==
    /\ dir = Asleep /\ made = Asleep /\ sessions = Asleep /\ binding = Asleep
    /\ cache = Asleep /\ pending = Asleep /\ call = Asleep /\ replies = Asleep
WorktreeIdle ==
    /\ row = Asleep /\ tree = Asleep /\ ref = Asleep /\ prune = Asleep
    /\ server = Asleep /\ latest = Asleep /\ written = Asleep /\ mishaps = Asleep

CheckoutsInit ==
    /\ part \in {"admission", "opens", "worktree"}
    /\ Init
    /\ IF part = "opens" THEN W!Init ELSE DirectoryIdle
    /\ IF part = "worktree" THEN G!Init ELSE WorktreeIdle

CheckoutsNext ==
    \/ part = "admission" /\ Next /\ UNCHANGED <<part, directory, worktree>>
    \/ part = "opens" /\ W!Next /\ UNCHANGED <<part, vars, worktree>>
    \/ part = "worktree" /\ G!Next /\ UNCHANGED <<part, vars, directory>>

checkoutsVars == <<part, vars, directory, worktree>>
CheckoutsSpec == CheckoutsInit /\ [][CheckoutsNext]_checkoutsVars

\* Opens of a conversation get one session of the directory that is there, and its context once.
OpensAreStable == part = "opens" => W!OpensAreStable
\* What is in a managed worktree is in its directory or can be restored.
PrunedIsKept == part = "worktree" => G!PrunedIsKept
===============================================================================
