------------------------------- MODULE Work -------------------------------
(***************************************************************************)
(* The work of a server and its account: work runs, the turns of one Codex *)
(* thread, managed commands, patches and the reviews of a workspace. They  *)
(* run one at a time: `part' names the one that moves, so that their state *)
(* spaces add up instead of multiplying.                                   *)
(***************************************************************************)
EXTENDS WorkRuns, Sequences

CONSTANTS
    Asleep,                                                         \* the state of a part that does not move
    NumTurns, MaxSpent, TurnFaults, Unknown,                        \* of CodexTurns
    Sessions, Polls, Terminals, MaxCharacters, Limits, MaxCompleted, MaxWritten,  \* of ProcessSessions
    Names, Lower(_), Texts, TrimmedEnd(_), Trimmed(_), Hunks, MaxActions,  \* of Patches
    Reviews, MaxCommits, MaxWrites                                  \* of ReviewCheckpoints

VARIABLES
    part,
    driver, handlers, row, snapshot, wire, codex, missed,
    session, listed, ended, process, call, answered, server,
    platform, disk, aside, textsBefore, should, staged, actions, write, step,
    work, commits, refs, memory, opening, review, shown, repeated

U == INSTANCE CodexTurns
Cmd == INSTANCE ProcessSessions
Pat == INSTANCE Patches WITH before <- textsBefore
R == INSTANCE ReviewCheckpoints

thread == <<driver, handlers, row, snapshot, wire, codex, missed>>
commands == <<session, listed, ended, process, call, answered, server>>
patches == <<platform, disk, aside, textsBefore, should, staged, actions, write, step>>
reviews == <<work, commits, refs, memory, opening, review, shown, repeated>>

\* A part that does not move has no state.
ThreadIdle ==
    /\ driver = Asleep /\ handlers = Asleep /\ row = Asleep /\ snapshot = Asleep
    /\ wire = Asleep /\ codex = Asleep /\ missed = Asleep
CommandsIdle ==
    /\ session = Asleep /\ listed = Asleep /\ ended = Asleep /\ process = Asleep
    /\ call = Asleep /\ answered = Asleep /\ server = Asleep
PatchesIdle ==
    /\ platform = Asleep /\ disk = Asleep /\ aside = Asleep /\ textsBefore = Asleep
    /\ should = Asleep /\ staged = Asleep /\ actions = Asleep /\ write = Asleep
    /\ step = Asleep
ReviewsIdle ==
    /\ work = Asleep /\ commits = Asleep /\ refs = Asleep /\ memory = Asleep
    /\ opening = Asleep /\ review = Asleep /\ shown = Asleep /\ repeated = Asleep

WorkInit ==
    /\ part \in {"runs", "thread", "commands", "patches", "reviews"}
    /\ Init
    /\ IF part = "thread" THEN U!Init ELSE ThreadIdle
    /\ IF part = "commands" THEN Cmd!Init ELSE CommandsIdle
    /\ IF part = "patches" THEN Pat!Init ELSE PatchesIdle
    /\ IF part = "reviews" THEN R!Init ELSE ReviewsIdle

WorkNext ==
    \/ part = "runs" /\ Next /\ UNCHANGED <<part, thread, commands, patches, reviews>>
    \/ part = "thread" /\ U!Next /\ UNCHANGED <<part, vars, commands, patches, reviews>>
    \/ part = "commands" /\ Cmd!Next /\ UNCHANGED <<part, vars, thread, patches, reviews>>
    \/ part = "patches" /\ Pat!Next /\ UNCHANGED <<part, vars, thread, commands, reviews>>
    \/ part = "reviews" /\ R!Next /\ UNCHANGED <<part, vars, thread, commands, patches>>

workVars == <<part, vars, thread, commands, patches, reviews>>
WorkSpec == WorkInit /\ [][WorkNext]_workVars

\* No token of a thread is billed twice, and what is called complete is what the turn used.
UsageIsTrue == part = "thread" => U!UsageIsTrue
\* A managed command is accounted for, to the end of its output and of its process.
CommandsAreFollowed == part = "commands" => Cmd!CommandsAreFollowed
\* A patch has the effect of its actions and hunks, or none, or that of some files when it fails half-way.
PatchesAreWhole == part = "patches" => Pat!PatchesAreWhole
\* Reviews show every change between the opening of a workspace and its baseline.
ReviewsAreComplete == part = "reviews" => R!ReviewsAreComplete
===============================================================================
