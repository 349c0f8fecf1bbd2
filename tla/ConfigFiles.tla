------------------------------ MODULE ConfigFiles ------------------------------
(***************************************************************************)
(* The user's configuration (user-config.ts, config-migration.ts): every   *)
(* command loads config.jsonc, the first one after an upgrade makes it of  *)
(* config.json, `config set` and `init` edit it.  No lock is taken, so     *)
(* commands meet at the file system calls, which are the steps here.       *)
(***************************************************************************)
EXTENDS Naturals, FiniteSets

CONSTANTS
    Commands,   \* processes, each of one command
    Kinds,      \* what each of them may be, among AllKinds
    MaxFaults,  \* bound: renames of the legacy file that fail
    MaxCrashes  \* bound: commands that are killed

AllKinds == {"serve", "set", "init", "reinit"}

VARIABLES
    files,      \* which of config.jsonc, config.json and its backup exist
    text,       \* what config.jsonc says: "legacy" for the migrated values, a command for its edit
    auth,       \* auth.json: the command whose password it holds, "none", or "torn"
    supported,  \* whether config.json has only keys that are known
    run,        \* [kind, at, pass, held, password, found, shared] of each command
    last,       \* the last command whose edit was written
    rolled,     \* whether a migration was rolled back
    faults, crashes

vars == <<files, text, auth, supported, run, last, rolled, faults, crashes>>

NoOne == "none"
Marks == Commands \union {"legacy"}
Over == {"done", "unconfigured", "failed", "dead"}
Reading == {"config", "legacy", "backup", "migrate", "link", "rename", "rollback", "check", "read"}
Places == {"idle", "edit", "password", "write"} \union Reading \union Over
Idle == [kind |-> "serve", at |-> "idle", pass |-> 1, held |-> {}, password |-> NoOne,
         found |-> [text |-> {}, auth |-> NoOne], shared |-> FALSE]

Init ==
    /\ files \in {{}, {"legacy"}, {"legacy", "backup"}, {"config"}}
    /\ text = {} /\ auth = NoOne
    /\ supported \in BOOLEAN
    /\ run = [c \in Commands |-> Idle]
    /\ last = NoOne /\ rolled = FALSE
    /\ faults = 0 /\ crashes = 0

Runs == [kind: AllKinds, at: Places, pass: 1..2, held: SUBSET Marks,
         password: Commands \union {NoOne},
         found: [text: SUBSET Marks, auth: Commands \union {NoOne, "torn"}], shared: BOOLEAN]

TypeOK ==
    /\ files \subseteq {"config", "legacy", "backup"}
    /\ text \subseteq Marks
    /\ auth \in Commands \union {NoOne, "torn"}
    /\ run \in [Commands -> Runs]
    /\ last \in Commands \union {NoOne}

-----------------------------------------------------------------------------
Edits(c) == run[c].kind # "serve"
Written(c) == run[c].at = "done" /\ Edits(c) /\ run[c].pass = 2

Goes(c, place) == run' = [run EXCEPT ![c].at = place]

\* c has written: the commands that run meanwhile are told apart from those that run alone.
GoesOn(c, place) ==
    run' = [d \in Commands |-> IF d = c THEN [run[c] EXCEPT !.at = place]
                               ELSE [run[d] EXCEPT !.shared = @ \/ run[d].at \notin Over \union {"idle"}]]
Where(c, place) == run[c].at = place
Disk == <<files, text, auth>>
Rest == <<supported, last, rolled, faults, crashes>>

Starts(c, kind) ==
    /\ Where(c, "idle")
    /\ run' = [run EXCEPT ![c] = [Idle EXCEPT !.kind = kind, !.at = "config",
                                              !.found = [text |-> text, auth |-> auth]]]
    /\ UNCHANGED <<Disk, Rest>>

(* loadDevspaceFiles *)

ConfigAsked(c) ==
    /\ Where(c, "config")
    /\ Goes(c, IF "config" \in files THEN "check" ELSE "legacy")
    /\ UNCHANGED <<Disk, Rest>>

LegacyAsked(c) ==
    /\ Where(c, "legacy")
    /\ Goes(c, IF "legacy" \in files THEN "backup" ELSE "check")
    /\ UNCHANGED <<Disk, Rest>>

(* migrateLegacyConfigFile *)

BackupAsked(c) ==
    /\ Where(c, "backup")
    /\ Goes(c, IF "backup" \in files THEN "failed" ELSE "migrate")
    /\ UNCHANGED <<Disk, Rest>>

\* config.json is read, made the new format, and written to a temporary file of c.
Migrated(c) == "legacy" \in files /\ supported

Migrates(c) ==
    /\ Where(c, "migrate")
    /\ Goes(c, IF Migrated(c) THEN "link" ELSE "failed")
    /\ UNCHANGED <<Disk, Rest>>

Replaces(c) ==  \* mutant: a rename publishes the file, over one that is there
    /\ files' = files \union {"config"} /\ text' = {"legacy"}
    /\ Goes(c, "rename")

Publishes(c) ==
    IF "config" \in files
    THEN Goes(c, "check") /\ UNCHANGED <<files, text>>
    ELSE /\ files' = files \union {"config"} /\ text' = {"legacy"}
         /\ Goes(c, "rename")

Link(c) ==
    /\ Where(c, "link")
    /\ Publishes(c)
    /\ UNCHANGED <<auth, Rest>>

BacksUp(c) ==
    /\ Where(c, "rename") /\ "legacy" \in files
    /\ files' = (files \ {"legacy"}) \union {"backup"}
    /\ Goes(c, "check")
    /\ UNCHANGED <<text, auth, Rest>>

BackupFails(c) ==
    /\ Where(c, "rename")
    /\ "legacy" \in files => faults < MaxFaults
    /\ faults' = IF "legacy" \in files THEN faults + 1 ELSE faults
    /\ Goes(c, IF "legacy" \in files THEN "rollback" ELSE "failed")
    /\ UNCHANGED <<Disk, supported, last, rolled, crashes>>

RollsBack(c) ==
    /\ Where(c, "rollback")
    /\ files' = files \ {"config"} /\ text' = {}
    /\ rolled' = TRUE
    /\ Goes(c, "failed")
    /\ UNCHANGED <<auth, supported, last, faults, crashes>>

(* The rest of loadDevspaceFiles; what the command does with the files. *)

Configured == "config" \in files /\ auth # NoOne

\* A command without a configuration asks for one where it can, and else ends.
Leads(c) ==
    LET r == run[c]
    IN  IF r.pass = 2 THEN {"edit"}
        ELSE IF r.kind \in {"serve", "init"} /\ Configured THEN {"done"}
        ELSE IF r.kind = "serve" THEN {"unconfigured", "init"}
        ELSE {"again"}

\* The password of init is that of auth.json, or one it makes.
FreshPassword(c) == c  \* mutant: every init makes a password
KeptPassword(c) == IF auth = NoOne THEN c ELSE auth

Loaded(c) ==
    LET r == run[c]
    IN  \E to \in Leads(c) :
            run' = [run EXCEPT ![c] =
                CASE to = "init" -> [r EXCEPT !.kind = "init", !.at = "config"]
                  [] to = "again" -> [r EXCEPT !.at = "config", !.pass = 2,
                        !.password = IF r.password = NoOne /\ r.kind # "set" THEN KeptPassword(c)
                                      ELSE r.password]
                  [] OTHER -> [r EXCEPT !.at = to]]

\* existsSync(config) and existsSync(auth); auth.json is parsed.
Exists(c) ==
    /\ Where(c, "check")
    /\ IF "config" \in files THEN Goes(c, "read")
       ELSE IF auth = "torn" THEN Goes(c, "failed")
       ELSE Loaded(c)
    /\ UNCHANGED <<Disk, Rest>>

Reads(c) ==
    /\ Where(c, "read")
    /\ IF "config" \notin files \/ auth = "torn" THEN Goes(c, "failed") ELSE Loaded(c)
    /\ UNCHANGED <<Disk, Rest>>

(* setDevspaceConfigValues *)

StartsAnew(c) == {}  \* mutant: the edit is made to the defaults
Source(c) == IF "config" \in files THEN text ELSE {}

Edit(c) ==
    /\ Where(c, "edit")
    /\ run' = [run EXCEPT ![c].held = Source(c), ![c].at = "write"]
    /\ UNCHANGED <<Disk, Rest>>

AtomicWrite(c) ==
    /\ Where(c, "write")
    /\ files' = files \union {"config"}
    /\ text' = run[c].held \union {c}
    /\ last' = c
    /\ GoesOn(c, IF run[c].kind = "set" THEN "done" ELSE "password")
    /\ UNCHANGED <<auth, supported, rolled, faults, crashes>>

\* writeFileSync empties auth.json before it writes.
Truncates(c) ==
    /\ Where(c, "password") /\ auth # "torn"
    /\ auth' = "torn"
    /\ UNCHANGED <<files, text, run, Rest>>

WritesAuth(c) ==
    /\ Where(c, "password") /\ auth = "torn"
    /\ auth' = run[c].password
    /\ GoesOn(c, "done")
    /\ UNCHANGED <<files, text, Rest>>

Crash(c) ==
    /\ ~Where(c, "idle") /\ run[c].at \notin Over
    /\ crashes < MaxCrashes
    /\ crashes' = crashes + 1
    /\ Goes(c, "dead")
    /\ UNCHANGED <<Disk, supported, last, rolled, faults>>

Command(c) ==
    \/ \E kind \in Kinds[c] : Starts(c, kind)
    \/ ConfigAsked(c) \/ LegacyAsked(c)
    \/ BackupAsked(c) \/ Migrates(c) \/ Link(c) \/ BacksUp(c) \/ BackupFails(c) \/ RollsBack(c)
    \/ Exists(c) \/ Reads(c)
    \/ Edit(c) \/ AtomicWrite(c) \/ Truncates(c) \/ WritesAuth(c)
    \/ Crash(c)

Next == \E c \in Commands : Command(c)
Spec == Init /\ [][Next]_vars

-----------------------------------------------------------------------------
\* What the legacy configuration said is in the new one once the old is put aside, whoever
\* edited in between.  A migration that was rolled back may have left a command with the
\* defaults, which it writes over the next migration.
MigratedIsKept == ("backup" \in files /\ "legacy" \notin files /\ ~rolled)
    => "config" \in files /\ "legacy" \in text

\* A command that no other writes beside adds its edit to all that was there when it began.
\* Of two at once the later write wins: what it read may be older.
EditsAddUp == (last # NoOne /\ ~run[last].shared /\ ~rolled)
    => "config" \in files /\ {last} \union run[last].found.text \subseteq text

\* init shows the password auth.json had when it began, if it had one.
OnePassword ==
    \A c \in Commands :
        (/\ Written(c) /\ run[c].kind # "set" /\ ~run[c].shared
         /\ run[c].found.auth \in Commands)
    => run[c].password = run[c].found.auth

ConfigIsKept == MigratedIsKept /\ EditsAddUp /\ OnePassword

\* An instance in which every command only loads.
ServeOnly == [c \in Commands |-> {"serve"}]

\* user-config.test.ts:59-60: of the commands that start first after an upgrade one migrates
\* and the others go on without.
FirstStartsSucceed ==
    (/\ "config" \in files /\ "legacy" \notin files
     /\ supported /\ ~rolled /\ crashes = 0)
    => \A c \in Commands : ~Where(c, "failed")

(***************************************************************************)
(* Why it holds: until a migration is rolled back, config.jsonc stays once *)
(* it is there, and a command that no other writes beside finds what it    *)
(* found when it began.                                                    *)
(***************************************************************************)
Running(c) == run[c].at \notin Over \union {"idle"}
HadLegacy == {"legacy", "backup"} \cap files # {}

\* Where there was a legacy file, a command comes to its edit by way of the migrated one.
LegacyIsCarried ==
    ~rolled /\ HadLegacy =>
        /\ "config" \in files => "legacy" \in text
        /\ "legacy" \notin files => "config" \in files
        /\ \A c \in Commands :
              run[c].at \in {"rename", "rollback", "check", "read", "edit", "write"} => "config" \in files
        /\ \A c \in Commands : Where(c, "write") => "legacy" \in run[c].held

\* What a command found is there until another writes, and the last edit with it.
FoundIsThere ==
    /\ "config" \notin files => text = {}
    /\ ~rolled =>
          \A c \in Commands : Running(c) /\ ~run[c].shared =>
              run[c].found.text \subseteq text /\ (Where(c, "write") => run[c].found.text \subseteq run[c].held)
    /\ ~rolled /\ last # NoOne =>
          /\ "config" \in files /\ ~Where(last, "idle")
          /\ ~run[last].shared => {last} \union run[last].found.text \subseteq text

\* The password that was there is not replaced before another command writes one.
PasswordIsThere ==
    \A c \in Commands :
        /\ run[c].pass = 1 => run[c].password = NoOne
        /\ ~run[c].shared /\ run[c].found.auth \in Commands =>
              /\ Running(c) => auth \in {run[c].found.auth, "torn"}
              /\ run[c].pass = 2 /\ run[c].kind # "set" => run[c].password = run[c].found.auth

ConfigInv == TypeOK /\ LegacyIsCarried /\ FoundIsThere /\ PasswordIsThere
===============================================================================
