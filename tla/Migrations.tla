------------------------------ MODULE Migrations ------------------------------
(***************************************************************************)
(* Opening the state database (db/migrations.ts): the server, the daemon   *)
(* and the command line each migrate it when they open it, and each may be *)
(* of another build.  A schema is the set of tables and columns that tell  *)
(* migrations apart; a row of a legacy agent carries the one value that    *)
(* changes its column.                                                     *)
(***************************************************************************)
EXTENDS Naturals, Sequences, FiniteSets

CONSTANTS
    Openers,    \* processes that open the database
    Latest,     \* Latest[p]: the last migration the build of p knows
    MaxOpens    \* bound: times the database is opened

VARIABLES
    db,         \* [items, names, agents, thinking, effort]: what is committed
    at,         \* where each opener stands
    work,       \* the database as the open transaction has made it
    next,       \* the migration the transaction considers
    opens

vars == <<db, at, work, next, opens>>

Known(p) == 1..Latest[p]

\* What the migrations create when it is not there.
WorkspaceState == {"workspace_sessions", "mode", "source_root", "base_ref", "base_sha", "managed",
                   "loaded_agent_files"}
OAuthState == {"oauth_clients", "oauth_access_tokens", "oauth_refresh_tokens"}
LocalAgentSessions == {"local_agent_sessions", "effort"}
ConversationBindings == {"workspace_conversation_bindings"}
StructuredErrors == {"error_code", "error_retryable"}
ExecutionCoordination == {"execution_claims"}
ContextAffinity == {"access_mode", "thread_key", "context_key", "context_signature", "work_item_id"}
RecoveryState == {"recovery_kind"}
LocalAgentTurns == {"local_agent_turns"}
TurnControl == {"control_state", "provider_turn_id", "control_revision",
                "agent_control_requests", "agent_control_events"}

IfMissing ==
    << WorkspaceState, OAuthState, LocalAgentSessions, ConversationBindings, StructuredErrors, {},
       ExecutionCoordination, {"agent_task_keys"}, {"agent_usage_snapshots"}, ContextAffinity, {},
       {"progress"}, RecoveryState, {"execution_responses"},
       {"recovery_type", "parent_provider_session_id"}, LocalAgentTurns, TurnControl >>

Console == {"console"}  \* all tables of the project console

\* What is created without asking: an error when it is there already.
Outright(v) == CASE v = 10 -> {"execution_waiters", "agent_continue_keys"}
                 [] v = 11 -> Console
                 [] OTHER -> {}

\* Tables a migration adds columns to: an error when they are not there.
Altered(v) == CASE v \in {5, 12, 15, 17} -> {"local_agent_sessions"}
                [] v = 10 -> {"local_agent_sessions", "execution_claims"}
                [] OTHER -> {}

OtherName == 0  \* a name this build has for no migration
Names == 0..Len(IfMissing)

-----------------------------------------------------------------------------
(* Databases there are: none yet, one of a build that called the effort    *)
(* thinking, the interrupted upgrade of such a one, one a later build has  *)
(* migrated, and one of a fork that numbered another migration 13.         *)

Upto(n) == [v \in 1..n |-> v]
Created(vs) == UNION {IfMissing[v] \union Outright(v) : v \in vs}
Whole(n) == [items |-> Created(1..n), names |-> Upto(n),
             agents |-> TRUE, thinking |-> "none", effort |-> "high"]

Empty == [items |-> {}, names |-> <<>>, agents |-> FALSE, thinking |-> "none", effort |-> "none"]
Thinking == [items |-> (Created(1..5) \ {"effort"}) \union {"thinking"},
             names |-> Upto(5), agents |-> TRUE, thinking |-> "high", effort |-> "none"]
Interrupted == [items |-> Created({1, 2, 4}) \union {"local_agent_sessions", "thinking"},
                names |-> [v \in {1, 2, 4} |-> v], agents |-> TRUE,
                thinking |-> "high", effort |-> "none"]
Newer == [Whole(17) EXCEPT !.names = [v \in 1..18 |-> IF v = 18 THEN OtherName ELSE v]]
Forked == [Whole(13) EXCEPT !.names[13] = OtherName]
Old == {Empty, Thinking, Interrupted, Newer, Forked, Whole(12)}

Init ==
    /\ db \in Old
    /\ at = [p \in Openers |-> "closed"]
    /\ work = Empty /\ next = 0 /\ opens = 0

TypeOK ==
    /\ db.names \in [DOMAIN db.names -> Names] /\ DOMAIN db.names \subseteq 1..18
    /\ at \in [Openers -> {"closed", "migrating", "open", "refused"}]
    /\ next \in 0..(Len(IfMissing) + 1)

-----------------------------------------------------------------------------
Goes(p, where) == at' = [at EXCEPT ![p] = where]
Settled == UNCHANGED <<work, next>>

\* begin immediate: one writer at a time.
Takes(p) ==
    /\ at[p] = "closed" /\ opens < MaxOpens
    /\ \A q \in Openers : at[q] # "migrating"
    /\ Goes(p, "migrating")
    /\ opens' = opens + 1
    /\ work' = db /\ next' = 1
    /\ UNCHANGED db

\* busy_timeout passes while another opener migrates.
Busy(p) ==
    /\ at[p] = "closed" /\ opens < MaxOpens
    /\ \E q \in Openers \ {p} : at[q] = "migrating"
    /\ Goes(p, "refused")
    /\ opens' = opens + 1
    /\ Settled /\ UNCHANGED db

AnyHistory(p) == TRUE  \* mutant: only the missing migrations are looked at
Compatible(p) == \A v \in DOMAIN db.names : v \in Known(p) /\ db.names[v] = v

Refuses(p) ==
    /\ at[p] = "migrating" /\ next = 1
    /\ ~Compatible(p)
    /\ Goes(p, "refused")
    /\ work' = Empty /\ next' = 0
    /\ UNCHANGED <<db, opens>>

Applied(d, v) == v \in DOMAIN d.names
Recorded(names, v) == [u \in DOMAIN names \union {v} |-> IF u = v THEN v ELSE names[u]]

RenamesOnly(d) ==  \* mutant: a column that is there already is not filled
    CASE "effort" \in d.items -> d
      [] {"effort", "thinking"} \cap d.items = {} -> [d EXCEPT !.items = @ \union {"effort"}]
      [] OTHER -> [d EXCEPT !.items = (@ \ {"thinking"}) \union {"effort"}, !.effort = d.thinking,
                            !.thinking = "none"]

\* migrateLocalAgentEffortRename
EffortRename(d) ==
    CASE {"effort", "thinking"} \subseteq d.items ->
              [d EXCEPT !.effort = IF @ = "none" THEN d.thinking ELSE @]
      [] "effort" \in d.items /\ "thinking" \notin d.items -> d
      [] {"effort", "thinking"} \cap d.items = {} -> [d EXCEPT !.items = @ \union {"effort"}]
      [] OTHER -> [d EXCEPT !.items = (@ \ {"thinking"}) \union {"effort"}, !.effort = d.thinking,
                            !.thinking = "none"]

\* The recovery column belongs to a table that is not always there.
Creates(d, v) ==
    IF v = 13 /\ "workspace_sessions" \notin d.items THEN {} ELSE IfMissing[v] \union Outright(v)

Result(d, v) ==
    LET made == [d EXCEPT !.items = @ \union Creates(d, v)]
    IN  [(IF v = 6 THEN EffortRename(made) ELSE made) EXCEPT !.names = Recorded(@, v)]

Possible(d, v) == Altered(v) \subseteq d.items /\ Outright(v) \cap d.items = {}

Considers(p, v) ==
    /\ at[p] = "migrating" /\ next = v /\ v \in Known(p)
    /\ next = 1 => Compatible(p)

Skips(p, v) ==
    /\ Considers(p, v) /\ Applied(work, v)
    /\ next' = next + 1
    /\ UNCHANGED <<db, at, work, opens>>

Up(p, v) ==
    /\ Considers(p, v) /\ ~Applied(work, v) /\ Possible(work, v)
    /\ work' = Result(work, v)
    /\ next' = next + 1
    /\ UNCHANGED <<db, at, opens>>

KeepsSome(p) ==  \* mutant: no transaction; what the failing migration had created stays
    db' = [work EXCEPT !.items = @ \union Outright(next)]
RollsBack(p) == UNCHANGED db

\* A migration fails, or its process dies.
Fails(p) ==
    /\ at[p] = "migrating" /\ next > 1
    /\ RollsBack(p)
    /\ Goes(p, "refused")
    /\ work' = Empty /\ next' = 0
    /\ UNCHANGED opens

Commits(p) ==
    /\ at[p] = "migrating" /\ next = Latest[p] + 1
    /\ db' = work
    /\ Goes(p, "open")
    /\ work' = Empty /\ next' = 0
    /\ UNCHANGED opens

Closes(p) ==
    /\ at[p] \in {"open", "refused"}
    /\ Goes(p, "closed")
    /\ Settled /\ UNCHANGED <<db, opens>>

Opening(p) == \/ Takes(p) \/ Busy(p) \/ Refuses(p) \/ Fails(p) \/ Commits(p) \/ Closes(p)
              \/ \E v \in Known(p) : Skips(p, v) \/ Up(p, v)
Next == \E p \in Openers : Opening(p)
Spec == Init /\ [][Next]_vars

-----------------------------------------------------------------------------
\* A process that opened the database finds all its build uses, whatever another build
\* has done since, and a history it knows as its own.
OpenIsUsable ==
    \A p \in Openers : at[p] = "open" =>
        /\ Created(Known(p)) \subseteq db.items
        /\ \A v \in Known(p) : Applied(db, v) /\ db.names[v] = v

\* What a migration makes outright, without looking whether it is there, is committed
\* only with its record: one that fails half-way leaves none of it for the next opener,
\* which could not make it again.
SchemaIsItsHistory ==
    \A v \in 1..Len(IfMissing) : ~Applied(db, v) => Outright(v) \cap db.items = {}

\* The effort an agent was given under the column's old name is its effort.
EffortSurvives == (db.agents /\ Applied(db, 6)) => db.effort = "high"

\* A database of a build this one does not know stays as it was.
OthersAreLeftAlone ==
    (OtherName \in {db.names[v] : v \in DOMAIN db.names}) => db \in {Newer, Forked}

MigrationsAreWhole == OpenIsUsable /\ SchemaIsItsHistory /\ EffortSurvives /\ OthersAreLeftAlone

(***************************************************************************)
(* Why it holds: the writer has the database for itself, applies what its  *)
(* build knows in order, and each migration leaves what those recorded     *)
(* have made.                                                              *)
(***************************************************************************)
IsDatabase(d) == d = [items |-> d.items, names |-> d.names, agents |-> d.agents,
                      thinking |-> d.thinking, effort |-> d.effort]

\* A history of this line of builds, and no more than it says.
Own(d) == \A v \in DOMAIN d.names : v \in 1..Len(IfMissing) /\ d.names[v] = v

\* What a database has of the migrations it records: the column `effort' may still have
\* its old name until the sixth, and the old name has the value until then.
Sound(d) ==
    /\ \A v \in 1..Len(IfMissing) :
          IF Applied(d, v) THEN (IfMissing[v] \union Outright(v)) \ {"effort"} \subseteq d.items
          ELSE Outright(v) \cap d.items = {}
    /\ Applied(d, 6) => "effort" \in d.items /\ (d.agents => d.effort = "high")
    /\ d.agents /\ ~Applied(d, 6) =>
          "thinking" \in d.items /\ d.thinking = "high" /\ d.effort = "none"

OneWriter == \A p, q \in Openers : at[p] = "migrating" /\ at[q] = "migrating" => p = q
Committed == db \in {Newer, Forked} \/ (Own(db) /\ Sound(db))
OpenIsMigrated == \A p \in Openers : at[p] = "open" => Own(db) /\ \A v \in Known(p) : Applied(db, v)

\* How far the writer has come.
Migrating ==
    \A p \in Openers : at[p] = "migrating" =>
        /\ next \in 1..(Latest[p] + 1)
        /\ next = 1 => work = db
        /\ next > 1 =>
              /\ Own(db) /\ Own(work) /\ Sound(work) /\ DOMAIN db.names \subseteq DOMAIN work.names
              /\ \A v \in 1..(next - 1) : Applied(work, v)

SchemaInv ==
    /\ IsDatabase(db) /\ IsDatabase(work) /\ next \in Nat
    /\ at \in [Openers -> {"closed", "migrating", "open", "refused"}]
    /\ OneWriter /\ Committed /\ OpenIsMigrated /\ Migrating
===============================================================================
