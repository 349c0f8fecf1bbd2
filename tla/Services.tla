------------------------------ MODULE Services ------------------------------
(***************************************************************************)
(* What the server and the command line keep on disk: archived threads,    *)
(* tokens, downloaded files, the database's schema and the configuration.  *)
(* They run one at a time: `part' names the one that moves, so that their  *)
(* state spaces add up instead of multiplying.                             *)
(***************************************************************************)
EXTENDS ThreadArchive, Sequences, FiniteSets

CONSTANTS
    Asleep,                                                 \* the state of a part that does not move
    Servers, Clients, HostAllowed, Supported, Resources, Accepts, Unsaid, TokenRequests,
    MaxCodes, MaxPairs, MaxRevoked, MaxTime, CodeTtl, AccessTtl, RefreshTtl,    \* of OAuthTokens
    Downloads, FileNames, Paths, Hosts, Trusted, OPENAI_FILE_REDIRECT_LIMIT,
    MAX_STALE_PARTIAL_CLEANUP, MaxChunks, MaxFiles, MaxOthers,                  \* of Artifacts
    MaxCrashes,                                             \* of Artifacts and ConfigFiles
    Openers, Latest, MaxOpens,                              \* of Migrations
    Commands, Kinds, MaxFaults                              \* of ConfigFiles

VARIABLES
    part,
    up, now, clients, page, approved, codes, pairs, access, refresh, revoked, tokenRequest,
    files, linked, partials, left, dl, sources, others, crashes,
    db, at, work, next, opens,
    configFiles, text, auth, supported, run, last, rolled, faults, configCrashes

K == INSTANCE OAuthTokens WITH request <- tokenRequest, Requests <- TokenRequests
D == INSTANCE Artifacts WITH names <- linked, read <- sources, Names <- FileNames
M == INSTANCE Migrations
C == INSTANCE ConfigFiles WITH files <- configFiles, crashes <- configCrashes

tokens == <<up, now, clients, page, approved, codes, pairs, access, refresh, revoked,
            tokenRequest>>
artifacts == <<files, linked, partials, left, dl, sources, others, crashes>>
schema == <<db, at, work, next, opens>>
configuration == <<configFiles, text, auth, supported, run, last, rolled, faults,
                   configCrashes>>

\* A part that does not move has no state.
TokensIdle ==
    /\ up = Asleep /\ now = Asleep /\ clients = Asleep /\ page = Asleep /\ approved = Asleep
    /\ codes = Asleep /\ pairs = Asleep /\ access = Asleep /\ refresh = Asleep
    /\ revoked = Asleep /\ tokenRequest = Asleep
ArtifactsIdle ==
    /\ files = Asleep /\ linked = Asleep /\ partials = Asleep /\ left = Asleep /\ dl = Asleep
    /\ sources = Asleep /\ others = Asleep /\ crashes = Asleep
SchemaIdle ==
    /\ db = Asleep /\ at = Asleep /\ work = Asleep /\ next = Asleep /\ opens = Asleep
ConfigurationIdle ==
    /\ configFiles = Asleep /\ text = Asleep /\ auth = Asleep /\ supported = Asleep
    /\ run = Asleep /\ last = Asleep /\ rolled = Asleep /\ faults = Asleep
    /\ configCrashes = Asleep

ServicesInit ==
    /\ part \in {"archive", "tokens", "artifacts", "schema", "config"}
    /\ Init
    /\ IF part = "tokens" THEN K!Init ELSE TokensIdle
    /\ IF part = "artifacts" THEN D!Init ELSE ArtifactsIdle
    /\ IF part = "schema" THEN M!Init ELSE SchemaIdle
    /\ IF part = "config" THEN C!Init ELSE ConfigurationIdle

ServicesNext ==
    \/ part = "archive" /\ Next /\ UNCHANGED <<part, tokens, artifacts, schema, configuration>>
    \/ part = "tokens" /\ K!Next /\ UNCHANGED <<part, vars, artifacts, schema, configuration>>
    \/ part = "artifacts" /\ D!Next /\ UNCHANGED <<part, vars, tokens, schema, configuration>>
    \/ part = "schema" /\ M!Next /\ UNCHANGED <<part, vars, tokens, artifacts, configuration>>
    \/ part = "config" /\ C!Next /\ UNCHANGED <<part, vars, tokens, artifacts, schema>>

servicesVars == <<part, vars, tokens, artifacts, schema, configuration>>
ServicesSpec == ServicesInit /\ [][ServicesNext]_servicesVars

\* Every pair of tokens comes from a grant that was approved, and none is used twice.
TokensAreGranted == part = "tokens" => K!TokensAreGranted
\* What a download reports is the whole file, and it spares the files of others.
DownloadsAreWhole ==
    /\ [](part = "artifacts" => D!IsWhole)
    /\ [][part = "artifacts" => D!SparesOthers]_artifacts
\* The schema that is committed is one of whole migrations.
MigrationsAreWhole == part = "schema" => M!MigrationsAreWhole
\* No command loses what was configured.
ConfigIsKept == part = "config" => C!ConfigIsKept
===============================================================================
