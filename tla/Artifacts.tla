--------------------------------- MODULE Artifacts ---------------------------------
(***************************************************************************)
(* download_artifact: artifact-tools.ts, artifact-destination.ts,          *)
(* incoming-artifacts.ts.  A download streams a file from a trusted host   *)
(* into a partial beside its destination, verifies it and links it to the  *)
(* destination's name.  Downloads run concurrently with each other and     *)
(* with other programs in the same directory; a crash, or an unlink that   *)
(* fails, leaves partials, which a later download removes once they are    *)
(* old.                                                                    *)
(*                                                                         *)
(* The destination's parent is opened once and held by its descriptor, so  *)
(* one directory is modelled.  A file is the chunks written to it.         *)
(***************************************************************************)
EXTENDS Naturals, Sequences, FiniteSets

CONSTANTS Downloads, Names,
          Paths,            \* the paths asked for, as sequences of parts
          Hosts, Trusted,
          Unsaid,           \* a size that is not said
          OPENAI_FILE_REDIRECT_LIMIT, MAX_STALE_PARTIAL_CLEANUP,
          MaxChunks,        \* artifactMaxFileBytes, in chunks
          MaxFiles, MaxOthers, MaxCrashes    \* bounds

VARIABLES
    files,      \* every file made: who made it, its chunks
    names,      \* destination names: file, 0 for none
    partials,   \* per download: the file under its partial's name, 0 for none
    left,       \* the downloads whose partial was left behind, and those that are old by now
    dl,         \* the downloads
    read,       \* the hosts that bytes were taken from
    others, crashes    \* bounds: what others did; crashes, and unlinks that failed

vars == <<files, names, partials, left, dl, read, others, crashes>>

NoDownload == [step |-> "none"]

Init ==
    /\ files = <<>> /\ names = [n \in Names |-> 0] /\ partials = [d \in Downloads |-> 0]
    /\ left = [any |-> {}, old |-> {}] /\ dl = [d \in Downloads |-> NoDownload]
    /\ read = {} /\ others = 0 /\ crashes = 0

(***************************************************************************)
(* normalizeArtifactDestination().                                         *)
(***************************************************************************)
Normal(path) == SelectSeq(path, LAMBDA part : part \notin {".", ""})
Acceptable(path) ==
    /\ path # <<>> /\ ".." \notin {path[i] : i \in DOMAIN path}
    /\ path[1] # "" /\ path[Len(path)] # "" /\ Normal(path) # <<>>

Steps(d, step) == dl' = [dl EXCEPT ![d].step = step]

\* unlink() of the partial by its name, whose failure is ignored: it is not
\* tried again.
Unlinks(d) ==
    \/ partials' = [partials EXCEPT ![d] = 0] /\ UNCHANGED <<left, crashes>>
    \/ /\ partials[d] # 0 /\ crashes < MaxCrashes /\ crashes' = crashes + 1
       /\ left' = [left EXCEPT !.any = @ \union {d}] /\ UNCHANGED partials

\* catch and finally: the stream is destroyed, the partial unlinked.
Fails(d) == dl' = [dl EXCEPT ![d] = [step |-> "failed"]] /\ Unlinks(d)
Goes(d, step) == Steps(d, step) /\ UNCHANGED <<partials, left, crashes>>

(***************************************************************************)
(* The reference is resolved to a response of a trusted host.              *)
(***************************************************************************)
Ask(d, path, host) ==
    /\ dl[d].step \in {"none", "failed"} /\ d \notin left.any
    /\ dl' = [dl EXCEPT ![d] = IF Acceptable(path) /\ host \in Trusted
                               THEN [step |-> "fetch", name |-> Normal(path), host |-> host, hops |-> 0]
                               ELSE [step |-> "failed"]]
    /\ UNCHANGED <<files, names, partials, left, read, others, crashes>>

FollowAnywhere(d, host) ==  \* mutant: where a redirect leads is not checked
    /\ dl[d].step = "fetch"
    /\ dl' = [dl EXCEPT ![d] = IF @.hops = OPENAI_FILE_REDIRECT_LIMIT THEN [step |-> "failed"]
                               ELSE [step |-> "fetch", name |-> @.name, host |-> host, hops |-> @.hops + 1]]
    /\ UNCHANGED <<files, names, partials, left, read, others, crashes>>

Redirect(d, host) ==
    /\ dl[d].step = "fetch"
    /\ dl' = [dl EXCEPT ![d] = IF @.hops = OPENAI_FILE_REDIRECT_LIMIT \/ host \notin Trusted THEN [step |-> "failed"]
                               ELSE [step |-> "fetch", name |-> @.name, host |-> host, hops |-> @.hops + 1]]
    /\ UNCHANGED <<files, names, partials, left, read, others, crashes>>

\* `size' is what the response, or else the reference, says; what they say
\* both must agree.  What the body holds is known when it ends.
Respond(d, size, referred) ==
    /\ dl[d].step = "fetch" /\ read' = read \union {dl[d].host}
    /\ LET said == IF size # Unsaid THEN size ELSE referred IN
       dl' = [dl EXCEPT ![d] =
                IF (size # Unsaid /\ referred # Unsaid /\ size # referred) \/ (said # Unsaid /\ said > MaxChunks)
                THEN [step |-> "failed"]
                ELSE [step |-> "prepare", name |-> @.name, said |-> said]]
    /\ UNCHANGED <<files, names, partials, left, others, crashes>>

(***************************************************************************)
(* cleanupStalePartials(), then the partial is created.                    *)
(***************************************************************************)
AllPartials == {p \in Downloads : partials[p] # 0}

\* `seen' is what the bounded inspection of the listing came to; a partial that
\* cannot be looked at or unlinked stays, as if it were not seen.
CleansAll(d, seen) ==  \* mutant: the age of a partial is not looked at
    /\ dl[d].step = "prepare" /\ seen \subseteq AllPartials
    /\ partials' = [p \in Downloads |-> IF p \in seen THEN 0 ELSE partials[p]]
    /\ left' = [any |-> left.any \ seen, old |-> left.old \ seen]
    /\ Steps(d, "create")
    /\ UNCHANGED <<files, names, read, others, crashes>>

Cleanup(d, seen) ==
    /\ dl[d].step = "prepare" /\ seen \subseteq AllPartials
    /\ Cardinality(seen) <= MAX_STALE_PARTIAL_CLEANUP
    /\ partials' = [p \in Downloads |-> IF p \in seen \intersect left.old THEN 0 ELSE partials[p]]
    /\ left' = [any |-> left.any \ (seen \intersect left.old), old |-> left.old \ seen]
    /\ Steps(d, "create")
    /\ UNCHANGED <<files, names, read, others, crashes>>

Create(d) ==
    /\ dl[d].step = "create" /\ Len(files) < MaxFiles
    /\ files' = Append(files, [by |-> d, chunks |-> 0])
    /\ partials' = [partials EXCEPT ![d] = Len(files) + 1]
    /\ dl' = [dl EXCEPT ![d] = [step |-> "stream", name |-> @.name, said |-> @.said, file |-> Len(files) + 1, size |-> 0]]
    /\ UNCHANGED <<names, left, read, others, crashes>>

(***************************************************************************)
(* Chunks are written through the handle; the end of the stream, the size  *)
(* and the entry under the partial's name are verified.                    *)
(***************************************************************************)
Chunk(d) ==
    /\ dl[d].step = "stream"
    /\ IF dl[d].size = MaxChunks THEN Fails(d) /\ UNCHANGED files
       ELSE /\ files' = [files EXCEPT ![dl[d].file].chunks = @ + 1]
            /\ dl' = [dl EXCEPT ![d].size = @ + 1] /\ UNCHANGED <<partials, left, crashes>>
    /\ UNCHANGED <<names, read, others>>

\* Any call of a download may fail.
StreamFails(d) ==
    /\ dl[d].step \notin {"none", "failed", "done"} /\ Fails(d)
    /\ UNCHANGED <<files, names, read, others>>

TakesWhatCame(d) ==  \* mutant: a stream that ends early is taken for the file
    /\ dl[d].step = "stream"
    /\ IF partials[d] = dl[d].file THEN Goes(d, "publish") ELSE Fails(d)
    /\ UNCHANGED <<files, names, read, others>>

StreamEnds(d) ==
    /\ dl[d].step = "stream"
    /\ IF dl[d].said \in {Unsaid, dl[d].size} /\ partials[d] = dl[d].file
       THEN Goes(d, "publish") ELSE Fails(d)
    /\ UNCHANGED <<files, names, read, others>>

Renames(d) ==  \* mutant: the partial is renamed to the destination
    /\ dl[d].step = "publish"
    /\ names' = [names EXCEPT ![dl[d].name[1]] = IF partials[d] # 0 THEN partials[d] ELSE @]
    /\ Goes(d, "check")
    /\ UNCHANGED <<files, read, others>>

\* link(): refused if the name is taken; it takes what the partial's name means by now.
Publish(d) ==
    LET n == dl[d].name[1] IN
    /\ dl[d].step = "publish"
    /\ IF names[n] # 0 \/ partials[d] = 0 THEN Fails(d) /\ UNCHANGED names
       ELSE names' = [names EXCEPT ![n] = partials[d]] /\ Goes(d, "check")
    /\ UNCHANGED <<files, read, others>>

\* What was published is never unlinked, be it the wrong file; its partial is,
\* and the download is done whether or not that succeeds.
Check(d) ==
    /\ dl[d].step = "check"
    /\ IF names[dl[d].name[1]] = dl[d].file
       THEN Steps(d, "done") /\ Unlinks(d)
       ELSE Fails(d)
    /\ UNCHANGED <<files, names, read, others>>

(***************************************************************************)
(* The server crashes; time passes; other programs write and remove.       *)
(***************************************************************************)
Crash ==
    /\ crashes < MaxCrashes /\ crashes' = crashes + 1
    /\ left' = [left EXCEPT !.any = @ \union AllPartials]
    /\ dl' = [d \in Downloads |-> IF dl[d].step = "done" THEN dl[d] ELSE NoDownload]
    /\ UNCHANGED <<files, names, partials, read, others>>

DayPasses ==
    /\ left.old # left.any /\ left' = [left EXCEPT !.old = left.any]
    /\ \A d \in Downloads : dl[d].step \in {"none", "failed", "done"}    \* a download does not last a day
    /\ UNCHANGED <<files, names, partials, dl, read, others, crashes>>

Other == others < MaxOthers /\ others' = others + 1

OthersWrite ==
    /\ Other /\ Len(files) < MaxFiles /\ files' = Append(files, [by |-> "others", chunks |-> 1])
    /\ \/ \E n \in Names : names' = [names EXCEPT ![n] = Len(files) + 1] /\ UNCHANGED partials
       \/ \E d \in AllPartials : partials' = [partials EXCEPT ![d] = Len(files) + 1] /\ UNCHANGED names
    /\ UNCHANGED <<left, dl, read, crashes>>

OthersRemove ==
    /\ Other
    /\ \/ \E n \in Names : names[n] # 0 /\ names' = [names EXCEPT ![n] = 0] /\ UNCHANGED <<partials, left>>
       \/ \E d \in AllPartials :
             /\ partials' = [partials EXCEPT ![d] = 0] /\ UNCHANGED names
             /\ left' = [any |-> left.any \ {d}, old |-> left.old \ {d}]
    /\ UNCHANGED <<files, dl, read, crashes>>

Next ==
    \/ \E d \in Downloads :
         \/ \E path \in Paths, host \in Hosts : Ask(d, path, host)
         \/ \E host \in Hosts : Redirect(d, host)
         \/ \E size, referred \in {Unsaid} \union 0..(MaxChunks + 1) : Respond(d, size, referred)
         \/ \E seen \in SUBSET Downloads : Cleanup(d, seen)
         \/ Create(d) \/ Chunk(d) \/ StreamFails(d) \/ StreamEnds(d) \/ Publish(d) \/ Check(d)
    \/ Crash \/ DayPasses \/ OthersWrite \/ OthersRemove

Spec == Init /\ [][Next]_vars

-------------------------------------------------------------------------------
\* What a download reports is a file it made itself, with as many chunks as
\* were announced, under one name of the directory.
ReportsAreOfWholeFiles ==
    \A d \in Downloads : dl[d].step = "done" =>
        /\ files[dl[d].file].by = d /\ files[dl[d].file].chunks = dl[d].size
        /\ dl[d].said \in {Unsaid, dl[d].size} /\ Len(dl[d].name) = 1

\* A name that means a file means it until another program removes or replaces
\* it: no download takes a name that is taken, or gives one up.
OverwritesNothing == \A n \in Names : names[n] # 0 /\ names'[n] # names[n] => others' # others

\* A partial is of a download that goes on, or was left by a crash or by an
\* unlink that failed, for a later download to remove once it is old.
PartialsAreRemoved == \A d \in AllPartials : dl[d].step \in {"stream", "publish", "check"} \/ d \in left.any

\* A download keeps its partial until it ends, whatever others clean up.
KeepsPartials == \A d \in Downloads :
    partials[d] # 0 /\ partials'[d] = 0 /\ d \notin left.old /\ dl'[d] = dl[d] => others' # others

OnlyTrustedAreRead == read \subseteq Trusted

\* A download is whole when it is reported, and leaves everything else alone.
IsWhole == ReportsAreOfWholeFiles /\ PartialsAreRemoved /\ OnlyTrustedAreRead
SparesOthers == OverwritesNothing /\ KeepsPartials
DownloadsAreWhole == []IsWhole /\ [][SparesOthers]_vars

(***************************************************************************)
(* Why it holds: a download writes to a file it made itself, verifies it   *)
(* before it is published, and unlinks its partial when it is over.        *)
(***************************************************************************)
Sizes == Nat \union {Unsaid}
Lefts == [any : SUBSET Downloads, old : SUBSET Downloads]
Singles == {<<n>> : n \in Names}
Files == [by : Downloads \union {"others"}, chunks : Nat]
Over == [step : {"none", "failed"}]
Fetches == [step : {"fetch"}, name : Singles, host : Hosts, hops : Nat]
Prepares == [step : {"prepare", "create"}, name : Singles, said : Sizes]
Holding == [step : {"stream", "publish", "check", "done"}, name : Singles, said : Sizes,
            file : Nat, size : Nat]

TypeOK ==
    /\ files \in Seq(Files) /\ names \in [Names -> Nat] /\ partials \in [Downloads -> Nat]
    /\ dl \in [Downloads -> Over \union Fetches \union Prepares \union Holding]
    /\ left \in Lefts /\ others \in Nat

Holds(d) == dl[d].step \in {"stream", "publish", "check", "done"}

\* The file a download holds is of its own making, as long as it has written.
FilesAreOwn == \A d \in Downloads : Holds(d) =>
    /\ dl[d].file \in DOMAIN files
    /\ files[dl[d].file].by = d /\ files[dl[d].file].chunks = dl[d].size
    /\ dl[d].step # "stream" => dl[d].said \in {Unsaid, dl[d].size}

OnlyTrustedAreAsked == \A d \in Downloads : dl[d].step = "fetch" => dl[d].host \in Trusted

DownloadInv ==
    TypeOK /\ FilesAreOwn /\ OnlyTrustedAreAsked /\ PartialsAreRemoved /\ OnlyTrustedAreRead
===============================================================================
