--------------------------- MODULE DaemonLifecycle ---------------------------
(***************************************************************************)
(* Which process is the agent daemon of a state directory, and how clients *)
(* find, start and replace it: local-agent-daemon-lifecycle.ts,            *)
(* local-agent-daemon.ts, local-agent-daemon-main.ts and the readiness     *)
(* part of local-agent-client.ts.                                          *)
(*                                                                         *)
(* Daemons and clients are processes of their own, so the file-system      *)
(* calls of two starting daemons interleave one by one.  A client asks     *)
(* once; the request it sends in the end is an agent.start or continue,    *)
(* which the daemon serves by beginning a turn.                            *)
(***************************************************************************)
EXTENDS Naturals

CONSTANTS
    Daemons,       \* processes that may run local-agent-daemon-main
    Clients,
    Revisions,     \* provider configuration revisions
    RevisionOf,    \* the revision each client was configured with
    Faults,        \* what else may happen, out of Events
    None

Events == {"died",          \* a daemon died before, and left its files
            "death",         \* a daemon dies: killed, or past its forced-exit timer
           "failedStart",   \* a daemon fails to start after it took the lock
           "stop",          \* somebody runs `agents daemon stop'
           "idle",          \* a daemon has been idle for long enough
           "timeout"}       \* a client gives up waiting for its answer

\* An instance in which all clients have the same configuration.
OneConfiguration == [c \in Clients |-> CHOOSE r \in Revisions : TRUE]

ASSUME RevisionsAssumption == RevisionOf \in [Clients -> Revisions]
ASSUME FaultsAssumption == Faults \subseteq Events
ASSUME NoneAssumption == None \notin Daemons

VARIABLES
    lock,       \* the process named by agentd.lock
    endpoint,   \* the process that bound the socket path
    at,         \* where each daemon process stands
    again,      \* daemons in their second attempt at the lock
    revision,   \* configuration revision of each daemon
    requests,   \* turn requests each daemon is serving (activeTurnRequests)
    turns,      \* turns each daemon is running (manager.activeTurnCount)
    replaced,   \* history: <<daemon, client>>, the client had the daemon stop
    client      \* where each client stands, and what it has learnt

files == <<lock, endpoint>>
work == <<requests, turns>>
daemon == <<at, again, revision>>
vars == <<files, daemon, work, replaced, client>>

Starting == {"publish", "occupied", "stale", "owner", "reconciled"}
Ending == {"stopping", "closing", "closed", "failed"}
Gone == {"unborn", "gone", "dead"}
Owning == {"owner", "reconciled", "ready", "stopping", "closing", "closed"}
ClientPlaces == {"idle", "hello", "spawn", "stop", "await", "send", "sent",
                 "served", "busy", "late", "failed"}

TypeOK ==
    /\ lock \in Daemons \union {None}
    /\ endpoint \in Daemons \union {None}
    /\ at \in [Daemons -> Starting \union Ending \union Gone \union {"ready"}]
    /\ again \subseteq Daemons
    /\ revision \in [Daemons -> Revisions]
    /\ requests \in [Daemons -> SUBSET Clients]
    /\ turns \in [Daemons -> SUBSET Clients]
    /\ replaced \subseteq Daemons \X Clients
    /\ client \in [Clients -> [at: ClientPlaces, spawned: BOOLEAN, daemon: Daemons \union {None}]]

\* Nobody has asked yet; there is no daemon, or one that serves, or the files
\* of one that died.
Earlier == {"ready"} \union (IF "died" \in Faults THEN {"dead"} ELSE {})

Init ==
    /\ revision \in [Daemons -> Revisions]
    /\ again = {} /\ replaced = {}
    /\ requests = [p \in Daemons |-> {}]
    /\ turns = [p \in Daemons |-> {}]
    /\ client = [c \in Clients |-> [at |-> "idle", spawned |-> FALSE, daemon |-> None]]
    /\ lock \in Daemons \union {None} /\ endpoint = lock
    /\ \E was \in Earlier : at = [p \in Daemons |-> IF p = lock THEN was ELSE "unborn"]

Alive(p) == p # None /\ at[p] \notin Gone

\* Who answers a connection to the endpoint: a daemon stops listening when it
\* closes, and a socket whose daemon died refuses.
Answers(p) == endpoint = p /\ p # None /\ at[p] \in {"ready", "stopping"}
Unavailable == \A p \in Daemons : ~Answers(p)

Goes(p, where) == at' = [at EXCEPT ![p] = where]
Moves(c, where) == client' = [client EXCEPT ![c].at = where]
\* Clients whose connection to p is cut see their request fail.
CutOff(p) == client' = [c \in Clients |->
    IF client[c].at = "sent" /\ client[c].daemon = p
      THEN [client[c] EXCEPT !.at = "failed"] ELSE client[c]]

-------------------------------------------------------------------------------
(***************************************************************************)
(* LocalAgentDaemonLock.acquire(): the lock is published by linking a file *)
(* that already names its owner.                                           *)
(***************************************************************************)
Publish(p) ==
    /\ at[p] = "publish" /\ lock = None
    /\ lock' = p
    /\ Goes(p, "owner")
    /\ UNCHANGED <<endpoint, again, revision, work, replaced, client>>

Occupied(p) ==
    /\ at[p] = "publish" /\ lock # None
    /\ Goes(p, "occupied")
    /\ UNCHANGED <<files, again, revision, work, replaced, client>>

RemovesAnyway(p) ==  \* mutant: a start that never had the lock removes files
    /\ at[p] = "occupied"
    /\ lock = None \/ Alive(lock)
    /\ endpoint' = None
    /\ Goes(p, "gone")
    /\ UNCHANGED <<lock, again, revision, work, replaced, client>>

\* The lock names a live process, or cannot be read any more.
AlreadyRunning(p) ==
    /\ at[p] = "occupied"
    /\ lock = None \/ Alive(lock)
    /\ Goes(p, "gone")
    /\ UNCHANGED <<files, again, revision, work, replaced, client>>

FindsStale(p) ==
    /\ at[p] = "occupied"
    /\ lock # None /\ ~Alive(lock)
    /\ Goes(p, "stale")
    /\ UNCHANGED <<files, again, revision, work, replaced, client>>

\* removeStaleLock() moves away whatever is at the path by now.
RemoveStale(p) ==
    /\ at[p] = "stale"
    /\ lock' = None
    /\ again' = again \union {p}
    /\ Goes(p, IF p \in again THEN "gone" ELSE "publish")
    /\ UNCHANGED <<endpoint, revision, work, replaced, client>>

(***************************************************************************)
(* LocalAgentDaemon.start(): the owner of the lock marks every unfinished  *)
(* turn in the store as lost, clears the socket path and listens.          *)
(***************************************************************************)
Reconcile(p) ==
    /\ at[p] = "owner"
    /\ Goes(p, "reconciled")
    /\ UNCHANGED <<files, again, revision, work, replaced, client>>

Listen(p) ==
    /\ at[p] = "reconciled"
    /\ endpoint' = p
    /\ Goes(p, "ready")
    /\ UNCHANGED <<lock, again, revision, work, replaced, client>>

\* The secret, the store or the endpoint fails: the lock is released, and
\* only then are the files removed.
StartFails(p) ==
    /\ "failedStart" \in Faults
    /\ at[p] \in {"owner", "reconciled"}
    /\ lock' = IF lock = p THEN None ELSE lock
    /\ Goes(p, "failed")
    /\ UNCHANGED <<endpoint, again, revision, work, replaced, client>>

CleansUp(p) ==
    /\ at[p] = "failed"
    /\ endpoint' = None
    /\ Goes(p, "gone")
    /\ UNCHANGED <<lock, again, revision, work, replaced, client>>

(***************************************************************************)
(* close(), by daemon.stop, the idle timer or a signal.                    *)
(***************************************************************************)
Stop(p) ==
    /\ "stop" \in Faults
    /\ at[p] = "ready"
    /\ Goes(p, "stopping")
    /\ UNCHANGED <<files, again, revision, work, replaced, client>>

\* The listening socket goes, connections are destroyed, the manager closes.
Closes(p) ==
    /\ Goes(p, "closing")
    /\ endpoint' = None
    /\ CutOff(p)
    /\ UNCHANGED <<lock, again, revision, work, replaced>>

Close(p) == at[p] = "stopping" /\ Closes(p)

\* maintainIdle(): no turn and no connection, for a while
IdleShutdown(p) ==
    /\ "idle" \in Faults
    /\ at[p] = "ready"
    /\ turns[p] = {}
    /\ \A c \in Clients : client[c].at = "sent" => client[c].daemon # p
    /\ Closes(p)

ReleaseFirst(p) ==  \* mutant: the lock goes before the turns are closed
    /\ at[p] = "closing"
    /\ lock' = IF lock = p THEN None ELSE lock
    /\ endpoint' = None
    /\ Goes(p, "closed")
    /\ UNCHANGED <<again, revision, work, replaced, client>>

\* The manager has closed, or its time is up.
RemoveFiles(p) ==
    /\ at[p] = "closing"
    /\ endpoint' = None
    /\ Goes(p, "closed")
    /\ UNCHANGED <<lock, again, revision, work, replaced, client>>

Ends(p, how) ==
    /\ Goes(p, how)
    /\ requests' = [requests EXCEPT ![p] = {}]
    /\ turns' = [turns EXCEPT ![p] = {}]
    /\ UNCHANGED <<again, revision, replaced>>

\* lock.release(), and the process exits in the same callback.
Release(p) ==
    /\ at[p] = "closed"
    /\ lock' = IF lock = p THEN None ELSE lock
    /\ Ends(p, "gone")
    /\ UNCHANGED <<endpoint, client>>

Die(p) ==
    /\ "death" \in Faults
    /\ Alive(p)
    /\ Ends(p, "dead")
    /\ CutOff(p)
    /\ UNCHANGED files

-------------------------------------------------------------------------------
(***************************************************************************)
(* Turn requests at the daemon.                                            *)
(***************************************************************************)
AnswersClient(p, c, how) ==
    client' = IF client[c].at = "sent" /\ client[c].daemon = p
                THEN [client EXCEPT ![c].at = how] ELSE client

BeginsTurn(p, c) ==
    /\ at[p] \in {"ready", "stopping"}
    /\ c \in requests[p]
    /\ requests' = [requests EXCEPT ![p] = @ \ {c}]
    /\ turns' = [turns EXCEPT ![p] = @ \union {c}]
    /\ AnswersClient(p, c, "served")
    /\ UNCHANGED <<files, daemon, replaced>>

RequestFails(p, c) ==
    /\ Alive(p)
    /\ c \in requests[p]
    /\ requests' = [requests EXCEPT ![p] = @ \ {c}]
    /\ AnswersClient(p, c, "failed")
    /\ UNCHANGED <<files, daemon, turns, replaced>>

TurnEnds(p, c) ==
    /\ Alive(p)
    /\ c \in turns[p]
    /\ turns' = [turns EXCEPT ![p] = @ \ {c}]
    /\ UNCHANGED <<files, daemon, requests, replaced, client>>

-------------------------------------------------------------------------------
(***************************************************************************)
(* LocalAgentClient.ensureReady(): hello; if nobody answers, one daemon is *)
(* spawned, and hello is repeated until it is answered or time is up.      *)
(***************************************************************************)
Ask(c) ==
    /\ client[c].at = "idle"
    /\ Moves(c, "hello")
    /\ UNCHANGED <<files, daemon, work, replaced>>

Matches(c, p) == revision[p] = RevisionOf[c]

HelloReady(c, p) ==
    /\ client[c].at = "hello"
    /\ Answers(p) /\ at[p] = "ready" /\ Matches(c, p)
    /\ Moves(c, "send")
    /\ UNCHANGED <<files, daemon, work, replaced>>

\* Nobody answers, or a daemon of the right revision that is stopping.
HelloUnavailable(c) ==
    /\ client[c].at = "hello" /\ ~client[c].spawned
    /\ \A p \in Daemons : Answers(p) => at[p] = "stopping" /\ Matches(c, p)
    /\ Moves(c, "spawn")
    /\ UNCHANGED <<files, daemon, work, replaced>>

\* A client that has spawned goes on asking; the others give up.
GivesUp(c, how) ==
    Moves(c, IF client[c].spawned THEN "hello" ELSE how)

HelloBusy(c, p) ==
    /\ client[c].at = "hello" /\ ~client[c].spawned
    /\ Answers(p) /\ ~Matches(c, p) /\ turns[p] # {}
    /\ Moves(c, "busy")
    /\ UNCHANGED <<files, daemon, work, replaced>>

HelloChanged(c, p) ==
    /\ client[c].at = "hello"
    /\ Answers(p) /\ ~Matches(c, p) /\ turns[p] = {}
    /\ client' = [client EXCEPT ![c].at = "stop", ![c].daemon = p]
    /\ UNCHANGED <<files, daemon, work, replaced>>

\* daemon.stop with ifIdle, sent to whoever answers by now
StopsWhileAsked(p) == turns[p] = {}  \* mutant: requests being served do not count
IdleEnough(p) == requests[p] = {} /\ turns[p] = {}

StopAccepted(c, p) ==
    /\ client[c].at = "stop"
    /\ Answers(p) /\ at[p] = "ready" /\ IdleEnough(p)
    /\ Goes(p, "stopping")
    /\ replaced' = replaced \union {<<p, c>>}
    /\ Moves(c, "await")
    /\ UNCHANGED <<files, again, revision, work>>

StopRefused(c) ==
    /\ client[c].at = "stop"
    /\ \A p \in Daemons : Answers(p) => at[p] # "ready" \/ ~IdleEnough(p)
    /\ GivesUp(c, "busy")
    /\ UNCHANGED <<files, daemon, work, replaced>>

\* The endpoint is gone, and with it the lock or the daemon that was asked.
UnavailableIsEnough(c) == Unavailable  \* mutant: the lock may still be held
Stopped(c) == Unavailable /\ (lock = None \/ ~Alive(client[c].daemon))

StopSeen(c) ==
    /\ client[c].at = "await"
    /\ Stopped(c)
    /\ GivesUp(c, "spawn")
    /\ UNCHANGED <<files, daemon, work, replaced>>

\* Another client has replaced the daemon already.
ReplacementSeen(c, p) ==
    /\ client[c].at = "await"
    /\ Answers(p) /\ at[p] = "ready" /\ Matches(c, p)
    /\ Moves(c, "send")
    /\ UNCHANGED <<files, daemon, work, replaced>>

SpawnUnconfigured(c, p) ==  \* mutant: the daemon is not given the configuration
    /\ client[c].at = "spawn"
    /\ at[p] = "unborn"
    /\ Goes(p, "publish")
    /\ revision' = [revision EXCEPT ![p] = None]
    /\ client' = [client EXCEPT ![c].at = "hello", ![c].spawned = TRUE]
    /\ UNCHANGED <<files, again, work, replaced>>

Spawn(c, p) ==
    /\ client[c].at = "spawn"
    /\ at[p] = "unborn"
    /\ Goes(p, "publish")
    /\ revision' = [revision EXCEPT ![p] = RevisionOf[c]]
    /\ client' = [client EXCEPT ![c].at = "hello", ![c].spawned = TRUE]
    /\ UNCHANGED <<files, again, work, replaced>>

\* The deadline of a client that waits, for a daemon to start or for one to go:
\* 8 s, which the closing of a daemon (up to 10 s) or a slow start may outlast.
OutOfTime(c) ==
    /\ client[c].at = "await" \/ (client[c].at = "hello" /\ client[c].spawned)
    /\ Moves(c, "late")
    /\ UNCHANGED <<files, daemon, work, replaced>>

\* The request itself, to whoever answers by now.
Send(c, p) ==
    /\ client[c].at = "send"
    /\ Answers(p) /\ at[p] = "ready"
    /\ requests' = [requests EXCEPT ![p] = @ \union {c}]
    /\ client' = [client EXCEPT ![c].at = "sent", ![c].daemon = p]
    /\ UNCHANGED <<files, daemon, turns, replaced>>

SendRefused(c) ==
    /\ client[c].at = "send"
    /\ \A p \in Daemons : Answers(p) => at[p] # "ready"
    /\ Moves(c, "failed")
    /\ UNCHANGED <<files, daemon, work, replaced>>

TimesOut(c) ==
    /\ "timeout" \in Faults
    /\ client[c].at = "sent"
    /\ Moves(c, "failed")
    /\ UNCHANGED <<files, daemon, work, replaced>>

-------------------------------------------------------------------------------
DaemonStep(p) ==
    \/ Publish(p) \/ Occupied(p) \/ AlreadyRunning(p) \/ FindsStale(p) \/ RemoveStale(p)
    \/ Reconcile(p) \/ Listen(p) \/ CleansUp(p)
    \/ Close(p) \/ RemoveFiles(p) \/ Release(p)

Intervenes(p) == StartFails(p) \/ Stop(p) \/ IdleShutdown(p) \/ Die(p)

Serves(p, c) == BeginsTurn(p, c) \/ RequestFails(p, c) \/ TurnEnds(p, c)

ClientStep(c) ==
    \/ HelloUnavailable(c) \/ StopRefused(c) \/ StopSeen(c) \/ SendRefused(c)
    \/ \E p \in Daemons :
          \/ HelloReady(c, p) \/ HelloBusy(c, p) \/ HelloChanged(c, p)
          \/ StopAccepted(c, p) \/ ReplacementSeen(c, p) \/ Spawn(c, p) \/ Send(c, p)

Next ==
    \/ \E p \in Daemons : DaemonStep(p) \/ Intervenes(p)
    \/ \E p \in Daemons, c \in Clients : Serves(p, c)
    \/ \E c \in Clients : Ask(c) \/ ClientStep(c) \/ OutOfTime(c) \/ TimesOut(c)

Spec == Init /\ [][Next]_vars

\* Processes run, and requests are answered.  Turns, callers, deadlines and
\* whatever else may happen are left alone.
Fairness ==
    /\ \A p \in Daemons : WF_vars(DaemonStep(p))
    /\ \A p \in Daemons, c \in Clients : WF_vars(BeginsTurn(p, c) \/ RequestFails(p, c))
    /\ \A c \in Clients : WF_vars(ClientStep(c))

FairSpec == Spec /\ Fairness

-------------------------------------------------------------------------------
\* A second client cannot start another daemon for the same state directory
\* (docs/local-agent-daemon.md:46).
OneDaemon == \A p, q \in Daemons : at[p] \in Owning /\ at[q] \in Owning => p = q

\* A starting daemon marks unfinished turns as lost only when no live daemon
\* has a turn, or a request that may become one.
LiveTurnsAreNotLost ==
    [][\A p \in Daemons : at[p] = "owner" /\ at'[p] = "reconciled"
         => \A q \in Daemons : Alive(q) => turns[q] = {} /\ requests[q] = {}]_vars

\* A client never stops a daemon with active work to replace it
\* (docs/local-agent-daemon.md:63): from the answer to daemon.stop until it is
\* gone, a replaced daemon has no turn and no request that could begin one.
ReplacementSparesWork ==
    \A r \in replaced : turns[r[1]] = {} /\ requests[r[1]] = {}

\* The daemon that accepts requests is the one clients reach.
ReadyIsReachable == \A p \in Daemons : at[p] = "ready" => endpoint = p

\* A daemon that may end under client c: somebody stopped it or it was idle, a
\* client that meant to replace another had it stop, or a client other than c
\* replaced it and gave up before it started the next one.
Meant(p, d) == <<p, d>> \in replaced /\ client[d].daemon = p
EndsUnder(c) ==
    \E p \in Daemons :
        \/ at[p] \in Ending /\ ~ \E d \in Clients : Meant(p, d)
        \/ \E d \in Clients \ {c} : Meant(p, d) /\ client[d].at = "late"

Answered == {"sent", "busy", "late"}

\* A client that asks gets a daemon to send its request to, started on demand
\* (docs/local-agent-daemon.md:19, :50), or is told that one with another
\* configuration is at work, unless it runs out of time before that or a daemon
\* ends under it.  No deadline need pass for it: it waits for nobody in vain
\* while it does not replace or start a daemon itself.  And if deadlines do
\* pass, no client waits for ever.
AskGetsDaemon ==
    /\ \A c \in Clients :
          (client[c].at = "hello" /\ ~client[c].spawned) ~> (client[c].at \in Answered \/ EndsUnder(c))
    /\ (\A c \in Clients : WF_vars(OutOfTime(c)))
          => []<>(\A c \in Clients : client[c].at \notin {"hello", "spawn", "stop", "await", "send"})

-------------------------------------------------------------------------------
(***************************************************************************)
(* What the properties rest on (proved in DaemonLifecycle_proofs).  The    *)
(* lock stands for its owner as long as no daemon dies with its files.     *)
(***************************************************************************)
NobodyDies == Faults \cap {"died", "death"} = {}

OwnersHoldLock ==
    /\ lock # None => at[lock] \in Owning
    /\ \A p \in Daemons : /\ at[p] \in Owning => lock = p
                          /\ at[p] \notin {"stale", "dead"}

\* Work is at daemons that have served, and ends with the process.
Serving == {"ready", "stopping", "closing", "closed"}
WorkIsServed == \A p \in Daemons : turns[p] \union requests[p] # {} => at[p] \in Serving

ReplacedAreLeaving ==
    \A r \in replaced : /\ at[r[1]] \in (Ending \ {"failed"}) \union {"gone", "dead"}
                        /\ turns[r[1]] = {} /\ requests[r[1]] = {}

ListensAtEndpoint ==
    \A p \in Daemons : at[p] # "failed" /\ (at[p] \in {"ready", "stopping"} => endpoint = p)

===============================================================================
