------------------------------ MODULE DaemonWire ------------------------------
(***************************************************************************)
(* One request, one connection: local-agent-client.ts writes a line to the *)
(* daemon's socket, local-agent-daemon.ts answers with a line, and both    *)
(* ends can lose the other in between.  The manager behind it (AgentTurns) *)
(* is reduced to what an answer tells of it: the keys taken and the turns  *)
(* of each agent, rows that outlive the daemon.  The handshake that comes  *)
(* before a request is in DaemonLifecycle.                                 *)
(***************************************************************************)
EXTENDS Naturals, Sequences, FiniteSets

CONSTANTS
    MaxCalls,   \* bound: requests made; a retry is another call with the same key
    Keys,       \* task keys and request keys
    AgentOf,    \* the agent a key begins a turn of
    Flaws,      \* what may be wrong with a request, among AllFlaws
    MaxExits,   \* bound: times the daemon ends or dies
    Unsaid

AllFlaws == {"none", "size", "text", "method", "params", "protocol", "token"}
Methods == {"begin", "wait", "stop", "replace"}
Agents == {AgentOf[k] : k \in Keys}
Calls == 1..MaxCalls
First == CHOOSE k \in Keys : TRUE

VARIABLES
    call,       \* the client: what each call asks, and where it stands
    answer,     \* what its caller was told
    down,       \* the answer on its way
    linked,     \* connections neither side has closed
    conn,       \* the daemon's handler of the connection
    captured,   \* for each call, the turn of each agent its wait is about
    daemon,     \* up, stopping, closing, closed
    keys,       \* rows: agent_task_keys and agent_continue_keys
    turns,      \* rows: each agent's turns, oldest first
    exits,      \* how often the daemon's process has ended
    did         \* history: calls that began a turn or stopped the daemon

wire == <<down, linked>>
rows == <<keys, turns, did>>
vars == <<call, answer, wire, conn, captured, daemon, exits, rows>>

Idle == [at |-> "idle", method |-> Unsaid, key |-> Unsaid, flaw |-> Unsaid, timed |-> FALSE]
Nothing == [a \in Agents |-> 0]

TypeOK ==
    /\ call \in [Calls -> {Idle} \union [at: {"open", "settled"}, method: Methods, key: Keys,
                                         flaw: AllFlaws, timed: BOOLEAN]]
    /\ DOMAIN answer = Calls /\ DOMAIN down = Calls
    /\ linked \subseteq Calls /\ did \subseteq Calls
    /\ conn \in [Calls -> {"none", "reading", "starting", "waiting", "answered", "gone"}]
    /\ captured \in [Calls -> [Agents -> Nat]]
    /\ daemon \in {"up", "stopping", "closing", "closed"}
    /\ keys \subseteq Keys
    /\ turns \in [Agents -> Seq([key: Keys, status: {"running", "completed", "failed"}])]

Init ==
    /\ call = [c \in Calls |-> Idle] /\ answer = [c \in Calls |-> Unsaid]
    /\ down = [c \in Calls |-> Unsaid] /\ linked = {}
    /\ conn = [c \in Calls |-> "none"] /\ captured = [c \in Calls |-> Nothing]
    /\ daemon = "up" /\ exits = 0 /\ did = {}
    /\ \E earlier \in SUBSET {First} :  \* a turn begun before these calls may be running
          /\ keys = earlier
          /\ turns = [a \in Agents |-> IF First \in earlier /\ a = AgentOf[First]
                          THEN <<[key |-> First, status |-> "running"]>> ELSE <<>>]

Accepting == daemon = "up"
Status(a, n) == turns[a][n].status
Running(a) == turns[a] # <<>> /\ Status(a, Len(turns[a])) = "running"
\* Requests that hold activeTurnRequests, or turns that hold activeTurns.
Busy == \/ \E c \in Calls : conn[c] = "starting"
        \/ \E a \in Agents : Running(a)

-----------------------------------------------------------------------------
(* The daemon's end of a connection. *)

Line(id, kind, value) == [id |-> id, kind |-> kind, value |-> value]
Refusal(id, error) == Line(id, error, Unsaid)

\* The answer is written and the socket is ended; nothing arrives at a client that left.
Replies(c, line) ==
    /\ conn' = [conn EXCEPT ![c] = "answered"]
    /\ down' = IF c \in linked THEN [down EXCEPT ![c] = line] ELSE down

\* What was written before the client left may be read all the same.
Unread(c) == conn[c] = "reading" /\ daemon # "closed"

Drops(c) ==
    /\ Unread(c) /\ c \notin linked
    /\ conn' = [conn EXCEPT ![c] = "gone"]
    /\ UNCHANGED <<call, answer, wire, captured, daemon, exits, rows>>

TooLarge(c) ==
    /\ Unread(c) /\ call[c].flaw = "size"
    /\ Replies(c, Refusal(Unsaid, "size"))
    /\ UNCHANGED <<call, answer, linked, captured, daemon, exits, rows>>

\* The error is written and the socket destroyed at once: it may not arrive.
ReadTimesOut(c) ==
    /\ Unread(c)
    /\ c \in linked
    /\ \/ Replies(c, Refusal(Unsaid, "late"))
       \/ conn' = [conn EXCEPT ![c] = "answered"] /\ UNCHANGED down
    /\ linked' = linked \ {c}
    /\ UNCHANGED <<call, answer, captured, daemon, exits, rows>>

HasLine(c) == Unread(c) /\ call[c].flaw # "size"
Sound(c) == call[c].flaw = "none"

\* An id is read before the rest of the request is decoded.
ReadRequestId(c) == IF call[c].flaw = "text" THEN Unsaid ELSE c

Undecodable(c) ==
    /\ HasLine(c)
    /\ ~Sound(c)
    /\ Replies(c, Refusal(ReadRequestId(c), call[c].flaw))
    /\ UNCHANGED <<call, answer, linked, captured, daemon, exits, rows>>

Stopping(c) ==
    /\ HasLine(c)
    /\ Sound(c) /\ ~Accepting
    /\ Replies(c, Refusal(c, "stopping"))
    /\ UNCHANGED <<call, answer, linked, captured, daemon, exits, rows>>

Dispatches(c, method) ==
    /\ HasLine(c)
    /\ Sound(c) /\ Accepting
    /\ call[c].method = method

BeginAsked(c) ==
    /\ Dispatches(c, "begin")
    /\ conn' = [conn EXCEPT ![c] = "starting"]
    /\ UNCHANGED <<call, answer, down, linked, captured, daemon, exits, rows>>

\* The profiles have been read; whether the caller is still there is not asked.
Starts(c) == conn[c] = "starting" /\ daemon # "closed"
KeyOf(c) == call[c].key
Started == <<call, answer, linked, captured, daemon, exits>>

Replays(c) ==
    /\ Starts(c) /\ KeyOf(c) \in keys
    /\ Replies(c, Line(c, "ok", KeyOf(c)))
    /\ UNCHANGED <<Started, rows>>

Unreserved(c) == KeyOf(c) \notin keys

Conflicts(c) ==
    /\ Starts(c) /\ Unreserved(c) /\ Running(AgentOf[KeyOf(c)])
    /\ Replies(c, Refusal(c, "conflict"))
    /\ UNCHANGED <<Started, rows>>

Begins(c) ==
    LET a == AgentOf[KeyOf(c)] IN
    /\ Starts(c) /\ Unreserved(c) /\ ~Running(a)
    /\ keys' = keys \union {KeyOf(c)}
    /\ turns' = [turns EXCEPT ![a] = Append(@, [key |-> KeyOf(c), status |-> "running"])]
    /\ did' = did \union {c}
    /\ Replies(c, Line(c, "ok", KeyOf(c)))
    /\ UNCHANGED Started

\* Admission or the ledger refuses; the key stays taken and names the stopped record.
BeginRefused(c) ==
    /\ Starts(c) /\ Unreserved(c) /\ ~Running(AgentOf[KeyOf(c)])
    /\ keys' = keys \union {KeyOf(c)}
    /\ Replies(c, Refusal(c, "conflict"))
    /\ UNCHANGED <<Started, turns, did>>

Latest == [a \in Agents |-> Len(turns[a])]
Known == {a \in Agents : turns[a] # <<>>}
Results(seen) == [a \in {b \in Agents : seen[b] > 0} |-> Status(a, seen[a])]
LatestResults(seen) == Results(Latest) \* mutant: the agents' turns are read when the wait is over

WaitAsked(c) ==
    /\ Dispatches(c, "wait")
    /\ captured' = [captured EXCEPT ![c] = Latest]
    /\ \/ /\ Known = {}
          /\ Replies(c, Refusal(c, "target"))
       \/ /\ \E a \in Known : Running(a)
          /\ conn' = [conn EXCEPT ![c] = "waiting"] /\ UNCHANGED down
       \/ /\ Known # {} /\ \A a \in Known : ~Running(a)
          /\ Replies(c, Line(c, "ok", Results(Latest)))
    /\ UNCHANGED <<call, answer, linked, daemon, exits, rows>>

Waits(c) == conn[c] = "waiting" /\ daemon # "closed"
WaitResult(seen) == Results(seen)
Over(c) == \A a \in Agents : captured[c][a] > 0 => Status(a, captured[c][a]) # "running"

WaitAnswers(c) ==
    /\ Waits(c) /\ c \in linked
    /\ Over(c) \/ call[c].timed
    /\ Replies(c, Line(c, "ok", WaitResult(captured[c])))
    /\ UNCHANGED <<call, answer, linked, captured, daemon, exits, rows>>

WaitAborted(c) ==
    /\ Waits(c) /\ c \notin linked
    /\ conn' = [conn EXCEPT ![c] = "gone"]
    /\ UNCHANGED <<call, answer, wire, captured, daemon, exits, rows>>

StopAsked(c) ==
    /\ Dispatches(c, "stop")
    /\ daemon' = "stopping" /\ did' = did \union {c}
    /\ Replies(c, Line(c, "ok", Unsaid))
    /\ UNCHANGED <<call, answer, linked, captured, exits, keys, turns>>

ReplaceAsked(c) ==
    /\ Dispatches(c, "replace") /\ ~Busy
    /\ daemon' = "stopping" /\ did' = did \union {c}
    /\ Replies(c, Line(c, "ok", Unsaid))
    /\ UNCHANGED <<call, answer, linked, captured, exits, keys, turns>>

ReplaceRefused(c) ==
    /\ Dispatches(c, "replace") /\ Busy
    /\ Replies(c, Refusal(c, "busy"))
    /\ UNCHANGED <<call, answer, linked, captured, daemon, exits, rows>>

TurnEnds(a) ==
    /\ daemon # "closed" /\ Running(a)
    /\ \E status \in {"failed"} \union (IF daemon = "closing" THEN {} ELSE {"completed"}) :
          turns' = [turns EXCEPT ![a][Len(turns[a])].status = status]
    /\ UNCHANGED <<call, answer, wire, conn, captured, daemon, exits, keys, did>>

\* Every socket is destroyed; answers already written may still arrive.
CutOff(after) ==
    /\ daemon' = after
    /\ linked' = {}
    /\ \/ UNCHANGED down
       \/ down' = [c \in Calls |-> Unsaid]

Close ==
    /\ daemon = "stopping"
    /\ CutOff("closing")
    /\ conn' = [c \in Calls |-> IF conn[c] = "reading" THEN "gone" ELSE conn[c]]
    /\ UNCHANGED <<call, answer, captured, exits, rows>>

\* The process ends, after its turns or, when it dies, at any time.
Exit(whole) ==
    /\ daemon # "closed" /\ exits < MaxExits
    /\ exits' = exits + 1
    /\ whole => daemon = "closing" /\ \A a \in Agents : ~Running(a)
    /\ CutOff("closed")
    /\ conn' = [c \in Calls |-> IF conn[c] = "none" THEN "none" ELSE "gone"]
    /\ UNCHANGED <<call, answer, captured, rows>>

Restart ==
    /\ daemon = "closed"
    /\ daemon' = "up"
    /\ turns' = [a \in Agents |-> IF Running(a)
                                  THEN [turns[a] EXCEPT ![Len(turns[a])].status = "failed"]
                                  ELSE turns[a]]
    /\ UNCHANGED <<call, answer, wire, conn, captured, exits, keys, did>>

-----------------------------------------------------------------------------
(* The client's end. *)

Settles(c, kind, value) ==
    /\ call' = [call EXCEPT ![c].at = "settled"]
    /\ answer' = [answer EXCEPT ![c] = [kind |-> kind, value |-> value]]

Asks(c, method, key, flaw, timed) ==
    [at |-> "open", method |-> method, key |-> key, flaw |-> flaw, timed |-> timed]

Open(c) ==
    /\ call[c].at = "idle" /\ daemon \in {"up", "stopping"}
    /\ \A b \in 1..(c - 1) : call[b].at # "idle"  \* calls are numbered as they are made
    /\ \E method \in Methods, key \in Keys, flaw \in Flaws, timed \in BOOLEAN :
          /\ method # "wait" => timed
          /\ method # "begin" => key = First
          /\ flaw # "none" => method = "begin" /\ key = First
          /\ call' = [call EXCEPT ![c] = Asks(c, method, key, flaw, timed)]
    /\ linked' = linked \union {c}
    /\ conn' = [conn EXCEPT ![c] = "reading"]
    /\ UNCHANGED <<answer, down, captured, daemon, exits, rows>>

\* Errors a method may be answered with; any other is an invalid response.
IsRequestError(method, error) ==
    \/ error \notin {"conflict", "target"}
    \/ error = "conflict" /\ method = "begin"
    \/ error = "target" /\ method \in {"begin", "wait"}

Understood(c) ==
    /\ down[c].id = c
    /\ down[c].kind = "ok" \/ IsRequestError(call[c].method, down[c].kind)

Receives(c) ==
    /\ call[c].at = "open" /\ down[c] # Unsaid
    /\ \/ Understood(c) /\ Settles(c, down[c].kind, down[c].value)
       \/ ~Understood(c) /\ Settles(c, "invalid", Unsaid)
    /\ linked' = linked \ {c}
    /\ down' = [down EXCEPT ![c] = Unsaid]
    /\ UNCHANGED <<conn, captured, daemon, exits, rows>>

LosesConnection(c) ==
    /\ call[c].at = "open" /\ c \notin linked /\ down[c] = Unsaid
    /\ Settles(c, "unavailable", Unsaid)
    /\ UNCHANGED <<wire, conn, captured, daemon, exits, rows>>

TimesOut(c) ==
    /\ call[c].at = "open" /\ call[c].timed
    /\ Settles(c, "timeout", Unsaid)
    /\ linked' = linked \ {c}
    /\ down' = [down EXCEPT ![c] = Unsaid]
    /\ UNCHANGED <<conn, captured, daemon, exits, rows>>

-----------------------------------------------------------------------------
Reads(c) == \/ TooLarge(c) \/ Drops(c) \/ ReadTimesOut(c)
            \/ Undecodable(c) \/ Stopping(c)
Serves(c) == \/ BeginAsked(c) \/ Replays(c) \/ Conflicts(c) \/ Begins(c) \/ BeginRefused(c)
             \/ WaitAsked(c) \/ WaitAnswers(c) \/ WaitAborted(c)
             \/ StopAsked(c) \/ ReplaceAsked(c) \/ ReplaceRefused(c)
Client(c) == Open(c) \/ Receives(c) \/ LosesConnection(c) \/ TimesOut(c)

Next ==
    \/ \E c \in Calls : Reads(c) \/ Serves(c) \/ Client(c)
    \/ \E a \in Agents : TurnEnds(a)
    \/ Close \/ Exit(TRUE) \/ Exit(FALSE) \/ Restart

Spec == Init /\ [][Next]_vars

-----------------------------------------------------------------------------
(* What a caller may rely on. *)

\* However often a request is repeated because its answer was late or lost, its key
\* has begun one turn at most (request, createTaskResult, reserveContinueResult).
OncePerKey ==
    \A a \in Agents : \A i, j \in DOMAIN turns[a] :
        turns[a][i].key = turns[a][j].key => i = j

\* A call that is told no, or cannot read its answer, has begun no turn and stopped no
\* daemon: only a timeout and a lost connection leave that open (handleLine, sendRequest).
RefusalsAreEmpty ==
    \A c \in Calls : answer[c] # Unsaid =>
        (answer[c].kind \notin {"ok", "timeout", "unavailable"} => c \notin did)

\* A wait tells how the turns ended that were the latest when it was asked, though
\* one of the agents has begun another while the wait went on for the rest.
WaitsKeepTheirTurns ==
    \A c \in Calls : answer[c] # Unsaid =>
        ((call[c].method = "wait" /\ answer[c].kind = "ok") =>
            /\ DOMAIN answer[c].value = {a \in Agents : captured[c][a] > 0}
            /\ \A a \in DOMAIN answer[c].value :
                  \/ answer[c].value[a] = Status(a, captured[c][a])
                  \/ answer[c].value[a] = "running" /\ call[c].timed)

\* What a call was told of is so: the key is taken, the daemon was stopped by it.
AcceptedIsDone ==
    \A c \in Calls : answer[c] # Unsaid =>
        (answer[c].kind = "ok" =>
            CASE call[c].method = "begin" -> KeyOf(c) \in keys
              [] call[c].method = "wait" -> TRUE
              [] OTHER -> c \in did)

AnswersAreTrue == OncePerKey /\ RefusalsAreEmpty /\ WaitsKeepTheirTurns /\ AcceptedIsDone

-----------------------------------------------------------------------------
(***************************************************************************)
(* The inductive invariant under these: until the daemon has done with a   *)
(* connection it has done nothing for it, and what it writes then is so,   *)
(* whoever reads it and when.                                              *)
(***************************************************************************)
Done(c) == conn[c] \in {"answered", "gone"}

ConnectionIsPlaced(c) ==
    /\ call[c].at = "idle" <=> conn[c] = "none"
    /\ c \in linked => call[c].at = "open"
    /\ conn[c] = "starting" => call[c].method = "begin"
    /\ conn[c] = "waiting" => call[c].method = "wait"

\* An accepted request and the value it is told; a wait tells what is final, or has timed out.
Holds(c, value) ==
    /\ call[c].method = "begin" => KeyOf(c) \in keys
    /\ call[c].method = "wait" =>
          /\ DOMAIN value = {a \in Agents : captured[c][a] > 0}
          /\ \A a \in DOMAIN value :
                IF value[a] = "running" THEN call[c].timed
                ELSE value[a] = Status(a, captured[c][a])
    /\ call[c].method \in {"stop", "replace"} => c \in did

UndoneIsSilent(c) == ~Done(c) => c \notin did /\ down[c] = Unsaid

LineIsTrue(c) ==
    down[c] # Unsaid =>
        IF down[c].kind = "ok" THEN down[c].id = c /\ Holds(c, down[c].value) ELSE c \notin did

AnswerIsTrue(c) ==
    answer[c] # Unsaid =>
        /\ call[c].at = "settled"
        /\ answer[c].kind = "ok" => Done(c) /\ Holds(c, answer[c].value)
        /\ answer[c].kind \notin {"ok", "timeout", "unavailable"} => Done(c) /\ c \notin did

CapturesAreTurns ==
    \A c \in Calls : \A a \in Agents : captured[c][a] > 0 => captured[c][a] \in DOMAIN turns[a]

BegunKeysAreTaken == \A a \in Agents : \A i \in DOMAIN turns[a] : turns[a][i].key \in keys

CallInv(c) == ConnectionIsPlaced(c) /\ UndoneIsSilent(c) /\ LineIsTrue(c) /\ AnswerIsTrue(c)
RowInv == BegunKeysAreTaken /\ OncePerKey
WireInv == (\A c \in Calls : CallInv(c)) /\ CapturesAreTurns /\ RowInv
=============================================================================
