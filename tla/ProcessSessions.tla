---------------------------- MODULE ProcessSessions ----------------------------
(***************************************************************************)
(* Managed commands: process-sessions.ts, with the tool calls that start   *)
(* and poll them and the shutdown of the server around it (server.ts,      *)
(* server-shutdown.ts).  A session is one start(); several calls may wait  *)
(* for it and read its buffer.  Whether a command may run at all, and how  *)
(* it is accounted for, is WorkRuns' matter.                               *)
(*                                                                         *)
(* The characters a command writes are numbered 1, 2, ... .  Gap is the    *)
(* mark that stands for what was left out; it counts as one character.     *)
(***************************************************************************)
EXTENDS Naturals, Sequences, FiniteSetsExt, SequencesExt

CONSTANTS
    Sessions,       \* calls of start()
    Polls,          \* calls of write(), with or without input
    Terminals,      \* sessions that ask for a PTY: an import comes first
    MaxCharacters,  \* maxBufferCharacters
    Limits,         \* what a call may ask for (maxOutputTokens)
    MaxCompleted,   \* maxCompletedSessions
    MaxWritten      \* bound, per session: characters its command writes

Gap == 0
NoSession == "none"

VARIABLES
    session,    \* per session: its state, buffer, what was read, and whether a receipt is kept
    listed,     \* ids in the table of the manager
    ended,      \* sessions in the order in which they finished
    process,    \* per session: the command outside: none, alive, told (to end), gone
    call,       \* per call: the session it waits for, or NoSession
    answered,   \* calls that are over
    server      \* up, closing (no new calls), shut (shutdown() was called), gone

vars == <<session, listed, ended, process, call, answered, server>>

Calls == Sessions \union Polls
EmptyBuffer == [head |-> <<>>, tail |-> <<>>, total |-> 0]

Init ==
    /\ session = [s \in Sessions |-> [state |-> "new", buffer |-> EmptyBuffer, written |-> 0,
                                      reads |-> <<>>, receipt |-> FALSE]]
    /\ listed = {} /\ ended = <<>> /\ process = [s \in Sessions |-> "none"]
    /\ call = [c \in Calls |-> NoSession] /\ answered = {} /\ server = "up"

(***************************************************************************)
(* HeadTailBuffer.                                                         *)
(***************************************************************************)
HeadBudget(n) == (n + 1) \div 2
TailBudget(n) == n \div 2
TakeHead(text, n) == SubSeq(text, 1, IF n < Len(text) THEN n ELSE Len(text))
TakeTail(text, n) == SubSeq(text, IF n < Len(text) THEN Len(text) - n + 1 ELSE 1, Len(text))

AppendTo(b, text) ==
    LET total == b.total + Len(text) IN
    IF total <= MaxCharacters
    THEN [b EXCEPT !.head = b.head \o text, !.total = total]
    ELSE IF b.total <= MaxCharacters
    THEN [head |-> TakeHead(b.head \o text, HeadBudget(MaxCharacters)),
          tail |-> TakeTail(b.head \o text, TailBudget(MaxCharacters)), total |-> total]
    ELSE [b EXCEPT !.tail = TakeTail(b.tail \o text, TailBudget(MaxCharacters)), !.total = total]

\* drain() and truncateOutput(): the mark of the second takes room of the limit.
Truncated(text, limit) ==
    IF Len(text) <= limit THEN text
    ELSE TakeHead(text, HeadBudget(limit - 1)) \o <<Gap>> \o TakeTail(text, TailBudget(limit - 1))

Drained(b, limit) ==
    LET omitted == b.total - Len(b.head) - Len(b.tail)
        retained == IF omitted > 0 THEN b.head \o <<Gap>> \o b.tail ELSE b.head \o b.tail
    IN [output |-> Truncated(retained, limit),
        truncated |-> omitted > 0 \/ Len(retained) > limit]

ReadsAgain(s, limit) ==  \* mutant: the terminal read is not kept
    LET d == Drained(session[s].buffer, limit) IN
    session' = [session EXCEPT
        ![s].buffer = EmptyBuffer,
        ![s].reads = Append(@, [output |-> d.output, truncated |-> d.truncated,
                                upto |-> session[s].written,
                                running |-> session[s].state # "closed"])]

(***************************************************************************)
(* consume(): the call is answered.  The first read of a closed session is *)
(* kept, and every later one repeats it.                                   *)
(***************************************************************************)
Consume(s, limit) ==
    IF session[s].receipt THEN UNCHANGED session
    ELSE LET d == Drained(session[s].buffer, limit) IN
         session' = [session EXCEPT
             ![s].buffer = EmptyBuffer,
             ![s].reads = Append(@, [output |-> d.output, truncated |-> d.truncated,
                                     upto |-> session[s].written,
                                     running |-> session[s].state # "closed"]),
             ![s].receipt = session[s].state = "closed"]

Answer(c) == answered' = answered \union {c} /\ call' = [call EXCEPT ![c] = NoSession]
Waits(c, s) == call' = [call EXCEPT ![c] = s] /\ UNCHANGED answered
New(c) == server = "up" /\ c \notin answered /\ call[c] = NoSession

(***************************************************************************)
(* start().                                                                *)
(***************************************************************************)
Start(s) ==
    /\ New(s) /\ session[s].state = "new" /\ listed' = listed \union {s} /\ Waits(s, s)
    /\ session' = [session EXCEPT ![s].state = "running"]
    /\ process' = IF s \in Terminals THEN process ELSE [process EXCEPT ![s] = "alive"]
    /\ UNCHANGED <<ended, server>>

Importing(s) == s \in Terminals /\ session[s].state = "running" /\ process[s] = "none"

TerminalStarts(s) ==
    /\ Importing(s) /\ server # "gone"
    /\ process' = [process EXCEPT ![s] = "alive"]
    /\ UNCHANGED <<session, listed, ended, call, answered, server>>

\* The catch block: no session remains.
TerminalFails(s) ==
    /\ Importing(s) /\ server # "gone" /\ Answer(s) /\ listed' = listed \ {s}
    /\ session' = [session EXCEPT ![s].state = "failed"]
    /\ UNCHANGED <<ended, process, server>>

\* waitForExit(): the session closed, or the time to wait is over.
Returns(c, limit) ==
    /\ call[c] # NoSession /\ server # "gone"
    /\ c \in Sessions => ~Importing(c)
    /\ Consume(call[c], limit) /\ Answer(c)
    /\ UNCHANGED <<listed, ended, process, server>>

(***************************************************************************)
(* write(): a poll reads at once when there is output or nothing to wait   *)
(* for; input goes to running sessions only, and an interrupt may end it.  *)
(***************************************************************************)
Poll(c, s, limit) ==
    /\ New(c) /\ s \in listed
    /\ IF session[s].state = "running" /\ session[s].buffer.total = 0
       THEN Waits(c, s) /\ UNCHANGED session
       ELSE Consume(s, limit) /\ Answer(c)
    /\ UNCHANGED <<listed, ended, process, server>>

Interrupt(c, s) ==
    /\ New(c) /\ s \in listed /\ session[s].state = "running" /\ Waits(c, s)
    /\ process' = IF process[s] = "alive" THEN [process EXCEPT ![s] = "told"] ELSE process
    /\ UNCHANGED <<session, listed, ended, server>>

\* An unknown id, or input for a session that is closed.
RefusePoll(c) ==
    /\ New(c) /\ \E s \in Sessions : s \notin listed \/ session[s].state = "closed"
    /\ Answer(c) /\ UNCHANGED <<session, listed, ended, process, server>>

(***************************************************************************)
(* The command.                                                            *)
(***************************************************************************)
Fits(s, n) == session[s].written + n <= MaxWritten[s]
Buffered(s, n) == AppendTo(session[s].buffer, [i \in 1..n |-> session[s].written + i])

Write(s, n) ==
    /\ process[s] \in {"alive", "told"} /\ server # "gone" /\ Fits(s, n)
    /\ session' = [session EXCEPT ![s].buffer = Buffered(s, n), ![s].written = @ + n]
    /\ UNCHANGED <<listed, ended, process, call, answered, server>>

\* finish(): an account that cannot be closed is reported in the output; the
\* waiting calls go on, a timer will forget the session, and what is closed
\* beyond the cap is forgotten oldest first.
Exit(s, n) ==
    /\ process[s] \in {"alive", "told"} /\ server # "gone"
    /\ process' = [process EXCEPT ![s] = "gone"]
    /\ Fits(s, n)
    /\ session' = [session EXCEPT ![s].state = "closed", ![s].buffer = Buffered(s, n),
                                  ![s].written = @ + n]
    /\ LET completed == SelectSeq(Append(ended, s), LAMBDA e : e \in listed)
           surplus == TakeHead(completed, IF Len(completed) > MaxCompleted
                                          THEN Len(completed) - MaxCompleted ELSE 0)
       IN listed' = listed \ ToSet(surplus)
    /\ ended' = Append(ended, s)
    /\ UNCHANGED <<call, answered, server>>

Forget(s) ==
    /\ s \in listed /\ session[s].state = "closed" /\ server # "gone"
    /\ listed' = listed \ {s}
    /\ UNCHANGED <<session, ended, process, call, answered, server>>

(***************************************************************************)
(* The server closes: no new calls, the calls under way are awaited, then  *)
(* shutdown() tells every running command to end, and the server exits.    *)
(***************************************************************************)
Close ==
    /\ server = "up" /\ server' = "closing"
    /\ UNCHANGED <<session, listed, ended, process, call, answered>>

ShutdownAtOnce ==  \* mutant: the calls under way are not awaited
    /\ server = "closing" /\ server' = "shut" /\ listed' = {}
    /\ process' = [s \in Sessions |->
                      IF s \in listed /\ session[s].state = "running" /\ process[s] = "alive"
                      THEN "told" ELSE process[s]]
    /\ UNCHANGED <<session, ended, call, answered>>

Shutdown ==
    /\ server = "closing" /\ \A c \in Calls : call[c] = NoSession
    /\ server' = "shut" /\ listed' = {}
    /\ process' = [s \in Sessions |->
                      IF s \in listed /\ session[s].state = "running" /\ process[s] = "alive"
                      THEN "told" ELSE process[s]]
    /\ UNCHANGED <<session, ended, call, answered>>

ServerExits ==
    /\ server = "shut" /\ server' = "gone"
    /\ UNCHANGED <<session, listed, ended, process, call, answered>>

Next ==
    \/ \E s \in Sessions :
          \/ Start(s) \/ TerminalStarts(s) \/ TerminalFails(s) \/ Forget(s)
          \/ \E n \in 1..2 : Write(s, n)
          \/ \E n \in 0..1 : Exit(s, n)
    \/ \E c \in Calls, limit \in Limits : Returns(c, limit)
    \/ \E c \in Polls, s \in Sessions :
          Interrupt(c, s) \/ \E limit \in Limits : Poll(c, s, limit)
    \/ \E c \in Polls : RefusePoll(c)
    \/ Close \/ Shutdown \/ ServerExits

Spec == Init /\ [][Next]_vars

-------------------------------------------------------------------------------
\* The reads of a session partition what the command wrote: each shows, in
\* order, a beginning and an end of what was written since the read before,
\* says so when it leaves out the middle, and none comes after the read of the
\* closed session.  Two calls that race for one buffer never lose output, show
\* it twice, or get the terminal read wrong.
Shown(text) == SelectSeq(text, LAMBDA x : x # Gap)
Span(a, b) == [i \in 1..(IF b < a THEN 0 ELSE b + 1 - a) |-> a + i - 1]

Shows(read, from) ==
    /\ \E i \in from..read.upto :
          Shown(read.output) = Span(from + 1, i)
                               \o Span(read.upto + 1 + (i - from) - Len(Shown(read.output)), read.upto)
    /\ ~read.truncated => Len(read.output) = read.upto - from
    /\ read.upto > from => read.output # <<>>

OutputIsPartitioned ==
    \A s \in Sessions :
        LET reads == session[s].reads IN
        \A i \in DOMAIN reads :
            /\ Shows(reads[i], IF i = 1 THEN 0 ELSE reads[i - 1].upto)
            /\ ~reads[i].running => /\ i = Len(reads) /\ session[s].receipt
                                    /\ reads[i].upto = session[s].written

\* No command runs unwatched: it can be polled as long as the server answers,
\* and it was told to end when the server is gone.
NothingRunsUnwatched ==
    \A s \in Sessions :
        /\ process[s] = "alive" => server \in {"up", "closing"} /\ s \in listed
        /\ process[s] = "told" /\ server \in {"up", "closing"} => s \in listed

\* A command that was started is accounted for, to the end of its output and of its process.
CommandsAreFollowed == OutputIsPartitioned /\ NothingRunsUnwatched
===============================================================================
