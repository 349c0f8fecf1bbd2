-------------------------------- MODULE AcpTurns --------------------------------
(***************************************************************************)
(* One ACP process and the turns it serves: local-agent-acp.ts, and        *)
(* local-agent-grok.ts for the provider that ends a prompt twice, with the *)
(* answer of session/prompt and with notifications of its own.  Messages   *)
(* of the process arrive in the order in which it writes them; what it     *)
(* writes, and when, is its own affair.                                    *)
(*                                                                         *)
(* The manager runs one turn per agent, and an agent keeps its session, so *)
(* the check that a session has no active turn cannot fail here.  Models   *)
(* stand for models; efforts follow the same path and are left out.        *)
(***************************************************************************)
EXTENDS Naturals, Sequences, FiniteSets

CONSTANTS
    Providers,      \* subset of {"grok", "cursor"}; copilot is served as cursor is
    Agents, Models,
    None,
    Endings,        \* what Grok may write when a prompt ends
    MaxPrompts, MaxSessions, MaxText, MaxQueue, MaxNoise    \* bounds

VARIABLES
    provider,
    resumes,    \* capabilities.resume
    child,      \* "none", "up", "signalled", "gone"
    runtime,    \* "none", "starting", "open", "dead", "failed", "closed"
    known,      \* per agent: the provider session id in the store
    turn,       \* per agent
    session,    \* per session: what the provider uses, what the runtime caches, its queue
    prompts,    \* every session/prompt sent; history: did it run on the model asked for
    pending,    \* prompts that the completion registry waits for, in order
    completed,  \* completedPromptIds
    wire,       \* what the process wrote and nobody has read
    noise,      \* bound
    early,      \* history: prompts whose turn ended before the prompt did
    answers     \* history: what a turn returned, per prompt

vars == <<provider, resumes, child, runtime, known, turn, session, prompts, pending, completed,
          wire, noise, early, answers>>

Idle == [step |-> "none"]
Off == [live |-> FALSE, meta |-> None, queue |-> <<>>]
Ended(t, by) == [step |-> "settled", session |-> t.session, prompt |-> t.prompt, by |-> by]
Turning(s) == {a \in Agents : turn[a].step # "none" /\ turn[a].session = s}

Init ==
    /\ provider \in Providers /\ resumes \in BOOLEAN
    /\ child = "none" /\ runtime = "none"
    /\ known = [a \in Agents |-> None] /\ turn = [a \in Agents |-> Idle]
    /\ session = <<>> /\ prompts = <<>> /\ pending = <<>> /\ completed = {} /\ wire = <<>>
    /\ noise = 0 /\ early = {} /\ answers = {}

(***************************************************************************)
(* The process.  A start that fails signals the child; so does close().    *)
(***************************************************************************)
Launch ==
    /\ runtime = "none" /\ runtime' = "starting" /\ child' = "up"
    /\ UNCHANGED <<provider, resumes, known, turn, session, prompts, pending, completed, wire,
                   noise, early, answers>>

Signal == child' = IF child = "up" THEN "signalled" ELSE child

Initialize ==
    /\ runtime = "starting"
    /\ \/ child = "up" /\ runtime' = "open" /\ UNCHANGED child
       \/ runtime' = "failed" /\ Signal
    /\ UNCHANGED <<provider, resumes, known, turn, session, prompts, pending, completed, wire,
                   noise, early, answers>>

\* Every request in flight is rejected when the connection closes.
Reject == turn' = [a \in Agents |->
    CASE turn[a].step \in {"open", "configure"} -> Idle
      [] turn[a].step = "sent" -> Ended(turn[a], "closed")
      [] OTHER -> turn[a]]

ChildExits ==
    /\ child \in {"up", "signalled"} /\ child' = "gone"
    /\ IF runtime = "open"
       THEN runtime' = "dead" /\ Reject /\ pending' = <<>> /\ wire' = <<>>
       ELSE UNCHANGED <<runtime, turn, pending, wire>>
    /\ UNCHANGED <<provider, resumes, known, session, prompts, completed, noise, early, answers>>

CloseQuietly ==  \* mutant: a runtime that is not alive is forgotten without a signal
    /\ runtime \in {"open", "dead"} /\ runtime' = "closed"
    /\ session' = [s \in DOMAIN session |-> [session[s] EXCEPT !.use = Off]]
    /\ pending' = <<>> /\ wire' = <<>> /\ Reject /\ UNCHANGED child
    /\ UNCHANGED <<provider, resumes, known, prompts, completed, noise, early, answers>>

Close ==
    /\ runtime \in {"open", "dead"} /\ runtime' = "closed"
    /\ session' = [s \in DOMAIN session |-> [session[s] EXCEPT !.use = Off]]
    /\ pending' = <<>> /\ wire' = <<>> /\ Reject /\ Signal
    /\ UNCHANGED <<provider, resumes, known, prompts, completed, noise, early, answers>>

\* The connection is lost while the process goes on.
Disconnect ==
    /\ runtime = "open" /\ runtime' = "dead" /\ Reject /\ pending' = <<>> /\ wire' = <<>>
    /\ UNCHANGED <<provider, resumes, child, known, session, prompts, completed, noise, early, answers>>

(***************************************************************************)
(* run() and openSession().                                                *)
(***************************************************************************)
BeginTurn(a, model, override) ==
    /\ runtime = "open" /\ turn[a] = Idle /\ Len(prompts) < MaxPrompts
    /\ override => model # None
    /\ known[a] # None => session[known[a]].use.live \/ resumes
    /\ turn' = [turn EXCEPT ![a] =
          [step |-> IF known[a] # None /\ session[known[a]].use.live THEN "configure" ELSE "open",
           session |-> known[a], model |-> model, override |-> override, new |-> known[a] = None]]
    /\ UNCHANGED <<provider, resumes, child, runtime, known, session, prompts, pending, completed,
                   wire, noise, early, answers>>

\* session/new and session/resume: what the answer says of models is cached.
OpenSession(a, advertises) ==
    /\ turn[a].step = "open"
    /\ LET s == IF turn[a].new THEN Len(session) + 1 ELSE turn[a].session
           uses == IF turn[a].new THEN CHOOSE m \in Models : TRUE ELSE session[s].uses
           opened == [uses |-> uses,
                      use |-> [live |-> TRUE, queue |-> <<>>, meta |-> IF advertises THEN uses ELSE None]]
       IN /\ s <= MaxSessions
          /\ session' = IF turn[a].new THEN Append(session, opened) ELSE [session EXCEPT ![s] = opened]
          /\ \/ /\ known' = [known EXCEPT ![a] = s]
                /\ turn' = [turn EXCEPT ![a].step = "configure", ![a].session = s]
             \/ turn' = [turn EXCEPT ![a] = Idle] /\ UNCHANGED known    \* onSessionId failed
    /\ UNCHANGED <<provider, resumes, child, runtime, prompts, pending, completed, wire, noise, early, answers>>

\* Any step before the prompt may fail and end the turn.
OpenFails(a) ==
    /\ turn[a].step \in {"open", "configure"} /\ turn' = [turn EXCEPT ![a] = Idle]
    /\ UNCHANGED <<provider, resumes, child, runtime, known, session, prompts, pending, completed,
                   wire, noise, early, answers>>

(***************************************************************************)
(* configureSession(): a turn that names a model has it set, where the     *)
(* session can be configured; Grok is not asked for the model that it      *)
(* reported when the session was opened.                                   *)
(***************************************************************************)
CanConfigure(t) ==
    session[t.session].use.meta # None \/ (provider # "grok" /\ t.new)

RefusedIfNew(t) ==  \* mutant: an override that an older session cannot take is passed over
    ~ CanConfigure(t) /\ t.model # None /\ provider = "grok" /\ t.new

Refused(t) ==
    ~ CanConfigure(t) /\ t.model # None /\ (t.override \/ (provider = "grok" /\ t.new))

Sets(t) ==
    /\ CanConfigure(t) /\ t.model # None
    /\ provider = "grok" => t.model # session[t.session].use.meta

SendUncleared(a) ==  \* mutant: the queue of the session is not emptied first
    LET t == turn[a]   p == Len(prompts) + 1
        uses == IF Sets(t) THEN t.model ELSE session[t.session].uses
    IN
    /\ t.step = "configure" /\ ~ Refused(t) /\ Len(prompts) < MaxPrompts
    /\ session' = [session EXCEPT ![t.session].uses = uses]
    /\ prompts' = Append(prompts, [session |-> t.session, text |-> 0, ended |-> FALSE,
                                   asked |-> t.override => uses = t.model,
                                   reported |-> t.override /\ session[t.session].use.meta = t.model])
    /\ pending' = IF provider = "grok" THEN Append(pending, p) ELSE pending
    /\ turn' = [turn EXCEPT ![a] = [step |-> "sent", session |-> t.session, prompt |-> p]]
    /\ UNCHANGED <<provider, resumes, child, runtime, known, completed, wire, noise, early, answers>>

SendPrompt(a) ==
    LET t == turn[a]   p == Len(prompts) + 1
        uses == IF Sets(t) THEN t.model ELSE session[t.session].uses
    IN
    /\ t.step = "configure" /\ ~ Refused(t) /\ Len(prompts) < MaxPrompts
    /\ session' = [session EXCEPT ![t.session].uses = uses, ![t.session].use.queue = <<>>]
    /\ prompts' = Append(prompts, [session |-> t.session, text |-> 0, ended |-> FALSE,
                                   asked |-> t.override => uses = t.model,
                                   reported |-> t.override /\ session[t.session].use.meta = t.model])
    /\ pending' = IF provider = "grok" THEN Append(pending, p) ELSE pending
    /\ turn' = [turn EXCEPT ![a] = [step |-> "sent", session |-> t.session, prompt |-> p]]
    /\ UNCHANGED <<provider, resumes, child, runtime, known, completed, wire, noise, early, answers>>

(***************************************************************************)
(* The provider: text of a prompt, text of a background task of a session, *)
(* and the end of a prompt, which Grok may report more than once, with or  *)
(* without naming the prompt.                                              *)
(***************************************************************************)
WriteText(p) ==
    /\ child = "up" /\ runtime = "open" /\ ~ prompts[p].ended /\ prompts[p].text < MaxText
    /\ prompts' = [prompts EXCEPT ![p].text = @ + 1]
    /\ wire' = Append(wire, [kind |-> "text", session |-> prompts[p].session, of |-> p])
    /\ UNCHANGED <<provider, resumes, child, runtime, known, turn, session, pending, completed,
                   noise, early, answers>>

WriteNoise(s) ==
    /\ child = "up" /\ runtime = "open" /\ noise < MaxNoise /\ noise' = noise + 1
    /\ wire' = Append(wire, [kind |-> "text", session |-> s, of |-> 0])
    /\ UNCHANGED <<provider, resumes, child, runtime, known, turn, session, prompts, pending,
                   completed, early, answers>>

EndPrompt(p, ending) ==
    /\ child = "up" /\ runtime = "open" /\ ~ prompts[p].ended
    /\ provider # "grok" => ending = <<"response">>
    /\ prompts' = [prompts EXCEPT ![p].ended = TRUE]
    /\ wire' = wire \o [i \in DOMAIN ending |->
                          [kind |-> ending[i], session |-> prompts[p].session, of |-> p]]
    /\ UNCHANGED <<provider, resumes, child, runtime, known, turn, session, pending, completed,
                   noise, early, answers>>

(***************************************************************************)
(* Reading what it wrote: session/update, the registry's resolve(), and    *)
(* the answer of session/prompt.                                           *)
(***************************************************************************)
Waits(p) == \E i \in DOMAIN pending : pending[i] = p
Without(p) == SelectSeq(pending, LAMBDA q : q # p)

Enqueue(queue, item) == Append(IF Len(queue) >= MaxQueue THEN Tail(queue) ELSE queue, item)

\* The prompt that a completion settles, 0 for none.
Settled(m) ==
    IF m.kind = "named"
    THEN IF m.of \notin completed /\ Waits(m.of) THEN m.of ELSE 0
    ELSE LET same == SelectSeq(pending, LAMBDA q : prompts[q].session = m.session)
         IN IF same = <<>> THEN 0 ELSE Head(same)

Settle(p, by) == turn' = [a \in Agents |->
    IF turn[a].step = "sent" /\ turn[a].prompt = p
    THEN Ended(turn[a], by) ELSE turn[a]]

Read ==
    /\ wire # <<>> /\ wire' = Tail(wire)
    /\ LET m == Head(wire) IN
       \/ /\ m.kind = "text"
          /\ session' = IF session[m.session].use.live
                        THEN [session EXCEPT ![m.session].use.queue =
                                Enqueue(@, [of |-> m.of, after |-> Len(prompts)])]
                        ELSE session
          /\ UNCHANGED <<turn, pending, completed>>
       \/ /\ m.kind = "response" /\ Settle(m.of, "response")
          /\ UNCHANGED <<session, pending, completed>>
       \/ /\ m.kind \in {"named", "bare"}
          /\ IF Settled(m) = 0 THEN UNCHANGED <<turn, pending, completed>>
             ELSE /\ Settle(Settled(m), IF Settled(m) = m.of THEN "completion" ELSE "other")
                  /\ pending' = Without(Settled(m)) /\ completed' = completed \union {Settled(m)}
          /\ UNCHANGED session
    /\ UNCHANGED <<provider, resumes, child, runtime, known, prompts, noise, early, answers>>

\* Grok did not report completion before the timeout.
PromptTimesOut(a) ==
    /\ turn[a].step = "sent" /\ Waits(turn[a].prompt)
    /\ pending' = Without(turn[a].prompt)
    /\ turn' = [turn EXCEPT ![a] = Ended(@, "timeout")]
    /\ UNCHANGED <<provider, resumes, child, runtime, known, session, prompts, completed, wire,
                   noise, early, answers>>

\* The rest of run(): what the queue holds is the answer, if it is any.
FinishTurn(a) ==
    LET t == turn[a]   p == t.prompt   held == session[t.session].use.queue
        returns == t.by \in {"response", "completion", "other"}
    IN
    /\ t.step = "settled" /\ turn' = [turn EXCEPT ![a] = Idle]
    /\ pending' = Without(p)
    /\ completed' = IF provider = "grok" /\ t.by = "response" THEN completed \union {p} ELSE completed
    /\ session' = IF returns THEN [session EXCEPT ![t.session].use.queue = <<>>] ELSE session
    /\ answers' = IF returns /\ held # <<>> THEN answers \union {[prompt |-> p, items |-> held]} ELSE answers
    /\ early' = IF t.by \in {"response", "completion"} THEN early ELSE early \union {p}
    /\ UNCHANGED <<provider, resumes, child, runtime, known, prompts, wire, noise>>

\* releaseSession(), which the pool calls for a session without a turn.
ReleaseSession(s) ==
    /\ session[s].use.live /\ Turning(s) = {}
    /\ session' = [session EXCEPT ![s].use = Off]
    /\ UNCHANGED <<provider, resumes, child, runtime, known, turn, prompts, pending, completed,
                   wire, noise, early, answers>>

Next ==
    \/ Launch \/ Initialize \/ ChildExits \/ Close \/ Disconnect \/ Read
    \/ \E a \in Agents :
          \/ \E m \in Models \union {None}, override \in BOOLEAN : BeginTurn(a, m, override)
          \/ \E advertises \in BOOLEAN : OpenSession(a, advertises)
          \/ OpenFails(a) \/ SendPrompt(a) \/ PromptTimesOut(a) \/ FinishTurn(a)
    \/ \E p \in DOMAIN prompts : WriteText(p) \/ \E e \in Endings : EndPrompt(p, e)
    \/ \E s \in DOMAIN session : WriteNoise(s) \/ ReleaseSession(s)

Spec == Init /\ [][Next]_vars

-------------------------------------------------------------------------------
\* A process that was started is used by a runtime, or told to end.
NoOrphan == child = "up" => runtime \in {"starting", "open", "dead"}

\* The answer of a prompt is the text of that prompt, all of it as far as the
\* queue holds it; text of other prompts of the session can only be that of
\* prompts whose turn had been given up, and none that arrived before the
\* prompt was sent.
AnswersAreOwn ==
    \A r \in answers :
        LET p == r.prompt   of == {r.items[i].of : i \in DOMAIN r.items} IN
        /\ \A i \in DOMAIN r.items : r.items[i].after >= p
        /\ of \subseteq {0, p} \union early
        /\ p \in early \/ Len(r.items) = MaxQueue
              \/ Cardinality({i \in DOMAIN r.items : r.items[i].of = p}) = prompts[p].text

\* A turn that asks for another model runs on it, whether its session was
\* created, resumed or live -- but for Grok, when what it asks for is what the
\* session reported at its opening.
OverridesTakeEffect ==
    \A p \in DOMAIN prompts : prompts[p].asked \/ (provider = "grok" /\ prompts[p].reported)

\* A turn gets the answer of its own prompt from the model it asked for, out of a process
\* that somebody will end.
AcpTurnsAreTheirOwn == NoOrphan /\ AnswersAreOwn /\ OverridesTakeEffect

\* "Explicit --model and --effort take precedence."
ExplicitModelIsUsed == \A p \in DOMAIN prompts : prompts[p].asked

\* "Duplicate and stale events are bounded and ignored": a prompt's own end
\* settles its turn, nothing else's.
StaleEndsAreIgnored == \A a \in Agents : turn[a].step = "settled" => turn[a].by # "other"

(***************************************************************************)
(* Why it holds: a session is of one agent, the text of a prompt is read   *)
(* before its end, and a turn that does not wait for that end gives the    *)
(* prompt up.                                                              *)
(***************************************************************************)
Items == [of : Nat, after : Nat]
Uses == [live : BOOLEAN, meta : Models \union {None}, queue : Seq(Items)]
AcpSessions == [uses : Models, use : Uses]
Prompts == [session : Nat, text : Nat, ended : BOOLEAN, asked : BOOLEAN, reported : BOOLEAN]
Kinds == {"text", "response", "named", "bare"}
Messages == [kind : Kinds, session : Nat, of : Nat]
OpenTurns == [step : {"open", "configure"}, session : Nat \union {None},
              model : Models \union {None}, override : BOOLEAN, new : BOOLEAN]
SentTurns == [step : {"sent"}, session : Nat, prompt : Nat]
SettledTurns == [step : {"settled"}, session : Nat, prompt : Nat,
                 by : {"response", "completion", "other", "timeout", "closed"}]
Turns == {Idle} \union OpenTurns \union SentTurns \union SettledTurns

TypeOK ==
    /\ session \in Seq(AcpSessions) /\ prompts \in Seq(Prompts) /\ wire \in Seq(Messages)
    /\ known \in [Agents -> (DOMAIN session) \union {None}]
    /\ turn \in [Agents -> Turns]
    /\ early \subseteq DOMAIN prompts
    /\ \A p \in DOMAIN prompts : prompts[p].session \in DOMAIN session

Opening(a) == turn[a].step \in {"open", "configure"}
Prompted(a) == turn[a].step \in {"sent", "settled"}

\* A turn has the session of its agent, once there is one, and nobody else has it.
SessionsAreOwn ==
    /\ \A a, b \in Agents : known[a] # None /\ known[a] = known[b] => a = b
    /\ \A a \in Agents :
          /\ turn[a].step = "open" /\ turn[a].new => known[a] = None
          /\ turn[a].step # "none" /\ ~(turn[a].step = "open" /\ turn[a].new)
                => known[a] # None /\ turn[a].session = known[a]
          /\ Prompted(a) => turn[a].prompt \in DOMAIN prompts \ early
                             /\ prompts[turn[a].prompt].session = turn[a].session
          /\ Opening(a) /\ turn[a].override => turn[a].model # None

\* The turn that took the end of its own prompt, and the one that has not.
TookEnd(a) == turn[a].step = "settled" /\ turn[a].by \in {"response", "completion"}
Awaits(a, p) == Prompted(a) /\ turn[a].prompt = p /\ ~ TookEnd(a)

\* A prompt whose end was not taken is given up, or will be.
EndsAreTaken ==
    /\ \A a \in Agents : TookEnd(a) => prompts[turn[a].prompt].ended
    /\ \A p \in DOMAIN prompts : prompts[p].ended \/ p \in early \/ \E a \in Agents : Awaits(a, p)

\* The process writes the text of a prompt before its end.
WireIsOrdered ==
    /\ \A i \in DOMAIN wire :
          /\ wire[i].session \in DOMAIN session
          /\ wire[i].kind # "text" => wire[i].of \in DOMAIN prompts /\ prompts[wire[i].of].ended
          /\ wire[i].kind = "text" /\ wire[i].of # 0 =>
                /\ wire[i].of \in DOMAIN prompts /\ prompts[wire[i].of].session = wire[i].session
                /\ wire[i].of \in early \/ \E a \in Agents : Awaits(a, wire[i].of)
    /\ \A i, j \in DOMAIN wire :
          i < j /\ wire[i].kind # "text" /\ wire[j].kind = "text" => wire[i].of # wire[j].of

Queue(s) == session[s].use.queue

\* A queue has text of the turn under way or of prompts that were given up.
QueuesAreOwn ==
    \A s \in DOMAIN session :
        /\ Len(Queue(s)) <= MaxQueue
        /\ ~ session[s].use.live => Queue(s) = <<>>
        /\ \A i \in DOMAIN Queue(s) :
              LET q == Queue(s)[i].of IN
              /\ q # 0 => /\ q \in DOMAIN prompts /\ prompts[q].session = s
                          /\ q \in early \/ \E a \in Agents : (Prompted(a) /\ turn[a].prompt = q)
              /\ \A a \in Agents :
                    Prompted(a) /\ turn[a].session = s => Queue(s)[i].after >= turn[a].prompt

InQueue(q, p) == {i \in DOMAIN q : q[i].of = p}
OnWire(w, p) == {i \in DOMAIN w : w[i].kind = "text" /\ w[i].of = p}

\* What a turn has not read of its prompt is on the wire.
NothingIsMissing ==
    \A a \in Agents :
        turn[a].step = "sent" \/ TookEnd(a) =>
            LET q == Queue(turn[a].session)   p == turn[a].prompt IN
            \/ ~ session[turn[a].session].use.live \/ Len(q) = MaxQueue
            \/ Cardinality(InQueue(q, p)) + Cardinality(OnWire(wire, p)) = prompts[p].text

AnswersAreFinal ==
    \A r \in answers :
        /\ r.prompt \in DOMAIN prompts /\ r.items \in Seq(Items)
        /\ r.prompt \in early \/ prompts[r.prompt].ended

AcpInv ==
    /\ TypeOK /\ SessionsAreOwn /\ EndsAreTaken /\ WireIsOrdered /\ QueuesAreOwn
    /\ NothingIsMissing /\ AnswersAreFinal /\ AcpTurnsAreTheirOwn
===============================================================================
