-------------------------------- MODULE ClaudeTurns --------------------------------
(***************************************************************************)
(* The turns of one Claude agent: local-agent-claude.ts.  A runtime is one *)
(* streaming query of the SDK; it outlives its turns, which push a prompt  *)
(* and read messages until a result.  Turns with full access have a        *)
(* runtime of their own, so an agent may have two queries of one session.  *)
(*                                                                         *)
(* What the SDK writes, and that a query resumes what the session holds    *)
(* when it is created, is external.                                        *)
(***************************************************************************)
EXTENDS Naturals, Sequences

CONSTANTS MaxPrompts, MaxQueries, MaxText    \* bounds

Authorities == {"restricted", "full_access"}
Modes == {"read_only", "allowed", "full_access"}
Authority(mode) == IF mode = "full_access" THEN mode ELSE "restricted"

VARIABLES
    stored,     \* the agent's provider session, 0 for none
    history,    \* the prompts that the session holds
    query,      \* per authority: the runtime and its query
    queries,    \* queries created; bound
    turn,
    prompts,    \* per prompt: mode, the modes it ran under, the session's past that its
                \* query did not know, and whether no given up turn shares its stream
    answers     \* per turn that ended with an answer: its prompt and the result's

vars == <<stored, history, query, queries, turn, prompts, answers>>

NoQuery == [state |-> "none", session |-> 0, input |-> <<>>, output |-> <<>>, works |-> 0,
            told |-> 0, knows |-> {}, mode |-> "none", left |-> FALSE]
NoTurn == [step |-> "none"]

Init ==
    /\ stored = 0 /\ history = {}
    /\ query = [q \in Authorities |-> NoQuery] /\ queries = 0
    /\ turn = NoTurn /\ prompts = <<>> /\ answers = {}

(***************************************************************************)
(* createRuntime(), close() and the end of a query.                        *)
(***************************************************************************)
CreateRuntime(q) ==
    /\ query[q].state = "none" /\ turn = NoTurn /\ queries < MaxQueries
    /\ queries' = queries + 1
    /\ query' = [query EXCEPT ![q] = [NoQuery EXCEPT !.state = "open", !.session = stored,
                                                    !.knows = IF stored = 0 THEN {} ELSE history]]
    /\ UNCHANGED <<stored, history, turn, prompts, answers>>

\* The pool closes a runtime without a turn; the input queue ends, and the query.
Close(q) ==
    /\ query[q].state # "none" /\ (turn # NoTurn => turn.of # q)
    /\ query' = [query EXCEPT ![q] = NoQuery]
    /\ UNCHANGED <<stored, history, queries, turn, prompts, answers>>

StreamFails(q) ==
    /\ query[q].state = "open"
    /\ query' = [query EXCEPT ![q].state = "ended", ![q].works = 0]
    /\ UNCHANGED <<stored, history, queries, turn, prompts, answers>>

(***************************************************************************)
(* run().  onSessionId() and the settings of the turn come before its      *)
(* prompt; each may fail and end the turn.                                 *)
(***************************************************************************)
BeginTurn(mode) ==
    LET q == Authority(mode) IN
    /\ turn = NoTurn /\ query[q].state \in {"open", "ended"} /\ Len(prompts) < MaxPrompts
    /\ turn' = [step |-> "settings", of |-> q, mode |-> mode]
    /\ stored' = IF query[q].session # 0 THEN query[q].session ELSE stored
    /\ UNCHANGED <<history, query, queries, prompts, answers>>

FailsEarly ==
    /\ turn.step = "settings" /\ turn' = NoTurn
    /\ \E applied \in BOOLEAN :
          query' = IF applied THEN [query EXCEPT ![turn.of].mode = turn.mode] ELSE query
    /\ UNCHANGED <<stored, history, queries, prompts, answers>>

PushFirst ==  \* mutant: the prompt is pushed before the settings of its turn are in force
    /\ turn.step = "settings" /\ query[turn.of].state = "open"
    /\ query' = [query EXCEPT ![turn.of].input = Append(@, Len(prompts) + 1)]
    /\ prompts' = Append(prompts, [mode |-> turn.mode, under |-> {}, unknown |-> {}, text |-> 0, alone |-> ~query[turn.of].left])
    /\ turn' = [step |-> "reading", of |-> turn.of, mode |-> turn.mode, prompt |-> Len(prompts) + 1]
    /\ UNCHANGED <<stored, history, queries, answers>>

Push ==
    /\ turn.step = "settings" /\ query[turn.of].state = "open"
    /\ query' = [query EXCEPT ![turn.of].mode = turn.mode, ![turn.of].input = Append(@, Len(prompts) + 1)]
    /\ prompts' = Append(prompts, [mode |-> turn.mode, under |-> {}, unknown |-> {}, text |-> 0, alone |-> ~query[turn.of].left])
    /\ turn' = [step |-> "reading", of |-> turn.of, mode |-> turn.mode, prompt |-> Len(prompts) + 1]
    /\ UNCHANGED <<stored, history, queries, answers>>

\* A message with the id of another session is stored first.  What throws
\* here leaves the rest of the prompt in the stream of a live runtime.
Read ==
    LET q == turn.of   m == Head(query[q].output) IN
    /\ turn.step = "reading" /\ query[q].output # <<>>
    /\ \/ /\ m.session # query[q].session    \* onSessionId() fails
          /\ turn' = NoTurn /\ UNCHANGED <<stored, answers>>
          /\ query' = [query EXCEPT ![q].session = m.session, ![q].output = Tail(@), ![q].left = @ \/ m.kind = "text"]
          /\ prompts' = [prompts EXCEPT ![turn.prompt].alone = FALSE]
       \/ /\ query' = [query EXCEPT ![q].session = m.session, ![q].output = Tail(@)]
          /\ stored' = m.session
          /\ turn' = IF m.kind = "text" THEN turn ELSE NoTurn
          /\ answers' = IF m.kind = "result" THEN answers \union {[to |-> turn.prompt, of |-> m.of]} ELSE answers
          /\ UNCHANGED prompts
    /\ UNCHANGED <<history, queries>>

StreamEnded ==
    /\ turn.step = "reading" /\ query[turn.of].state = "ended" /\ query[turn.of].output = <<>>
    /\ turn' = NoTurn
    /\ UNCHANGED <<stored, history, query, queries, prompts, answers>>

(***************************************************************************)
(* The query.                                                              *)
(***************************************************************************)
Takes(q) ==
    LET p == Head(query[q].input) IN
    /\ query[q].state = "open" /\ query[q].works = 0 /\ query[q].input # <<>>
    /\ query' = [query EXCEPT ![q].works = p, ![q].input = Tail(@), ![q].knows = @ \union {p},
                              ![q].told = IF @ # 0 THEN @ ELSE IF query[q].session # 0 THEN query[q].session
                                          ELSE queries]
    /\ prompts' = [prompts EXCEPT ![p].under = {query[q].mode}, ![p].unknown = history \ query[q].knows]
    /\ UNCHANGED <<stored, history, queries, turn, answers>>

Writes(q) ==
    LET p == query[q].works IN
    /\ p # 0 /\ prompts[p].text < MaxText
    /\ prompts' = [prompts EXCEPT ![p].text = @ + 1, ![p].under = @ \union {query[q].mode}]
    /\ query' = [query EXCEPT ![q].output = Append(@, [kind |-> "text", of |-> p, session |-> query[q].told])]
    /\ UNCHANGED <<stored, history, queries, turn, answers>>

Results(q, kind) ==
    LET p == query[q].works IN
    /\ p # 0 /\ history' = history \union {p}
    /\ prompts' = [prompts EXCEPT ![p].under = @ \union {query[q].mode}]
    /\ query' = [query EXCEPT ![q].works = 0,
                              ![q].output = Append(@, [kind |-> kind, of |-> p, session |-> query[q].told])]
    /\ UNCHANGED <<stored, queries, turn, answers>>

Next ==
    \/ FailsEarly \/ Push \/ Read \/ StreamEnded
    \/ \E mode \in Modes : BeginTurn(mode)
    \/ \E q \in Authorities : CreateRuntime(q) \/ Close(q) \/ StreamFails(q) \/ Takes(q) \/ Writes(q)
    \/ \E q \in Authorities, kind \in {"result", "error"} : Results(q, kind)

Spec == Init /\ [][Next]_vars

-------------------------------------------------------------------------------
\* The state is of the shape the code gives it.
Messages == [kind: {"text", "result", "error"}, of: Nat, session: Nat]
Queries == [state: {"none", "open", "ended"}, session: Nat, input: Seq(Nat), output: Seq(Messages),
            works: Nat, told: Nat, knows: SUBSET Nat, mode: Modes \union {"none"}, left: BOOLEAN]
Turns == {NoTurn} \union [step: {"settings"}, of: Authorities, mode: Modes]
         \union [step: {"reading"}, of: Authorities, mode: Modes, prompt: Nat]
Prompts == [mode: Modes, under: SUBSET (Modes \union {"none"}), unknown: SUBSET Nat, text: Nat,
            alone: BOOLEAN]

TypeOK ==
    /\ stored \in Nat /\ history \subseteq Nat /\ queries \in Nat
    /\ query \in [Authorities -> Queries]
    /\ turn \in Turns /\ prompts \in Seq(Prompts)
    /\ answers \subseteq [to: DOMAIN prompts, of: Nat]

\* A turn's answer is the result of its own prompt, unless an earlier turn of
\* the same query was given up over a message.
AnswersAreOwn == \A r \in answers : prompts[r.to].alone => r.of = r.to

\* With the same exception, a prompt runs in the mode of its turn from its
\* first to its last message.
ModesAreOwn == \A p \in DOMAIN prompts : prompts[p].alone => prompts[p].under \subseteq {prompts[p].mode}

\* An agent that has used one query only has all its past before it; what a
\* second one was not told is what the first did after it was created.
OneQueryKnowsAll == queries = 1 => \A p \in DOMAIN prompts : prompts[p].unknown = {}

\* What a turn of Claude answers, may do and knows is its own.
TurnsAreTheirOwn == AnswersAreOwn /\ ModesAreOwn /\ OneQueryKnowsAll

(***************************************************************************)
(* What this rests on: whose prompts a query has before it.                *)
(***************************************************************************)
Reads(q) == turn.step = "reading" /\ turn.of = q
InStream(q) ==
    {query[q].input[i] : i \in DOMAIN query[q].input} \union ({query[q].works} \ {0})
    \union {query[q].output[i].of : i \in DOMAIN query[q].output}

\* A query that nobody was given up over has its turn's prompt before it, and
\* one that somebody was, only prompts that do not count as alone.
StreamIsOwn(q) ==
    \A p \in InStream(q) :
        /\ p \in DOMAIN prompts
        /\ IF query[q].left THEN ~prompts[p].alone
           ELSE IF Reads(q) THEN p = turn.prompt ELSE query[q].state = "ended"

\* Such a query takes a prompt, works on it, and has ended it, one after the other.
OneAtATime(q) ==
    LET input == query[q].input   output == query[q].output IN
    ~query[q].left =>
        /\ input # <<>> => Len(input) = 1 /\ output = <<>> /\ query[q].works = 0
        /\ \A i \in DOMAIN output : output[i].kind # "text" =>
              i = Len(output) /\ input = <<>> /\ query[q].works = 0
WorksWhileOpen(q) == query[q].works # 0 => query[q].state = "open"

TurnIsPlaced ==
    /\ turn # NoTurn => query[turn.of].state # "none"
    /\ turn.step = "reading" =>
          /\ turn.prompt \in DOMAIN prompts
          /\ prompts[turn.prompt].mode = turn.mode /\ query[turn.of].mode = turn.mode
          /\ prompts[turn.prompt].alone => ~query[turn.of].left

\* The first query knows what has happened, because it is all its own.
FirstKnows ==
    /\ queries = 0 => history = {} /\ \A q \in Authorities : query[q].state = "none"
    /\ queries <= 1 => \A p \in DOMAIN prompts : prompts[p].unknown = {}
    /\ queries = 1 => \A q \in Authorities : query[q].state # "none" =>
          /\ history \subseteq query[q].knows
          /\ query[q].works # 0 => query[q].works \in query[q].knows
          /\ \A o \in Authorities \ {q} : query[o].state = "none"

ClaudeInv ==
    /\ \A q \in Authorities : StreamIsOwn(q) /\ OneAtATime(q) /\ WorksWhileOpen(q)
    /\ TurnIsPlaced /\ FirstKnows /\ AnswersAreOwn /\ ModesAreOwn
===============================================================================
