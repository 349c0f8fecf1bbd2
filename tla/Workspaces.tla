------------------------------- MODULE Workspaces ------------------------------
(***************************************************************************)
(* Opening one project directory from several conversations: workspaces.ts *)
(* with the rows of workspace-store.ts, and the tool call of server.ts     *)
(* around it.  The server is one process, as the docs ask; what follows an *)
(* await is a step of its own.  Somebody else may remove and make the      *)
(* directory at any moment: dir counts its incarnations, 0 is none.        *)
(***************************************************************************)
EXTENDS Naturals, Sequences, SequencesExt

CONSTANTS
    Scopes,         \* conversations
    Calls,          \* calls of open_workspace
    MaxCached,      \* MAX_CACHED_WORKSPACES
    MaxDirs, MaxSessions,   \* bounds
    None

VARIABLES
    dir, made,  \* the directory, and how often it was made
    sessions,   \* workspace_sessions, by number: the incarnation each was opened on
    binding,    \* workspace_conversation_bindings; 0 is none
    cache,      \* WorkspaceRegistry.workspaces, least recently used first
    pending,    \* pendingCheckoutOpens
    call,       \* per call of open_workspace
    replies     \* history: the answers that were given

vars == <<dir, made, sessions, binding, cache, pending, call, replies>>

NoCall == [step |-> "new", scope |-> None, create |-> FALSE, previous |-> 0, missing |-> 0,
           session |-> 0, context |-> FALSE]

Init ==
    /\ dir = 1 /\ made = 1 /\ sessions = <<>> /\ binding = [s \in Scopes |-> 0] /\ cache = <<>>
    /\ pending = [s \in Scopes |-> None] /\ call = [c \in Calls |-> NoCall] /\ replies = {}

(***************************************************************************)
(* The cache: rememberWorkspace() and the touch of getWorkspace().         *)
(***************************************************************************)
Remember(w) ==
    LET all == Append(SelectSeq(cache, LAMBDA v : v # w), w)
    IN cache' = IF Len(all) > MaxCached THEN Tail(all) ELSE all

\* A tool call on a workspace: a cached one must still be where it was.
GetWorkspace(w) ==
    /\ w \in DOMAIN sessions /\ (Contains(cache, w) => dir # 0) /\ Remember(w)
    /\ UNCHANGED <<dir, made, sessions, binding, pending, call, replies>>

NewSession ==
    /\ Len(sessions) < MaxSessions /\ sessions' = Append(sessions, dir)
    /\ Remember(Len(sessions) + 1)

(***************************************************************************)
(* openWorkspace(): an open for the same conversation and target is shared *)
(***************************************************************************)
\* prepareProjectRoots()
PrepareRoot(create) ==
    /\ dir = 0 => create /\ made < MaxDirs
    /\ dir' = IF dir = 0 THEN made + 1 ELSE dir
    /\ made' = IF dir = 0 THEN made + 1 ELSE made

Becomes(c, r) == call' = [call EXCEPT ![c] = r]

OpenAlone(c, s, create) ==  \* mutant: the open that is under way is not recorded
    /\ call[c].step = "new"
    /\ Becomes(c, [NoCall EXCEPT !.step = "stat", !.scope = s, !.create = create,
                                 !.previous = binding[s]])
    /\ UNCHANGED <<dir, made, sessions, binding, cache, pending, replies>>

Open(c, s, create) ==
    /\ call[c].step = "new"
    /\ IF pending[s] # None
       THEN Becomes(c, [NoCall EXCEPT !.step = "joined", !.scope = s]) /\ UNCHANGED pending
       ELSE /\ pending' = [pending EXCEPT ![s] = c]
            /\ Becomes(c, [NoCall EXCEPT !.step = "stat", !.scope = s, !.create = create,
                                         !.previous = binding[s]])
    /\ UNCHANGED <<dir, made, sessions, binding, cache, replies>>

\* Without a conversation: always a new workspace.
OpenNew(c, create) ==
    /\ call[c].step = "new"
    /\ PrepareRoot(create)
    /\ Becomes(c, [NoCall EXCEPT !.step = "open"])
    /\ UNCHANGED <<sessions, binding, cache, pending, replies>>

Stat(c) ==
    /\ call[c].step = "stat"
    /\ Becomes(c, [call[c] EXCEPT !.step = "prepare", !.missing = IF dir = 0 THEN made ELSE 0])
    /\ UNCHANGED <<dir, made, sessions, binding, cache, pending, replies>>

\* The owner of a shared open is done: who joined it gets its workspace, and
\* no context of its own, or its error.
Settles(c, r) ==
    /\ pending' = [s \in Scopes |-> IF pending[s] = c THEN None ELSE pending[s]]
    /\ call' = [d \in Calls |->
          IF d = c THEN r
          ELSE IF call[d].step = "joined" /\ call[d].scope = r.scope /\ pending[r.scope] = c
          THEN [r EXCEPT !.context = FALSE] ELSE call[d]]

Fails(c) == Settles(c, [call[c] EXCEPT !.step = "failed"])

(***************************************************************************)
(* prepareConversationCheckout() and openConversationCheckout(): the       *)
(* binding seen before a missing directory was made is not reused.         *)
(***************************************************************************)
DropBinding(s) ==
    /\ cache' = SelectSeq(cache, LAMBDA w : w # binding[s])
    /\ binding' = [binding EXCEPT ![s] = 0]

PrepareFirst(c) ==  \* mutant: the directory is made before anyone looks whether it was missing
    LET r == call[c] IN
    /\ r.step = "prepare" /\ PrepareRoot(r.create)
    /\ Becomes(c, [r EXCEPT !.step = IF binding[r.scope] = 0 THEN "open" ELSE "reuse"])
    /\ UNCHANGED <<sessions, cache, binding, pending, replies>>

Prepare(c) ==
    LET r == call[c]  bound == binding[r.scope] IN
    /\ r.step = "prepare" /\ PrepareRoot(r.create)
    /\ IF bound = 0
       THEN Becomes(c, [r EXCEPT !.step = "open"]) /\ UNCHANGED <<cache, binding>>
       ELSE IF r.missing # 0 /\ bound = r.previous
       THEN Becomes(c, [r EXCEPT !.step = "open"]) /\ DropBinding(r.scope)
       ELSE Becomes(c, [r EXCEPT !.step = "reuse"]) /\ UNCHANGED <<cache, binding>>
    /\ UNCHANGED <<sessions, pending, replies>>

PrepareFails(c) ==
    /\ call[c].step = "prepare" /\ dir = 0 /\ ~call[c].create /\ Fails(c)
    /\ UNCHANGED <<dir, made, sessions, binding, cache, replies>>

\* findReusableCheckoutWorkspace(): a directory that is gone is no error here,
FindReusable(c) ==
    /\ call[c].step = "reuse"
    /\ IF dir = 0 THEN Becomes(c, [call[c] EXCEPT !.step = "open"]) /\ DropBinding(call[c].scope)
       ELSE Becomes(c, [call[c] EXCEPT !.step = "get"]) /\ UNCHANGED <<cache, binding>>
    /\ UNCHANGED <<dir, made, sessions, pending, replies>>

\* but one that goes before getWorkspace() looks again is, for a cached one.
Reuse(c) ==
    LET w == binding[call[c].scope] IN
    /\ call[c].step = "get"
    /\ IF Contains(cache, w) /\ dir = 0 THEN Fails(c) /\ UNCHANGED cache
       ELSE /\ Remember(w)
            /\ Settles(c, [call[c] EXCEPT !.step = "opened", !.session = w])
    /\ UNCHANGED <<dir, made, sessions, binding, replies>>

\* openCheckoutWorkspace() and createWorkspaceContext() up to the files it loads.
OpenCheckout(c) ==
    /\ call[c].step = "open"
    /\ IF dir = 0 THEN Fails(c) /\ UNCHANGED <<sessions, cache>>
       ELSE /\ NewSession /\ UNCHANGED pending
            /\ Becomes(c, [call[c] EXCEPT !.step = "load", !.session = Len(sessions) + 1])
    /\ UNCHANGED <<dir, made, binding, replies>>

Bind(c) ==
    /\ call[c].step = "load"
    /\ binding' = IF call[c].scope = None THEN binding
                  ELSE [binding EXCEPT ![call[c].scope] = call[c].session]
    /\ IF call[c].scope = None
       THEN Becomes(c, [call[c] EXCEPT !.step = "opened", !.context = TRUE]) /\ UNCHANGED pending
       ELSE Settles(c, [call[c] EXCEPT !.step = "opened", !.context = TRUE])
    /\ UNCHANGED <<dir, made, sessions, cache, replies>>

LoadFails(c) ==
    /\ call[c].step = "load" /\ Fails(c)
    /\ UNCHANGED <<dir, made, sessions, binding, cache, replies>>

(***************************************************************************)
(* The tool call goes on: the project is entered in the ledger, the        *)
(* Desktop is told, the review point is set, and the answer is given; an   *)
(* error on that way is the answer then.                                   *)
(***************************************************************************)
Answer(c) ==
    /\ call[c].step = "opened" /\ Becomes(c, [call[c] EXCEPT !.step = "answered"])
    /\ replies' = replies \union {[call |-> c, scope |-> call[c].scope, session |-> call[c].session,
                                   missing |-> call[c].missing, context |-> call[c].context]}
    /\ UNCHANGED <<dir, made, sessions, binding, cache, pending>>

AnswerFails(c) ==
    /\ call[c].step = "opened" /\ Becomes(c, [call[c] EXCEPT !.step = "failed"])
    /\ UNCHANGED <<dir, made, sessions, binding, cache, pending, replies>>

Restart ==
    /\ cache' = <<>> /\ pending' = [s \in Scopes |-> None]
    /\ call' = [c \in Calls |-> IF call[c].step \in {"new", "answered"} THEN call[c]
                                ELSE [call[c] EXCEPT !.step = "failed"]]
    /\ UNCHANGED <<dir, made, sessions, binding, replies>>

RemoveDir ==
    /\ dir # 0 /\ dir' = 0
    /\ UNCHANGED <<made, sessions, binding, cache, pending, call, replies>>

MakeDir ==
    /\ dir = 0 /\ made < MaxDirs /\ dir' = made + 1 /\ made' = made + 1
    /\ UNCHANGED <<sessions, binding, cache, pending, call, replies>>

Next ==
    \/ \E c \in Calls :
          \/ \E s \in Scopes, create \in BOOLEAN : Open(c, s, create)
          \/ \E create \in BOOLEAN : OpenNew(c, create)
          \/ Stat(c) \/ Prepare(c) \/ PrepareFails(c) \/ FindReusable(c) \/ Reuse(c)
          \/ OpenCheckout(c) \/ Bind(c) \/ LoadFails(c) \/ Answer(c) \/ AnswerFails(c)
    \/ \E w \in DOMAIN sessions : GetWorkspace(w)
    \/ Restart \/ RemoveDir \/ MakeDir

Spec == Init /\ [][Next]_vars

-------------------------------------------------------------------------------
\* A conversation keeps its workspace: two answers to it name different ones
\* only if the directory went in between, and of one workspace the context is
\* given at most once, however the opens overlap.
ConversationsAreStable ==
    \A r, t \in replies :
        /\ (r.scope = t.scope /\ r.scope # None /\ r.session # t.session)
                => sessions[r.session] # sessions[t.session]
        /\ (r.session = t.session /\ r.context /\ t.context) => r = t

\* An open that found the directory missing answers with a workspace of the new
\* directory, never with the one that was bound to the old.
RemadeMeansNew == \A r \in replies : r.missing # 0 => sessions[r.session] > r.missing

\* What the server tells who reopens a workspace: its instructions were
\* provided before - to an answered call, or one that is being answered.
ReusedMeansProvided ==
    \A r \in replies :
        ~r.context =>
            \/ \E t \in replies : t.session = r.session /\ t.context
            \/ \E c \in Calls : call[c].session = r.session /\ call[c].context /\ call[c].step = "opened"

\* Whoever opens a directory gets the workspace of its conversation, and of the directory
\* that is there now.
OpensAreStable == ConversationsAreStable /\ RemadeMeansNew

(***************************************************************************)
(* Why it holds: the owner of a conversation's open is the only one that   *)
(* changes the binding, and what is not bound any more is of a directory   *)
(* that is gone.                                                           *)
(***************************************************************************)
Steps == {"new", "joined", "stat", "prepare", "reuse", "get", "open", "load",
          "opened", "answered", "failed"}
Active == Steps \ {"new", "joined", "opened", "answered", "failed"}
OpenCall == [step : Steps, scope : Scopes \union {None}, create : BOOLEAN,
             previous : Nat, missing : Nat, session : Nat, context : BOOLEAN]

\* The tables and the calls have the shape the code gives them; a session is
\* opened on a directory that was made, and the one that is there was made last.
TypeOK ==
    /\ made \in Nat \ {0} /\ dir \in {0, made}
    /\ sessions \in Seq(Nat) /\ \A w \in DOMAIN sessions : sessions[w] \in 1 .. made
    /\ binding \in [Scopes -> Nat]
    /\ \A s \in Scopes : binding[s] # 0 => binding[s] \in DOMAIN sessions
    /\ pending \in [Scopes -> Calls \union {None}]
    /\ call \in [Calls -> OpenCall]

Has(c) == call[c].step \in {"opened", "answered"}
Of(c, s) == call[c].scope = s /\ s # None
Incarnation(c) == sessions[call[c].session]

\* An open of a conversation is under way exactly while it is the pending one.
OneOpensAtATime ==
    /\ \A c \in Calls : call[c].step \in Active /\ call[c].scope # None => pending[call[c].scope] = c
    /\ \A s \in Scopes : pending[s] # None => call[pending[s]].step \in Active /\ call[pending[s]].scope = s

\* What each step of an open knows: whether it has a session and gives a context,
\* and that nobody else changed the binding since.
Knows(c) ==
    LET r == call[c] IN
    /\ Has(c) \/ r.step = "load" => r.session \in DOMAIN sessions
    /\ r.context => r.step \in {"opened", "answered", "failed"}
    /\ r.step \in {"joined", "stat", "prepare", "reuse", "get"} => r.scope # None
    /\ r.step \in {"stat", "prepare"} => binding[r.scope] = r.previous
    /\ r.step \in {"reuse", "get"} => binding[r.scope] # 0 /\ r.missing = 0
    /\ r.step \in {"open", "load"} /\ r.scope # None => binding[r.scope] = 0
StepsKnow == \A c \in Calls : Knows(c)

\* A directory that an open found missing is not the one that is there now, nor
\* the one of the session it gets.
FoundMissing(c) ==
    LET r == call[c] IN
    /\ r.step \in {"new", "stat"} => r.missing = 0
    /\ r.step \in {"prepare", "open"} /\ r.missing # 0 => r.missing # dir /\ r.missing <= made
    /\ r.step = "prepare" /\ r.missing # 0 /\ binding[r.scope] # 0
            => sessions[binding[r.scope]] <= r.missing
    /\ (Has(c) \/ r.step = "load") /\ r.missing # 0 => Incarnation(c) > r.missing
MissingIsGone == \A c \in Calls : FoundMissing(c)

\* What a conversation was told and is not bound to is of another directory than
\* what it is bound to, what it will be bound to, and what is there.
UnboundIsOld ==
    \A e \in Calls, s \in Scopes :
        Has(e) /\ Of(e, s) =>
            /\ call[e].session # binding[s] =>
                  /\ Incarnation(e) # dir
                  /\ binding[s] # 0 => Incarnation(e) # sessions[binding[s]]
            /\ \A c \in Calls : call[c].step = "load" /\ Of(c, s) => Incarnation(e) # Incarnation(c)
            /\ \A d \in Calls :
                  Has(d) /\ Of(d, s) /\ call[d].session # call[e].session
                      => Incarnation(e) # Incarnation(d)

\* The context of a session is for the call that made it.
Provides(c) == call[c].step = "load" \/ (Has(c) /\ call[c].context)
ContextIsTheMakers ==
    \A c, d \in Calls :
        Provides(c) /\ Provides(d) /\ call[c].session = call[d].session => c = d

\* An answer is what its call holds.
RepliesAreOfCalls ==
    \A r \in replies :
        /\ r.call \in Calls /\ call[r.call].step = "answered"
        /\ r = [call |-> r.call, scope |-> call[r.call].scope, session |-> call[r.call].session,
                missing |-> call[r.call].missing, context |-> call[r.call].context]

OpensInv ==
    TypeOK /\ OneOpensAtATime /\ StepsKnow /\ MissingIsGone /\ UnboundIsOld
    /\ ContextIsTheMakers /\ RepliesAreOfCalls
===============================================================================
