------------------------------- MODULE TurnSettings -------------------------------
(***************************************************************************)
(* With which model, effort, mode and instructions a turn runs: what a     *)
(* request asks for, what the owner configured for the provider, what a    *)
(* profile file says when it is read -- once when the turn is asked for,   *)
(* once when it runs -- and what the agent's row remembers.  start() gives *)
(* related work to the agent of an earlier one when a signature of these   *)
(* settings agrees.                                                        *)
(*                                                                         *)
(* One workspace, one work item, one context key and one target, a         *)
(* profile; admission and accounting do not touch the settings and are     *)
(* left out.  Efforts are numbers, 0 where none is given.                  *)
(***************************************************************************)
EXTENDS Naturals, FiniteSets

CONSTANTS
    Agents,
    NoModel,
    Configs,        \* what the owner may have configured for the provider
    Profiles,       \* what the profile file may say
    Requests,       \* what a caller may ask for
    MaxNewSessions,
    MaxTurns        \* bound

VARIABLES
    config, profile,
    agent,      \* per agent: its row
    turn,       \* per agent: its turn
    clock       \* rows are found latest first; bounds the turns

vars == <<config, profile, agent, turn, clock>>

NoAgent == [status |-> "none", model |-> NoModel, effort |-> 0, from |-> "none", resumable |-> FALSE,
            signature |-> <<>>, updated |-> 0, changed |-> FALSE]
NoTurn == [step |-> "none"]
Settled == {"idle", "error", "stopped"}

Init ==
    /\ config \in Configs /\ profile \in Profiles
    /\ agent = [a \in Agents |-> NoAgent] /\ turn = [a \in Agents |-> NoTurn]
    /\ clock = 0

(***************************************************************************)
(* Who says what.                                                          *)
(***************************************************************************)
Model(first, second) == IF first # NoModel THEN first ELSE second
Effort(first, second) == IF first # 0 THEN first ELSE second

Mode(r) == IF r.mode # "unset" THEN r.mode ELSE config.mode
ReadOnly(r) == IF Mode(r) = "read_only" THEN config.readOnly ELSE [model |-> NoModel, effort |-> 0]

\* resolveLocalAgentTarget()
Target == [model |-> Model(profile.model, config.model), effort |-> Effort(profile.effort, config.effort)]

\* limitedReasoningEffort()
NoLimit(model) == ~ \E l \in config.limits : l.model = model
Limit(model) == CHOOSE n \in {l.max : l \in {k \in config.limits : k.model = model}} :
                    \A l \in config.limits : l.model = model => n <= l.max
Refuses(model) == config.limits # {} /\ model = NoModel
Limited(model, effort) ==
    IF NoLimit(model) THEN effort
    ELSE IF effort = 0 \/ effort > Limit(model) THEN Limit(model) ELSE effort

(***************************************************************************)
(* begin(): the settings of a turn from the request, the read-only         *)
(* defaults and the defaults d of the target, and the row after it.        *)
(***************************************************************************)
Resolved(r, d) == [model |-> Model(r.model, Model(ReadOnly(r).model, d.model)),
                   effort |-> Effort(r.effort, Effort(ReadOnly(r).effort, d.effort))]

InheritsEffort(row, r, d) ==  \* mutant: what the row remembers comes before the defaults
    LET asked == Resolved(r, d)   model == Model(asked.model, row.model)
    IN Limited(model, Effort(r.effort, Effort(row.effort, asked.effort)))

CapsTheDefaults(row, r, d) ==  \* mutant: the effort that the row remembers is not limited
    LET asked == Resolved(r, d)   model == Model(asked.model, row.model)
    IN IF asked.effort = 0 /\ row.effort # 0 THEN row.effort ELSE Limited(model, asked.effort)

\* An effort within its limit is taken from where it was given, so that the
\* row keeps its own; one that was reduced replaces it.
BegunEffort(row, r, d) ==
    LET asked == Resolved(r, d)   model == Model(asked.model, row.model)
    IN Limited(model, Effort(asked.effort, row.effort))

EffortFrom(row, r, d) ==    \* history: who gave the effort
    IF r.effort # 0 THEN "caller" ELSE IF ReadOnly(r).effort # 0 THEN "read_only"
    ELSE IF d.effort # 0 THEN "target" ELSE row.from

Begun(a, row, r, d, signed) ==
    LET model == Model(Resolved(r, d).model, row.model) IN
    /\ agent' = [agent EXCEPT ![a] =
          [row EXCEPT !.status = "running", !.model = model, !.effort = BegunEffort(row, r, d),
                      !.from = EffortFrom(row, r, d), !.updated = clock + 1]]
    /\ turn' = [turn EXCEPT ![a] = [step |-> "begun", request |-> r, defaults |-> d, signed |-> signed,
                                    changed |-> row.changed, read |-> profile,
                                    input |-> <<>>, from |-> "none", edited |-> FALSE]]
    /\ clock < MaxTurns /\ clock' = clock + 1 /\ UNCHANGED <<config, profile>>

(***************************************************************************)
(* start(): an agent of the same signature is used again, if it has a      *)
(* session and no work; a new one must be within the budget.               *)
(***************************************************************************)
Signature(r) ==
    LET asked == Resolved(r, Target)
    IN <<asked.model, Limited(asked.model, asked.effort), Mode(r), profile.body>>

Related(r) == {a \in Agents : agent[a].status # "none" /\ agent[a].signature = Signature(r)}
Latest(r) == {a \in Related(r) : \A b \in Related(r) : agent[b].updated <= agent[a].updated}
Reusable(r) == {a \in Latest(r) : agent[a].resumable}
Used == {a \in Agents : agent[a].status \notin {"none", "stopped"} \/ agent[a].resumable}

Created(r) == [NoAgent EXCEPT !.model = Target.model, !.effort = Target.effort,
                              !.from = IF Target.effort # 0 THEN "target" ELSE "none",
                              !.signature = Signature(r)]

Start(r) ==
    /\ profile.enabled /\ ~ Refuses(Resolved(r, Target).model)
    /\ \A a \in Latest(r) : agent[a].status \in Settled
    /\ \/ \E a \in Reusable(r) : Begun(a, agent[a], r, Target, Signature(r))
       \/ /\ Reusable(r) = {} /\ Cardinality(Used) < MaxNewSessions
          /\ \E a \in Agents :
                agent[a].status = "none" /\ Begun(a, Created(r), r, Target, Signature(r))

\* continue() of an agent that has no work; begin() may refuse its model.
Continue(a, r) ==
    /\ agent[a].status \in Settled /\ profile.enabled
    /\ ~ Refuses(Model(Resolved(r, Target).model, agent[a].model))
    /\ Begun(a, agent[a], r, Target, <<>>)

ContinueRefused(a, r) ==
    /\ agent[a].status \in Settled /\ profile.enabled
    /\ Refuses(Model(Resolved(r, Target).model, agent[a].model))
    /\ agent' = [agent EXCEPT ![a].status = "stopped"]
    /\ UNCHANGED <<config, profile, turn, clock>>

(***************************************************************************)
(* runTurn(): the profile is read again, and its settings fill what the    *)
(* row leaves open.                                                        *)
(***************************************************************************)
RunTurn(a) ==
    /\ turn[a].step = "begun"
    /\ IF profile.enabled
       THEN /\ turn' = [turn EXCEPT ![a] =
                  [@ EXCEPT !.step = "running", !.from = agent[a].from, !.edited = turn[a].read # profile,
                            !.input = <<Model(agent[a].model, profile.model),
                                        Effort(agent[a].effort, profile.effort),
                                        Mode(turn[a].request), profile.body>>]]
            /\ UNCHANGED agent
       ELSE /\ turn' = [turn EXCEPT ![a] = NoTurn]
            /\ agent' = [agent EXCEPT ![a].status = "error", ![a].changed = TRUE]
    /\ UNCHANGED <<config, profile, clock>>

CompletesUnsigned(a) ==  \* mutant: the signature of the agent's first turn stays
    /\ turn[a].step = "running" /\ turn' = [turn EXCEPT ![a] = NoTurn]
    /\ agent' = [agent EXCEPT ![a] = [@ EXCEPT !.status = "idle", !.resumable = TRUE, !.changed = FALSE]]
    /\ UNCHANGED <<config, profile, clock>>

\* finishTurn() signs what the turn ran with; a turn that fails leaves the
\* signature as it was, and may have opened the session.
Completes(a) ==
    /\ turn[a].step = "running" /\ turn' = [turn EXCEPT ![a] = NoTurn]
    /\ agent' = [agent EXCEPT ![a] = [@ EXCEPT !.status = "idle", !.resumable = TRUE,
                                               !.signature = turn[a].input, !.changed = FALSE]]
    /\ UNCHANGED <<config, profile, clock>>

Fails(a) ==
    /\ turn[a].step = "running" /\ turn' = [turn EXCEPT ![a] = NoTurn]
    /\ \E opened \in BOOLEAN :
          agent' = [agent EXCEPT ![a] = [@ EXCEPT !.status = "error", !.changed = TRUE,
                                                  !.resumable = agent[a].resumable \/ opened]]
    /\ UNCHANGED <<config, profile, clock>>

\* Somebody edits the profile file.
Edit ==
    /\ \E p \in Profiles : profile' = p
    /\ UNCHANGED <<config, agent, turn, clock>>

Next ==
    \/ Edit
    \/ \E r \in Requests : Start(r) \/ \E a \in Agents : Continue(a, r) \/ ContinueRefused(a, r)
    \/ \E a \in Agents : RunTurn(a) \/ Completes(a) \/ Fails(a)

Spec == Init /\ [][Next]_vars

-------------------------------------------------------------------------------
Runs == {a \in Agents : turn[a].step = "running"}

\* No turn runs with more effort than its model may use, whoever asked for it
\* and however old what the row remembers is.
LimitsHold ==
    \A a \in Runs : LET i == turn[a].input IN i[2] = Limited(i[1], i[2])

\* A turn that asks for no effort runs with the default of its kind, if there
\* is one, and not with that of an earlier turn.
DefaultsAreOfTheTurn ==
    \A a \in Runs :
        LET t == turn[a]   own == Resolved(t.request, t.defaults).effort
        IN own # 0 => t.input[2] = Limited(t.input[1], own)

\* An instance whose owner gave the provider no defaults but a light effort for read-only
\* turns.  Efforts are 0 for none, 1 for low to 3 for high.
LightWhenReadOnly ==
    {[mode |-> "allowed", model |-> NoModel, effort |-> 0,
      readOnly |-> [model |-> NoModel, effort |-> 1], limits |-> {}]}
PlainProfile == {[enabled |-> TRUE, model |-> NoModel, effort |-> 0, body |-> 1]}
AnyMode == [model : {NoModel}, effort : {0}, mode : {"unset", "read_only"}]

\* "A previous read-only turn does not carry its lighter effort into
\* development."
ReadOnlyEffortEnds ==
    \A a \in Runs : Mode(turn[a].request) # "read_only" => turn[a].from # "read_only"

\* An agent is used again for settings with which its last turn completed: the
\* turn runs with what the request was signed for, unless the profile is edited
\* before it runs, or turns of the agent failed since.
ReuseIsCompatible ==
    \A a \in Runs :
        LET t == turn[a] IN
        t.signed # <<>> /\ ~ t.edited /\ ~ t.changed => t.input = t.signed

\* A turn runs with the settings of its request, within the limits of the owner.
SettingsAreOfTheTurn == LimitsHold /\ DefaultsAreOfTheTurn /\ ReuseIsCompatible

\* "Matching idle sessions are reused only within ... compatible
\* model/effort/permissions/profile."
FailuresKeepReuseCompatible ==
    \A a \in Runs :
        LET t == turn[a] IN t.signed # <<>> /\ ~ t.edited => t.input = t.signed

-------------------------------------------------------------------------------
(***************************************************************************)
(* The inductive invariant under SettingsAreOfTheTurn: what the row of an  *)
(* agent says while it has a turn, and what it keeps after one.            *)
(***************************************************************************)
TypeOK ==
    /\ config \in Configs /\ profile \in Profiles
    /\ DOMAIN agent = Agents /\ DOMAIN turn = Agents
    /\ \A a \in Agents :
         /\ DOMAIN agent[a] = DOMAIN NoAgent
         /\ agent[a].status \in Settled \union {"none", "running"}
         /\ \/ turn[a] = NoTurn
            \/ /\ DOMAIN turn[a] = {"step", "request", "defaults", "signed", "changed", "read",
                                    "input", "from", "edited"}
               /\ turn[a].step \in {"begun", "running"} /\ agent[a].status = "running"

\* Where there are limits, a turn has a model, and its effort is within them.
RowIsLimited(a) ==
    /\ config.limits # {} => agent[a].model # NoModel
    /\ agent[a].effort = Limited(agent[a].model, agent[a].effort)

RowHasDefault(a) ==
    LET own == Resolved(turn[a].request, turn[a].defaults).effort
    IN own # 0 => agent[a].effort = Limited(agent[a].model, own)

\* What a row and a profile make of a turn.
FilledModel(a, p) == Model(agent[a].model, p.model)
FilledEffort(a, p) == Effort(agent[a].effort, p.effort)
Filled(a, p) == <<FilledModel(a, p), FilledEffort(a, p), Mode(turn[a].request), p.body>>

RowIsAsSigned(a) ==
    LET t == turn[a] IN
    t.signed # <<>> /\ ~ t.changed => Filled(a, t.read) = t.signed

RowIsOfTurn(a) ==
    turn[a] # NoTurn => RowIsLimited(a) /\ RowHasDefault(a) /\ RowIsAsSigned(a)

InputIsFilled(a) ==
    turn[a].step = "running" =>
        \E p \in Profiles : turn[a].input = Filled(a, p) /\ turn[a].edited = (turn[a].read # p)

\* After a turn that completed, the signature is what the row and the profile
\* of that turn made of it.
SignatureIsOfRow(a) ==
    agent[a].status \in Settled /\ ~ agent[a].changed =>
        \E p \in Profiles : /\ agent[a].signature[1] = FilledModel(a, p)
                            /\ agent[a].signature[2] = FilledEffort(a, p)

SettingsInv == \A a \in Agents : RowIsOfTurn(a) /\ InputIsFilled(a) /\ SignatureIsOfRow(a)
===============================================================================
