---------------------------- MODULE Drivers_proofs ----------------------------
(***************************************************************************)
(* The safety of drivers of provider processes, for any number of agents,  *)
(* processes, sessions and prompts.  Each is proved by itself, and then of *)
(* the sum of them that Providers is.                                      *)
(***************************************************************************)
EXTENDS Providers, FiniteSetTheorems, TLAPS

-------------------------------------------------------------------------------
\* What a sequence is after one more element.
LEMMA AppendedIsLast ==
  ASSUME NEW S, NEW s \in Seq(S), NEW e \in S
  PROVE  /\ Append(s, e) \in Seq(S)
         /\ Len(s) + 1 \notin DOMAIN s
         /\ DOMAIN Append(s, e) = (DOMAIN s) \union {Len(s) + 1}
         /\ \A n \in DOMAIN s : Append(s, e)[n] = s[n]
         /\ Append(s, e)[Len(s) + 1] = e
OBVIOUS

\* A sequence one of whose elements is replaced.
LEMMA ReplacedKeepsType ==
  ASSUME NEW S, NEW s \in Seq(S), NEW i \in DOMAIN s, NEW e \in S
  PROVE  [s EXCEPT ![i] = e] \in Seq(S) /\ DOMAIN [s EXCEPT ![i] = e] = DOMAIN s
OBVIOUS

LEMMA TellingKeepsType ==
  ASSUME O!TypeOK, NEW c \in DOMAIN children
  PROVE  O!Told(c) \in Seq(O!Children) /\ DOMAIN O!Told(c) = DOMAIN children
<1>. DEFINE e == [children[c] EXCEPT !.told = TRUE]
<1>1. children \in Seq(O!Children)
  BY DEF O!TypeOK
<1>2. e \in O!Children
  <2>1. children[c] \in O!Children
    BY <1>1
  <2>. QED
    BY <2>1 DEF O!Children
<1>3. O!Told(c) = [children EXCEPT ![c] = e]
  BY DEF O!Told
<1>. HIDE DEF e
<1>. QED
  BY <1>1, <1>2, <1>3, ReplacedKeepsType

LEMMA LaunchKeepsType ==
  ASSUME O!TypeOK, NEW n \in 1 .. O!OPENCODE_SERVER_START_ATTEMPTS, O!Launch(n)
  PROVE  /\ children' \in Seq(O!Children) /\ DOMAIN children \subseteq DOMAIN children'
         /\ start' \in O!Starts /\ start'.child \in DOMAIN children'
<1>. DEFINE e == [running |-> TRUE, told |-> FALSE]
<1>1. e \in O!Children /\ children \in Seq(O!Children)
  BY DEF O!Children, O!TypeOK
<1>2. children' = Append(children, e)
  BY DEF O!Launch
<1>. HIDE DEF e
<1>3. /\ children' \in Seq(O!Children) /\ DOMAIN children \subseteq DOMAIN children'
      /\ Len(children) + 1 \in DOMAIN children' /\ Len(children) + 1 \in Nat
  BY <1>1, <1>2, AppendedIsLast
<1>. QED
  BY <1>3 DEF O!Launch, O!Starts

\* A turn that goes on with another state of the right shape.
LEMMA TurnKeepsType ==
  ASSUME ocTurn \in [Agents -> O!Turns], NEW a, NEW t \in O!Turns
  PROVE  [ocTurn EXCEPT ![a] = t] \in [Agents -> O!Turns]
OBVIOUS

LEMMA SameLengthIsSequence ==
  ASSUME NEW S, NEW s \in Seq(S), NEW f \in [DOMAIN s -> S]
  PROVE  f \in Seq(S)
OBVIOUS

LEMMA PromptsAreTyped ==
  ASSUME O!TypeOK, NEW p \in DOMAIN ocPrompts
  PROVE  ocPrompts[p] \in O!Prompts /\ ocPrompts[p].agent \in Agents
<1>1. ocPrompts[p] \in O!Prompts
  BY DEF O!TypeOK
<1>. QED
  BY <1>1 DEF O!Prompts

\* Prompts of which some are over by now.
Same(p) ==
    /\ ocPrompts'[p].agent = ocPrompts[p].agent /\ ocPrompts'[p].session = ocPrompts[p].session
    /\ ocPrompts'[p].server = ocPrompts[p].server
KeptPrompts ==
    /\ DOMAIN ocPrompts' = DOMAIN ocPrompts
    /\ \A p \in DOMAIN ocPrompts : Same(p)

\* Those of S are over.
Over(S, s) ==
    ocPrompts' = [p \in DOMAIN ocPrompts |->
                    IF p \in S THEN [ocPrompts[p] EXCEPT !.state = s] ELSE ocPrompts[p]]

LEMMA PromptsAreClosed ==
  ASSUME O!TypeOK, NEW s \in {"broken", "aborted", "answered", "given_up"}, NEW S \in SUBSET DOMAIN ocPrompts,
         Over(S, s)
  PROVE  /\ ocPrompts' \in Seq(O!Prompts) /\ KeptPrompts
         /\ \A p \in S : ocPrompts'[p].state = s
         /\ \A p \in (DOMAIN ocPrompts) \ S : ocPrompts'[p] = ocPrompts[p]
<1>1. ASSUME NEW p \in DOMAIN ocPrompts
      PROVE  /\ ocPrompts'[p] \in O!Prompts /\ Same(p)
             /\ p \in S => ocPrompts'[p].state = s
             /\ p \notin S => ocPrompts'[p] = ocPrompts[p]
  <2>1. ocPrompts[p] \in O!Prompts
    BY PromptsAreTyped
  <2>2. CASE p \in S
    <3>1. ocPrompts'[p] = [ocPrompts[p] EXCEPT !.state = s]
      BY <2>2 DEF Over
    <3>. QED
      BY <2>1, <2>2, <3>1 DEF O!Prompts, Same
  <2>3. CASE p \notin S
    BY <2>1, <2>3 DEF Same, Over
  <2>. QED
    BY <2>2, <2>3
<1>2. ocPrompts' \in [DOMAIN ocPrompts -> O!Prompts] /\ DOMAIN ocPrompts' = DOMAIN ocPrompts
  BY <1>1 DEF Over
<1>3. ocPrompts' \in Seq(O!Prompts)
  <2>1. ocPrompts \in Seq(O!Prompts)
    BY DEF O!TypeOK
  <2>. QED
    BY <1>2, <2>1, SameLengthIsSequence
<1>. QED
  BY <1>1, <1>2, <1>3 DEF KeptPrompts

\* What becomes of the prompt that a turn waits for.
Waiting(a) == IF ocTurn[a].step = "prompt" /\ ocPrompts[ocTurn[a].prompt].state = "working"
              THEN {ocTurn[a].prompt} ELSE {}
PromptIs(a, s) == Over(Waiting(a), s)

LEMMA TurnsEndSo ==
  ASSUME O!TypeOK, O!OpencodeInv, NEW a \in Agents
  PROVE  /\ Waiting(a) \subseteq DOMAIN ocPrompts
         /\ O!TransportFails(a) => PromptIs(a, "broken")
         /\ O!EndTurn(a) => PromptIs(a, "answered")
         /\ O!PromptTimesOut(a) => PromptIs(a, "given_up")
<1>. DEFINE q == ocTurn[a].prompt
<1>0. ocTurn[a].step = "prompt" => q \in DOMAIN ocPrompts
  BY DEF O!OpencodeInv, O!TurnsAwaitTheirOwn
<1>1. Waiting(a) \subseteq DOMAIN ocPrompts
  BY <1>0 DEF Waiting
<1>2. O!TransportFails(a) => PromptIs(a, "broken")
  BY <1>0 DEF O!TransportFails, PromptIs, Waiting, Over
<1>3. \A p \in DOMAIN ocPrompts : ocPrompts[p] \in O!Prompts
  BY PromptsAreTyped
<1>4. ocPrompts \in [DOMAIN ocPrompts -> O!Prompts]
  BY <1>3 DEF O!TypeOK
<1>5. O!EndTurn(a) => PromptIs(a, "answered")
  BY <1>0, <1>4 DEF O!EndTurn, PromptIs, Waiting, Over
<1>6. ASSUME O!PromptTimesOut(a) PROVE PromptIs(a, "given_up")
  <2>1. CASE ocPrompts[q].state = "working"
    BY <1>0, <1>4, <1>6, <2>1 DEF O!PromptTimesOut, PromptIs, Waiting, Over
  <2>2. CASE ocPrompts[q].state # "working"
    <3>1. ocPrompts' = [ocPrompts EXCEPT ![q].state = ocPrompts[q].state]
      BY <1>6, <2>2 DEF O!PromptTimesOut
    <3>2. [ocPrompts[q] EXCEPT !.state = ocPrompts[q].state] = ocPrompts[q]
      BY <1>0, <1>3, <1>6 DEF O!PromptTimesOut, O!Prompts
    <3>. QED
      BY <1>0, <1>4, <2>2, <3>1, <3>2 DEF PromptIs, Waiting, Over
  <2>. QED
    BY <2>1, <2>2
<1>. QED
  BY <1>1, <1>2, <1>5, <1>6

LEMMA OpencodeTypeIsInductive ==
  ASSUME O!TypeOK, O!OpencodeInv, [O!Next]_O!vars
  PROVE  O!TypeOK'
<1>. USE DEF O!TypeOK
<1>1. ASSUME O!CreateRuntime PROVE O!TypeOK'
  BY <1>1, LaunchKeepsType DEF O!CreateRuntime, O!OPENCODE_SERVER_START_ATTEMPTS
<1>2. ASSUME O!Listens PROVE O!TypeOK'
  BY <1>2 DEF O!Listens, O!Idle, O!Starts
<1>3. ASSUME O!AttemptFails PROVE O!TypeOK'
  <2>1. start # O!Idle /\ start.step = "launching" /\ start' = [start EXCEPT !.step = "probing"]
    BY <1>3 DEF O!AttemptFails, O!Idle
  <2>2. start' \in O!Starts /\ start'.child = start.child
    BY <2>1 DEF O!Starts
  <2>. QED
    BY <1>3, <2>1, <2>2, TellingKeepsType DEF O!AttemptFails
<1>4. ASSUME O!Relaunch PROVE O!TypeOK'
  <2>1. start.attempt + 1 \in 1 .. O!OPENCODE_SERVER_START_ATTEMPTS
    BY <1>4 DEF O!Relaunch, O!Starts, O!Idle, O!OPENCODE_SERVER_START_ATTEMPTS
  <2>. QED
    BY <1>4, <2>1, LaunchKeepsType DEF O!Relaunch
<1>5. ASSUME O!StartFails PROVE O!TypeOK'
  BY <1>5 DEF O!StartFails, O!Starts
<1>6. ASSUME O!Close PROVE O!TypeOK'
  <2>1. ocRuntime.child \in DOMAIN children
    BY <1>6 DEF O!Close
  <2>2. ocPrompts' \in Seq(O!Prompts)
    <3>. DEFINE S == {p \in DOMAIN ocPrompts : ocPrompts[p].server = ocRuntime.child /\ ocPrompts[p].state = "working"}
    <3>1. Over(S, "aborted") /\ S \in SUBSET DOMAIN ocPrompts
      BY <1>6 DEF O!Close, Over
    <3>. HIDE DEF S
    <3>. QED
      BY <3>1, PromptsAreClosed
  <2>3. ocTurn' \in [Agents -> O!Turns]
    BY <1>6 DEF O!Close, O!NoTurn, O!Turns
  <2>. QED
    BY <1>6, <2>1, <2>2, <2>3, TellingKeepsType DEF O!Close, O!NoRuntime
<1>7. ASSUME NEW c \in DOMAIN children, O!ChildExits(c) PROVE O!TypeOK'
  <2>. DEFINE e == [children[c] EXCEPT !.running = FALSE]
  <2>1. e \in O!Children
    <3>1. children[c] \in O!Children
      OBVIOUS
    <3>. QED
      BY <3>1 DEF O!Children
  <2>2. children' = [children EXCEPT ![c] = e]
    BY <1>7 DEF O!ChildExits
  <2>. HIDE DEF e
  <2>3. children' \in Seq(O!Children) /\ DOMAIN children' = DOMAIN children
    BY <2>1, <2>2, ReplacedKeepsType
  <2>. QED
    BY <1>7, <2>3 DEF O!ChildExits
<1>8. ASSUME NEW a \in Agents, O!BeginTurn(a) PROVE O!TypeOK'
  <2>1. [step |-> "health", server |-> ocRuntime.child] \in O!Turns
    BY DEF O!Turns
  <2>2. ocTurn' \in [Agents -> O!Turns]
    BY <1>8, <2>1, TurnKeepsType DEF O!BeginTurn
  <2>. QED
    BY <1>8, <2>2 DEF O!BeginTurn
<1>9. ASSUME NEW a \in Agents, O!Healthy(a) PROVE O!TypeOK'
  <2>1. ocStored[a] \in Nat /\ ocSessions' \in Nat /\ ocTurn[a].server \in Nat
    BY <1>9 DEF O!Healthy, O!Turns, O!NoTurn
  <2>2. \A n \in Nat : [step |-> "announce", server |-> ocTurn[a].server, session |-> n] \in O!Turns
    BY <2>1 DEF O!Turns
  <2>3. \E n \in Nat : O!Announces(a, n)
    BY <1>9, <2>1 DEF O!Healthy
  <2>4. ocTurn' \in [Agents -> O!Turns]
    BY <2>2, <2>3, TurnKeepsType DEF O!Announces
  <2>. QED
    BY <1>9, <2>1, <2>4 DEF O!Healthy
<1>10. ASSUME NEW a \in Agents, O!TurnFails(a) PROVE O!TypeOK'
  BY <1>10, TurnKeepsType DEF O!TurnFails, O!Ends, O!Turns
<1>11. ASSUME NEW a \in Agents, O!TransportFails(a) \/ O!EndTurn(a) \/ O!PromptTimesOut(a) PROVE O!TypeOK'
  <2>1. \E s \in {"broken", "answered", "given_up"} : PromptIs(a, s)
    BY <1>11, TurnsEndSo
  <2>2. ocPrompts' \in Seq(O!Prompts)
    BY <2>1, TurnsEndSo, PromptsAreClosed DEF PromptIs
  <2>3. ocTurn' \in [Agents -> O!Turns]
    BY <1>11, TurnKeepsType DEF O!TransportFails, O!EndTurn, O!PromptTimesOut, O!Ends, O!Turns
  <2>. QED
    BY <1>11, <2>2, <2>3 DEF O!TransportFails, O!EndTurn, O!PromptTimesOut
<1>12. ASSUME NEW a \in Agents, O!Send(a) PROVE O!TypeOK'
  <2>. DEFINE u == ocTurn[a].server
              e == [agent |-> a, session |-> ocTurn[a].session, server |-> u,
                    state |-> IF O!Up(u) THEN "working" ELSE "lost"]
  <2>1. ocTurn[a].session \in Nat /\ u \in Nat
    BY <1>12 DEF O!Send, O!Turns, O!NoTurn
  <2>2. e \in O!Prompts /\ ocPrompts \in Seq(O!Prompts)
    BY <2>1 DEF O!Prompts
  <2>3. ocPrompts' = Append(ocPrompts, e)
    BY <1>12 DEF O!Send, O!Sends
  <2>. HIDE DEF e
  <2>4. ocPrompts' \in Seq(O!Prompts)
    BY <2>2, <2>3, AppendedIsLast
  <2>5. [step |-> "prompt", server |-> u, session |-> ocTurn[a].session, prompt |-> Len(ocPrompts) + 1] \in O!Turns
    BY <2>1, <2>2 DEF O!Turns
  <2>6. ocTurn' \in [Agents -> O!Turns] /\ ocStored' \in [Agents -> Nat]
    BY <1>12, <2>1, <2>5, TurnKeepsType DEF O!Send, O!Sends
  <2>. QED
    BY <1>12, <2>4, <2>6 DEF O!Send
<1>14. ASSUME UNCHANGED O!vars PROVE O!TypeOK'
  BY <1>14 DEF O!vars
<1>. QED
  BY <1>1, <1>2, <1>3, <1>4, <1>5, <1>6, <1>7, <1>8, <1>9, <1>10, <1>11, <1>12, <1>14
     DEF O!Next

\* Of the servers: what is told stays told, what was launched is waited for.
LEMMA ServersAreKept ==
  ASSUME O!TypeOK, O!OpencodeInv, [O!Next]_O!vars
  PROVE  O!OneRuntime' /\ O!TurnsAreServed' /\ O!NoServerIsLost'
<1>. DEFINE Kept == O!OneRuntime' /\ O!TurnsAreServed' /\ O!NoServerIsLost'
<1>. USE DEF O!TypeOK, O!OpencodeInv, O!OneRuntime, O!TurnsAreServed, O!NoServerIsLost, O!Up
<1>0. ASSUME UNCHANGED <<ocRuntime, ocTurn>>, DOMAIN children \subseteq DOMAIN children',
             \A c \in DOMAIN children : children[c].told => children'[c].told
      PROVE  O!TurnsAreServed'
  BY <1>0 DEF O!OnRuntime
<1>1. ASSUME NEW n \in Nat, O!Launch(n), ~ocRuntime.open, UNCHANGED <<ocRuntime, ocTurn>>,
             start.step # "launching"
      PROVE  Kept
  <2>1. /\ DOMAIN children' = (DOMAIN children) \union {Len(children) + 1}
        /\ \A c \in DOMAIN children : children'[c] = children[c]
    BY <1>1 DEF O!Launch
  <2>2. start'.step = "launching" /\ start'.child = Len(children) + 1
    BY <1>1 DEF O!Launch
  <2>. QED
    BY <1>0, <1>1, <2>1, <2>2
<1>2. ASSUME O!CreateRuntime PROVE Kept
  BY <1>1, <1>2 DEF O!CreateRuntime, O!Idle
<1>3. ASSUME O!Listens PROVE Kept
  <2>1. ~ocRuntime.open /\ ocRuntime'.open /\ ocRuntime'.child = start.child
    BY <1>3 DEF O!Listens, O!Idle
  <2>. QED
    BY <1>3, <2>1 DEF O!Listens, O!Idle, O!OnRuntime
<1>4. ASSUME O!AttemptFails PROVE Kept
  <2>1. /\ start # O!Idle /\ start'.step = "probing" /\ start'.child = start.child
    BY <1>4 DEF O!AttemptFails, O!Idle, O!Starts
  <2>2. /\ DOMAIN children' = DOMAIN children
        /\ \A c \in DOMAIN children : children[c] \in O!Children
        /\ \A c \in DOMAIN children \ {start.child} : children'[c] = children[c]
    BY <1>4 DEF O!AttemptFails, O!Told
  <2>3. children'[start.child].told
    BY <1>4, <2>1, <2>2 DEF O!AttemptFails, O!Told, O!Children
  <2>. QED
    BY <1>0, <1>4, <2>1, <2>2, <2>3 DEF O!AttemptFails
<1>5. ASSUME O!Relaunch PROVE Kept
  BY <1>1, <1>5 DEF O!Relaunch, O!Starts, O!Idle, O!OPENCODE_SERVER_START_ATTEMPTS
<1>6. ASSUME O!StartFails PROVE Kept
  BY <1>0, <1>6 DEF O!StartFails, O!Idle
<1>7. ASSUME O!Close PROVE Kept
  <2>1. ocRuntime.child \in DOMAIN children /\ ocRuntime' = O!NoRuntime /\ start' = start
    BY <1>7 DEF O!Close
  <2>2. /\ DOMAIN children' = DOMAIN children
        /\ \A c \in DOMAIN children : children[c] \in O!Children
        /\ \A c \in DOMAIN children \ {ocRuntime.child} : children'[c] = children[c]
    BY <1>7 DEF O!Close, O!Told
  <2>3. children'[ocRuntime.child].told
    BY <1>7, <2>1, <2>2 DEF O!Close, O!Told, O!Children
  <2>4. ~ocRuntime'.open
    BY <2>1 DEF O!NoRuntime
  <2>5. \A a \in Agents : ocTurn'[a] = O!NoTurn \/ ocTurn'[a] = ocTurn[a]
    BY <1>7 DEF O!Close
  <2>6. O!TurnsAreServed'
    <3>1. ASSUME NEW a \in Agents, ocTurn'[a] # O!NoTurn
          PROVE  ocTurn'[a].server \in DOMAIN children' /\ children'[ocTurn'[a].server].told
      <4>1. ocTurn'[a] = ocTurn[a] /\ ocTurn[a] # O!NoTurn
        BY <2>5, <3>1
      <4>2. /\ ocTurn[a].server \in DOMAIN children
            /\ children[ocTurn[a].server].told \/ ocTurn[a].server = ocRuntime.child
        BY <4>1 DEF O!OnRuntime
      <4>. QED
        BY ONLY <2>2, <2>3, <4>1, <4>2
    <3>. QED
      BY ONLY <3>1 DEF O!TurnsAreServed
  <2>. QED
    BY <2>1, <2>2, <2>3, <2>4, <2>6
<1>8. ASSUME NEW c \in DOMAIN children, O!ChildExits(c) PROVE Kept
  <2>1. /\ DOMAIN children' = DOMAIN children
        /\ \A x \in DOMAIN children : children[x] \in O!Children
        /\ \A x \in DOMAIN children \ {c} : children'[x] = children[x]
    BY <1>8 DEF O!ChildExits
  <2>2. ~children'[c].running
    BY <1>8, <2>1 DEF O!ChildExits, O!Children
  <2>3. children'[c].told = children[c].told
    BY <1>8, <2>1 DEF O!ChildExits, O!Children
  <2>. QED
    BY <1>0, <1>8, <2>1, <2>2, <2>3 DEF O!ChildExits
<1>9. ASSUME NEW a \in Agents, O!BeginTurn(a) PROVE Kept
  BY <1>9 DEF O!BeginTurn, O!OnRuntime
<1>10. ASSUME NEW a \in Agents, O!Healthy(a) PROVE Kept
  <2>1. /\ ocTurn[a] # O!NoTurn /\ ocTurn'[a].server = ocTurn[a].server
        /\ \A b \in Agents \ {a} : ocTurn'[b] = ocTurn[b]
    BY <1>10 DEF O!Healthy, O!Announces, O!NoTurn
  <2>. QED
    BY <1>10, <2>1 DEF O!Healthy, O!OnRuntime
<1>11. ASSUME NEW a \in Agents, O!TransportFails(a) PROVE Kept
  <2>1. /\ ocRuntime'.open = ocRuntime.open /\ ocRuntime'.child = ocRuntime.child
        /\ \A b \in Agents : ocTurn'[b] = O!NoTurn \/ ocTurn'[b] = ocTurn[b]
    BY <1>11 DEF O!TransportFails, O!Ends
  <2>. QED
    BY <1>11, <2>1 DEF O!TransportFails, O!OnRuntime
<1>12. ASSUME NEW a \in Agents, O!TurnFails(a) PROVE Kept
  BY <1>12 DEF O!TurnFails, O!Ends, O!OnRuntime
<1>13. ASSUME NEW a \in Agents, O!Send(a) PROVE Kept
  <2>1. /\ ocTurn[a] # O!NoTurn /\ ocTurn'[a].server = ocTurn[a].server
        /\ \A b \in Agents \ {a} : ocTurn'[b] = ocTurn[b]
    BY <1>13 DEF O!Send, O!Sends, O!NoTurn
  <2>. QED
    BY <1>13, <2>1 DEF O!Send, O!OnRuntime
<1>14. ASSUME NEW a \in Agents, O!EndTurn(a) \/ O!PromptTimesOut(a) PROVE Kept
  BY <1>14 DEF O!EndTurn, O!PromptTimesOut, O!Ends, O!OnRuntime
<1>15. ASSUME UNCHANGED O!vars PROVE Kept
  BY <1>0, <1>15 DEF O!vars
<1>. QED
  BY <1>2, <1>3, <1>4, <1>5, <1>6, <1>7, <1>8, <1>9, <1>10, <1>11, <1>12, <1>13, <1>14, <1>15
     DEF O!Next

\* Of the sessions: an agent has its own before its row says so, and keeps it.
LEMMA SessionsAreKept ==
  ASSUME O!TypeOK, O!OpencodeInv, [O!Next]_O!vars
  PROVE  O!SessionsAreMade' /\ O!AnnouncedAreOwn' /\ O!PromptsAreRecorded'
<1>. DEFINE Kept == O!SessionsAreMade' /\ O!AnnouncedAreOwn' /\ O!PromptsAreRecorded'
<1>. USE DEF O!TypeOK, O!OpencodeInv, O!SessionsAreMade, O!AnnouncedAreOwn, O!PromptsAreRecorded,
             O!Announced
<1>1. ASSUME UNCHANGED <<ocStored, ocSessions>>, KeptPrompts, DOMAIN children \subseteq DOMAIN children',
             \A a \in Agents : ocTurn'[a].step \in {"announce", "prompt"} => ocTurn'[a] = ocTurn[a]
      PROVE  Kept
  <2>1. O!SessionsAreMade'
    BY <1>1
  <2>2. O!PromptsAreRecorded'
    BY <1>1 DEF KeptPrompts, Same
  <2>3. ASSUME NEW a \in Agents, O!Announced(a)'
        PROVE  O!Announced(a) /\ ocTurn'[a] = ocTurn[a]
    BY <1>1, <2>3
  <2>4. O!AnnouncedAreOwn'
    BY <1>1, <2>3
  <2>. QED
    BY <2>1, <2>2, <2>4
<1>2. ASSUME UNCHANGED <<ocTurn, ocStored, ocSessions, ocPrompts>>, DOMAIN children \subseteq DOMAIN children'
      PROVE  Kept
  BY <1>1, <1>2 DEF KeptPrompts, Same
<1>3. ASSUME O!CreateRuntime \/ O!Relaunch PROVE Kept
  <2>1. DOMAIN children \subseteq DOMAIN children'
    BY <1>3 DEF O!CreateRuntime, O!Relaunch, O!Launch
  <2>. QED
    BY <1>2, <1>3, <2>1 DEF O!CreateRuntime, O!Relaunch
<1>4. ASSUME O!Listens \/ O!AttemptFails \/ O!StartFails \/ (\E c \in DOMAIN children : O!ChildExits(c)) PROVE Kept
  <2>1. DOMAIN children \subseteq DOMAIN children'
    BY <1>4 DEF O!Listens, O!AttemptFails, O!StartFails, O!ChildExits, O!Told
  <2>. QED
    BY <1>2, <1>4, <2>1 DEF O!Listens, O!AttemptFails, O!StartFails, O!ChildExits
<1>5. ASSUME O!Close PROVE Kept
  <2>. DEFINE S == {p \in DOMAIN ocPrompts : ocPrompts[p].server = ocRuntime.child /\ ocPrompts[p].state = "working"}
  <2>1. Over(S, "aborted") /\ S \in SUBSET DOMAIN ocPrompts
    BY <1>5 DEF O!Close, Over
  <2>2. KeptPrompts
    <3>. HIDE DEF S
    <3>. QED
      BY <2>1, PromptsAreClosed
  <2>3. DOMAIN children \subseteq DOMAIN children'
    BY <1>5 DEF O!Close, O!Told
  <2>4. \A a \in Agents : ocTurn'[a] = O!NoTurn \/ ocTurn'[a] = ocTurn[a]
    BY <1>5 DEF O!Close
  <2>5. UNCHANGED <<ocStored, ocSessions>>
    BY <1>5 DEF O!Close
  <2>. QED
    BY <1>1, <2>2, <2>3, <2>4, <2>5 DEF O!NoTurn
<1>6. ASSUME NEW a \in Agents, O!BeginTurn(a) \/ O!TurnFails(a) PROVE Kept
  BY <1>1, <1>6 DEF O!BeginTurn, O!TurnFails, O!Ends, O!NoTurn, KeptPrompts, Same
<1>7. ASSUME NEW a \in Agents, O!TransportFails(a) \/ O!EndTurn(a) \/ O!PromptTimesOut(a) PROVE Kept
  <2>1. \E s \in {"broken", "answered", "given_up"} : PromptIs(a, s)
    BY <1>7, TurnsEndSo
  <2>2. KeptPrompts
    BY <2>1, TurnsEndSo, PromptsAreClosed DEF PromptIs
  <2>3. ocTurn' = [ocTurn EXCEPT ![a] = O!NoTurn] /\ UNCHANGED <<children, ocStored, ocSessions>>
    BY <1>7 DEF O!TransportFails, O!EndTurn, O!PromptTimesOut, O!Ends
  <2>. QED
    BY <1>1, <2>2, <2>3 DEF O!NoTurn
<1>8. ASSUME NEW a \in Agents, O!Healthy(a) PROVE Kept
  <2>0. UNCHANGED <<children, ocStored, ocPrompts>>
    BY <1>8 DEF O!Healthy
  <2>1. CASE ocStored[a] # 0 /\ UNCHANGED ocSessions
    <3>1. ocTurn' = [ocTurn EXCEPT ![a] = [step |-> "announce", server |-> ocTurn[a].server, session |-> ocStored[a]]]
      BY <1>8, <2>1 DEF O!Healthy, O!Announces
    <3>2. ocStored[a] \in 1 .. ocSessions
      BY <1>8, <2>1 DEF O!Healthy
    <3>3. \A b \in Agents \ {a} : /\ ocStored[b] # ocStored[a]
                                  /\ O!Announced(b) => ocTurn[b].session # ocStored[a]
      BY <2>1
    <3>. QED
      BY <2>0, <2>1, <3>1, <3>2, <3>3
  <2>2. CASE ocStored[a] = 0 /\ ocSessions' = ocSessions + 1
    <3>1. ocTurn' = [ocTurn EXCEPT ![a] = [step |-> "announce", server |-> ocTurn[a].server, session |-> ocSessions + 1]]
      BY <1>8, <2>2 DEF O!Healthy, O!Announces
    <3>3. \A b \in Agents \ {a} : /\ ocStored[b] # ocSessions + 1
                                  /\ O!Announced(b) => ocTurn[b].session # ocSessions + 1
      OBVIOUS
    <3>. QED
      BY <2>0, <2>2, <3>1, <3>3
  <2>. QED
    BY <1>8, <2>1, <2>2 DEF O!Healthy
<1>9. ASSUME NEW a \in Agents, O!Send(a) PROVE Kept
  <2>. DEFINE s == ocTurn[a].session
  <2>1. /\ s \in 1 .. ocSessions /\ (ocStored[a] # 0 => s = ocStored[a])
        /\ \A b \in Agents \ {a} : ocStored[b] # s /\ (O!Announced(b) => ocTurn[b].session # s)
    BY <1>9 DEF O!Send
  <2>2. /\ ocTurn' = [ocTurn EXCEPT ![a] = [step |-> "prompt", server |-> ocTurn[a].server, session |-> s,
                                        prompt |-> Len(ocPrompts) + 1]]
        /\ ocStored' = [ocStored EXCEPT ![a] = s] /\ ocSessions' = ocSessions /\ children' = children
    BY <1>9 DEF O!Send, O!Sends
  <2>3. /\ DOMAIN ocPrompts' = (DOMAIN ocPrompts) \union {Len(ocPrompts) + 1}
        /\ \A p \in DOMAIN ocPrompts : ocPrompts'[p] = ocPrompts[p]
        /\ ocPrompts'[Len(ocPrompts) + 1].agent = a /\ ocPrompts'[Len(ocPrompts) + 1].session = s
        /\ ocPrompts'[Len(ocPrompts) + 1].server = ocTurn[a].server
    BY <1>9 DEF O!Send, O!Sends
  <2>4. \A p \in DOMAIN ocPrompts : ocPrompts[p] \in O!Prompts
    OBVIOUS
  <2>8. ocTurn[a].server \in DOMAIN children
    BY <1>9 DEF O!Send, O!TurnsAreServed, O!NoTurn
  <2>. HIDE DEF s
  <2>5. O!SessionsAreMade'
    BY <2>1, <2>2
  <2>6. O!AnnouncedAreOwn'
    BY <2>1, <2>2
  <2>7. O!PromptsAreRecorded'
    BY <2>1, <2>2, <2>3, <2>4, <2>8, SMTT(30) DEF O!Prompts
  <2>. QED
    BY <2>5, <2>6, <2>7
<1>10. ASSUME UNCHANGED O!vars PROVE Kept
  BY <1>2, <1>10 DEF O!vars
<1>. QED
  BY <1>3, <1>4, <1>5, <1>6, <1>7, <1>8, <1>9, <1>10 DEF O!Next

\* Of the prompts: one that works is awaited, and none is given to a session that has one.
WorkKept == O!UnstoppedAreHeld /\ O!TurnsAwaitTheirOwn /\ O!OneUnstopped

\* What is told stays told.
TellsMore ==
    /\ DOMAIN children \subseteq DOMAIN children'
    /\ \A c \in DOMAIN children : children[c].told => children'[c].told

LEMMA ServersAreTold ==
  ASSUME O!TypeOK, O!OpencodeInv, [O!Next]_O!vars
  PROVE  TellsMore
<1>1. /\ children \in Seq(O!Children)
      /\ \A c \in DOMAIN children : children[c] \in O!Children
  BY DEF O!TypeOK
<1>2. ASSUME children' = children PROVE TellsMore
  BY <1>2 DEF TellsMore
<1>3. ASSUME NEW n, O!Launch(n) PROVE TellsMore
  BY <1>1, <1>3 DEF TellsMore, O!Launch
<1>4. ASSUME NEW c \in DOMAIN children, children' = O!Told(c) PROVE TellsMore
  BY <1>1, <1>4 DEF TellsMore, O!Told, O!Children
<1>5. ASSUME NEW c \in DOMAIN children, O!ChildExits(c) PROVE TellsMore
  BY <1>1, <1>5 DEF TellsMore, O!ChildExits, O!Children
<1>6. O!AttemptFails => start.child \in DOMAIN children
  BY DEF O!AttemptFails, O!TypeOK, O!Idle
<1>7. O!Close => ocRuntime.child \in DOMAIN children
  BY DEF O!Close, O!TypeOK
<1>8. CASE O!CreateRuntime \/ O!Relaunch
  BY <1>3, <1>8 DEF O!CreateRuntime, O!Relaunch
<1>9. CASE O!AttemptFails \/ O!Close
  BY <1>4, <1>6, <1>7, <1>9 DEF O!AttemptFails, O!Close
<1>10. CASE O!Listens \/ O!StartFails \/ UNCHANGED O!vars
  BY <1>2, <1>10 DEF O!Listens, O!StartFails, O!vars
<1>11. ASSUME NEW a \in Agents, \/ O!BeginTurn(a) \/ O!Healthy(a) \/ O!TransportFails(a) \/ O!TurnFails(a)
                                \/ O!Send(a) \/ O!EndTurn(a) \/ O!PromptTimesOut(a)
       PROVE  TellsMore
  BY <1>2, <1>11 DEF O!BeginTurn, O!Healthy, O!TransportFails, O!TurnFails, O!Send, O!EndTurn, O!PromptTimesOut
<1>. QED
  BY <1>5, <1>8, <1>9, <1>10, <1>11 DEF O!Next

\* A step that touches neither turns nor prompts stops prompts at most.
LEMMA ServersMove ==
  ASSUME O!TypeOK, WorkKept, O!PromptsAreRecorded, TellsMore, UNCHANGED <<ocTurn, ocPrompts>>,
         \/ UNCHANGED ocRuntime
         \/ \A p \in DOMAIN ocPrompts : ocPrompts[p].state = "broken" => ~O!Unstopped(p)
  PROVE  WorkKept'
<1>1. \A p \in DOMAIN ocPrompts : O!Unstopped(p)' => O!Unstopped(p)
  BY DEF O!Unstopped, TellsMore, O!PromptsAreRecorded
<1>2. O!UnstoppedAreHeld'
  BY <1>1 DEF WorkKept, O!UnstoppedAreHeld, O!Awaits
<1>3. O!TurnsAwaitTheirOwn'
  BY DEF WorkKept, O!TurnsAwaitTheirOwn
<1>4. O!OneUnstopped'
  BY <1>1 DEF WorkKept, O!OneUnstopped
<1>. QED
  BY <1>2, <1>3, <1>4 DEF WorkKept

\* A step of one agent's turn that begins no work, and ends what work it awaited.
LEMMA OthersWorkOn ==
  ASSUME O!TypeOK, WorkKept, NEW a \in Agents, children' = children,
         ocRuntime'.open = ocRuntime.open, ocRuntime'.child = ocRuntime.child,
         ~ocRuntime.alive => ~ocRuntime'.alive,
         \A b \in Agents \ {a} : ocTurn'[b] = ocTurn[b], ocTurn'[a].step # "prompt", KeptPrompts,
         \A p \in DOMAIN ocPrompts :
            /\ ocPrompts[p].agent # a => ocPrompts'[p] = ocPrompts[p]
            /\ ocPrompts[p].agent = a =>
                  /\ ocPrompts'[p].state # "working" /\ (O!Unstopped(p)' => O!Unstopped(p))
                  /\ O!Unstopped(p)' => /\ ocRuntime'.open /\ ~ocRuntime'.alive
                                        /\ ocRuntime'.child = ocPrompts[p].server /\ ocTurn'[a] = O!NoTurn
  PROVE  WorkKept'
<1>1. \A p \in DOMAIN ocPrompts : ocPrompts[p] \in O!Prompts /\ ocPrompts[p].agent \in Agents
  BY PromptsAreTyped
<1>2. \A p \in DOMAIN ocPrompts : O!Unstopped(p)' => O!Unstopped(p)
  BY DEF O!Unstopped, KeptPrompts, Same
<1>3. ASSUME NEW p \in DOMAIN ocPrompts
      PROVE  /\ ocPrompts'[p].state = "working" => O!Awaits(ocPrompts[p].agent, p)'
             /\ ocPrompts'[p].state = "broken" /\ O!Unstopped(p)' =>
                  /\ ocRuntime'.open /\ ~ocRuntime'.alive /\ ocRuntime'.child = ocPrompts'[p].server
                  /\ ocTurn'[ocPrompts'[p].agent] = O!NoTurn
  <2>1. CASE ocPrompts[p].agent = a
    BY <2>1 DEF KeptPrompts, Same
  <2>2. CASE ocPrompts[p].agent # a
    <3>1. ocPrompts'[p] = ocPrompts[p] /\ ocTurn'[ocPrompts[p].agent] = ocTurn[ocPrompts[p].agent]
      BY <1>1, <2>2
    <3>. QED
      BY <1>2, <2>2, <3>1 DEF WorkKept, O!UnstoppedAreHeld, O!Awaits
  <2>. QED
    BY <2>1, <2>2
<1>4. O!UnstoppedAreHeld'
  BY <1>3 DEF O!UnstoppedAreHeld, KeptPrompts
<1>5. O!TurnsAwaitTheirOwn'
  BY DEF WorkKept, O!TurnsAwaitTheirOwn, KeptPrompts, Same
<1>6. O!OneUnstopped'
  BY <1>2 DEF WorkKept, O!OneUnstopped, KeptPrompts, Same
<1>. QED
  BY <1>4, <1>5, <1>6 DEF WorkKept

\* Where a turn has not prompted yet, no prompt of its agent works.
LEMMA NoneWorksBefore ==
  ASSUME WorkKept, NEW a \in Agents,
         \/ ocTurn[a].step \in {"health", "announce"}
         \/ ocTurn[a] = O!NoTurn /\ ocRuntime.alive,
         NEW p \in DOMAIN ocPrompts, ocPrompts[p].agent = a
  PROVE  ocPrompts[p].state # "working" /\ ~O!Unstopped(p)
BY DEF WorkKept, O!UnstoppedAreHeld, O!Awaits, O!Unstopped, O!NoTurn

LEMMA WorkIsKept ==
  ASSUME O!TypeOK, O!OpencodeInv, [O!Next]_O!vars
  PROVE  WorkKept'
<1>0. /\ WorkKept /\ O!OneRuntime /\ O!TurnsAreServed /\ O!PromptsAreRecorded /\ TellsMore
      /\ \A p \in DOMAIN ocPrompts : ocPrompts[p] \in O!Prompts /\ ocPrompts[p].agent \in Agents
  BY PromptsAreTyped, ServersAreTold DEF O!OpencodeInv, WorkKept
<1>2. CASE O!CreateRuntime \/ O!AttemptFails \/ UNCHANGED O!vars
  BY <1>0, <1>2, ServersMove DEF O!CreateRuntime, O!AttemptFails, O!vars
<1>3. CASE O!Relaunch \/ O!StartFails \/ (\E c \in DOMAIN children : O!ChildExits(c))
  BY <1>0, <1>3, ServersMove DEF O!Relaunch, O!StartFails, O!ChildExits
<1>4. CASE O!Listens
  <2>1. ~ocRuntime.open /\ UNCHANGED <<ocTurn, ocPrompts>>
    BY <1>0, <1>4 DEF O!Listens, O!OneRuntime, O!Idle
  <2>2. \A p \in DOMAIN ocPrompts : ocPrompts[p].state = "broken" => ~O!Unstopped(p)
    BY <1>0, <2>1 DEF WorkKept, O!UnstoppedAreHeld
  <2>. QED
    BY <1>0, <2>1, <2>2, ServersMove
<1>5. CASE O!Close
  <2>. DEFINE S == {p \in DOMAIN ocPrompts : ocPrompts[p].server = ocRuntime.child /\ ocPrompts[p].state = "working"}
  <2>1. Over(S, "aborted") /\ S \in SUBSET DOMAIN ocPrompts
    BY <1>5 DEF O!Close, Over
  <2>2. /\ KeptPrompts /\ \A p \in S : ocPrompts'[p].state = "aborted"
        /\ \A p \in (DOMAIN ocPrompts) \ S : ocPrompts'[p] = ocPrompts[p]
    <3>. HIDE DEF S
    <3>. QED
      BY <2>1, PromptsAreClosed
  <2>3. ocRuntime.child \in DOMAIN children /\ children'[ocRuntime.child].told
    <3>1. ocRuntime.child \in DOMAIN children /\ children' = O!Told(ocRuntime.child)
      BY <1>5 DEF O!Close, O!TypeOK
    <3>2. children[ocRuntime.child] \in O!Children
      BY <3>1 DEF O!TypeOK
    <3>. QED
      BY <3>1, <3>2 DEF O!Told, O!Children
  <2>4. \A p \in DOMAIN ocPrompts : O!Unstopped(p)' => /\ O!Unstopped(p)
                                                       /\ ocPrompts[p].server # ocRuntime.child
    BY <1>0, <2>2, <2>3 DEF O!Unstopped, TellsMore, O!PromptsAreRecorded, KeptPrompts, Same
  <2>5. \A a \in Agents : ocTurn'[a] = IF O!InFlight(a) THEN O!NoTurn ELSE ocTurn[a]
    BY <1>5 DEF O!Close
  <2>6. O!UnstoppedAreHeld'
    <3>1. ASSUME NEW p \in DOMAIN ocPrompts, ocPrompts'[p].state = "working"
          PROVE  O!Awaits(ocPrompts[p].agent, p)'
      <4>1. p \notin S /\ ocPrompts'[p] = ocPrompts[p]
        BY <2>2, <3>1
      <4>2. O!Awaits(ocPrompts[p].agent, p) /\ ocPrompts[p].agent \in Agents
        BY <1>0, <3>1, <4>1 DEF WorkKept, O!UnstoppedAreHeld
      <4>3. ~O!InFlight(ocPrompts[p].agent)
        BY <1>0, <3>1, <4>1, <4>2 DEF O!InFlight, O!OnRuntime, O!Awaits, WorkKept, O!TurnsAwaitTheirOwn
      <4>. QED
        BY <2>5, <4>1, <4>2, <4>3 DEF O!Awaits
    <3>2. ASSUME NEW p \in DOMAIN ocPrompts, ocPrompts'[p].state = "broken" PROVE ~O!Unstopped(p)'
      <4>1. p \notin S /\ ocPrompts'[p] = ocPrompts[p]
        BY <2>2, <3>2
      <4>. QED
        BY <1>0, <2>4, <3>2, <4>1 DEF WorkKept, O!UnstoppedAreHeld
    <3>. QED
      BY <2>2, <3>1, <3>2 DEF O!UnstoppedAreHeld, KeptPrompts
  <2>7. O!TurnsAwaitTheirOwn'
    BY <1>0, <2>2, <2>5 DEF WorkKept, O!TurnsAwaitTheirOwn, KeptPrompts, Same, O!NoTurn
  <2>8. O!OneUnstopped'
    BY <1>0, <2>2, <2>4 DEF WorkKept, O!OneUnstopped, KeptPrompts, Same
  <2>. QED
    BY <2>6, <2>7, <2>8 DEF WorkKept
<1>6. ASSUME NEW a \in Agents, O!BeginTurn(a) \/ O!Healthy(a) \/ O!TurnFails(a) PROVE WorkKept'
  <2>1. /\ UNCHANGED <<children, ocRuntime, ocPrompts>> /\ ocTurn'[a].step # "prompt"
        /\ \A b \in Agents \ {a} : ocTurn'[b] = ocTurn[b]
    BY <1>6 DEF O!BeginTurn, O!Healthy, O!TurnFails, O!Announces, O!Ends, O!NoTurn, O!TypeOK
  <2>2. ocTurn[a].step \in {"health", "announce"} \/ (ocTurn[a] = O!NoTurn /\ ocRuntime.alive)
    BY <1>6 DEF O!BeginTurn, O!Healthy, O!TurnFails
  <2>3. \A p \in DOMAIN ocPrompts : ocPrompts[p].agent = a =>
           ocPrompts'[p].state # "working" /\ ~O!Unstopped(p)'
    BY <1>0, <2>1, <2>2, NoneWorksBefore DEF O!Unstopped
  <2>4. KeptPrompts
    BY <2>1 DEF KeptPrompts, Same
  <2>. QED
    BY <1>0, <2>1, <2>3, <2>4, OthersWorkOn
<1>9. ASSUME NEW a \in Agents, O!TransportFails(a) \/ O!EndTurn(a) \/ O!PromptTimesOut(a) PROVE WorkKept'
  <2>1. PICK s \in {"broken", "answered", "given_up"} :
           PromptIs(a, s) /\ (s = "broken" => O!TransportFails(a))
    BY <1>9, TurnsEndSo
  <2>2. /\ KeptPrompts /\ \A p \in Waiting(a) : ocPrompts'[p].state = s
        /\ \A p \in (DOMAIN ocPrompts) \ Waiting(a) : ocPrompts'[p] = ocPrompts[p]
    BY <2>1, TurnsEndSo, PromptsAreClosed DEF PromptIs
  <2>3. /\ children' = children /\ ocTurn'[a] = O!NoTurn /\ \A b \in Agents \ {a} : ocTurn'[b] = ocTurn[b]
        /\ ocRuntime'.open = ocRuntime.open /\ ocRuntime'.child = ocRuntime.child
        /\ ~ocRuntime.alive => ~ocRuntime'.alive
    BY <1>9 DEF O!TransportFails, O!EndTurn, O!PromptTimesOut, O!Ends, O!TypeOK
  <2>4. O!TransportFails(a) /\ O!OnRuntime(a) => ~ocRuntime'.alive
    BY DEF O!TransportFails, O!TypeOK
  <2>5. \A p \in Waiting(a) : /\ p \in DOMAIN ocPrompts /\ ocPrompts[p].agent = a
                              /\ ocPrompts[p].server = ocTurn[a].server
                              /\ ocTurn[a] # O!NoTurn /\ ocPrompts[p].state = "working"
    BY <1>0 DEF Waiting, WorkKept, O!TurnsAwaitTheirOwn, O!NoTurn
  <2>6. ASSUME NEW p \in (DOMAIN ocPrompts) \ Waiting(a), ocPrompts[p].agent = a
        PROVE  /\ ocPrompts'[p].state # "working"
               /\ O!Unstopped(p)' => /\ O!Unstopped(p) /\ ocRuntime.open /\ ~ocRuntime.alive
                                     /\ ocRuntime.child = ocPrompts[p].server
    <3>1. ocPrompts[p].state # "working"
      BY <1>0, <2>6 DEF WorkKept, O!UnstoppedAreHeld, O!Awaits, Waiting
    <3>2. O!Unstopped(p)' => O!Unstopped(p)
      BY <2>2, <2>3 DEF O!Unstopped
    <3>. QED
      BY <1>0, <2>2, <3>1, <3>2 DEF WorkKept, O!UnstoppedAreHeld, O!Unstopped
  <2>7. ASSUME NEW p \in Waiting(a)
        PROVE  /\ ocPrompts'[p].state # "working"
               /\ O!Unstopped(p)' => /\ O!Unstopped(p) /\ ocRuntime'.open /\ ~ocRuntime'.alive
                                     /\ ocRuntime'.child = ocPrompts[p].server
    <3>1. ocPrompts'[p].state = s /\ ocPrompts'[p].server = ocPrompts[p].server
      BY <2>2, <2>5 DEF KeptPrompts, Same
    <3>2. O!Unstopped(p)' => s = "broken" /\ ~children[ocPrompts[p].server].told /\ O!Unstopped(p)
      BY <2>1, <2>3, <2>5, <3>1 DEF O!Unstopped
    <3>3. ~children[ocPrompts[p].server].told => O!OnRuntime(a)
      BY <1>0, <2>5 DEF O!TurnsAreServed
    <3>. QED
      BY <2>1, <2>3, <2>4, <2>5, <3>1, <3>2, <3>3 DEF O!OnRuntime
  <2>8. \A p \in DOMAIN ocPrompts : ocPrompts[p].agent # a => ocPrompts'[p] = ocPrompts[p]
    BY <2>2, <2>5
  <2>9. \A p \in DOMAIN ocPrompts : ocPrompts[p].agent = a =>
           /\ ocPrompts'[p].state # "working" /\ (O!Unstopped(p)' => O!Unstopped(p))
           /\ O!Unstopped(p)' => /\ ocRuntime'.open /\ ~ocRuntime'.alive
                                 /\ ocRuntime'.child = ocPrompts[p].server /\ ocTurn'[a] = O!NoTurn
    BY <2>3, <2>6, <2>7
  <2>10. ocTurn'[a].step # "prompt"
    BY <2>3 DEF O!NoTurn
  <2>. QED
    BY <1>0, <2>2, <2>3, <2>8, <2>9, <2>10, OthersWorkOn
<1>11. ASSUME NEW a \in Agents, O!Send(a) PROVE WorkKept'
  <2>. DEFINE new == Len(ocPrompts) + 1
  <2>1. \A p \in DOMAIN ocPrompts : ocPrompts[p].agent = a => ocPrompts[p].state # "working" /\ ~O!Unstopped(p)
    BY <1>0, <1>11, NoneWorksBefore DEF O!Send
  <2>2. /\ ocTurn'[a].step = "prompt" /\ ocTurn'[a].prompt = new /\ ocTurn'[a].server = ocTurn[a].server
        /\ \A b \in Agents \ {a} : ocTurn'[b] = ocTurn[b]
    BY <1>11 DEF O!Send, O!Sends, O!TypeOK
  <2>3. /\ DOMAIN ocPrompts' = (DOMAIN ocPrompts) \union {new} /\ new \notin DOMAIN ocPrompts
        /\ \A p \in DOMAIN ocPrompts : ocPrompts'[p] = ocPrompts[p]
        /\ ocPrompts'[new].agent = a /\ ocPrompts'[new].server = ocTurn[a].server
        /\ ocPrompts'[new].state \in {"working", "lost"}
    BY <1>11 DEF O!Send, O!Sends, O!TypeOK
  <2>4. UNCHANGED <<children, ocRuntime>>
    BY <1>11 DEF O!Send
  <2>. HIDE DEF new
  <2>5. \A p \in DOMAIN ocPrompts : O!Unstopped(p)' = O!Unstopped(p)
    BY <2>3, <2>4 DEF O!Unstopped
  <2>6. O!OneUnstopped'
    <3>1. ASSUME NEW p \in DOMAIN ocPrompts', O!Unstopped(p)', ocPrompts'[p].agent = a
          PROVE  p = new
      BY <2>1, <2>3, <2>5, <3>1
    <3>2. ASSUME NEW p \in DOMAIN ocPrompts', NEW r \in DOMAIN ocPrompts',
                 O!Unstopped(p)', O!Unstopped(r)', ocPrompts'[p].agent = ocPrompts'[r].agent
          PROVE  p = r
      <4>1. CASE ocPrompts'[p].agent = a
        BY <3>1, <3>2, <4>1
      <4>2. CASE ocPrompts'[p].agent # a
        BY <1>0, <2>3, <2>5, <3>2, <4>2 DEF WorkKept, O!OneUnstopped
      <4>. QED
        BY <4>1, <4>2
    <3>. QED
      BY <3>2 DEF O!OneUnstopped
  <2>7. O!TurnsAwaitTheirOwn'
    <3>1. ASSUME NEW b \in Agents \ {a}, ocTurn'[b].step = "prompt"
          PROVE  /\ ocTurn'[b].prompt \in DOMAIN ocPrompts /\ ocPrompts'[ocTurn'[b].prompt].agent = b
                 /\ ocPrompts'[ocTurn'[b].prompt].server = ocTurn'[b].server
      <4>1. ocTurn'[b] = ocTurn[b]
        BY <2>2
      <4>2. /\ ocTurn[b].prompt \in DOMAIN ocPrompts /\ ocPrompts[ocTurn[b].prompt].agent = b
            /\ ocPrompts[ocTurn[b].prompt].server = ocTurn[b].server
        BY <1>0, <3>1, <4>1 DEF WorkKept, O!TurnsAwaitTheirOwn
      <4>. QED
        BY <2>3, <4>1, <4>2
    <3>. QED
      BY <2>2, <2>3, <3>1 DEF O!TurnsAwaitTheirOwn
  <2>8. ASSUME NEW p \in DOMAIN ocPrompts'
        PROVE  /\ ocPrompts'[p].state = "working" => O!Awaits(ocPrompts[p].agent, p)'
               /\ ocPrompts'[p].state = "broken" /\ O!Unstopped(p)' =>
                  /\ ocRuntime'.open /\ ~ocRuntime'.alive /\ ocRuntime'.child = ocPrompts'[p].server
                  /\ ocTurn'[ocPrompts'[p].agent] = O!NoTurn
    <3>1. CASE p = new
      BY <2>2, <2>3, <3>1 DEF O!Awaits
    <3>2. CASE p # new
      <4>1. p \in DOMAIN ocPrompts /\ ocPrompts'[p] = ocPrompts[p] /\ ocPrompts[p].agent \in Agents
        BY <1>0, <2>3, <3>2
      <4>2. CASE ocPrompts[p].agent = a
        BY <2>1, <2>5, <4>1, <4>2
      <4>3. CASE ocPrompts[p].agent # a
        BY <1>0, <2>2, <2>4, <2>5, <4>1, <4>3 DEF WorkKept, O!UnstoppedAreHeld, O!Awaits
      <4>. QED
        BY <4>2, <4>3
    <3>. QED
      BY <3>1, <3>2
  <2>9. O!UnstoppedAreHeld'
    BY <2>8 DEF O!UnstoppedAreHeld
  <2>. QED
    BY <2>6, <2>7, <2>9 DEF WorkKept
<1>. QED
  BY <1>2, <1>3, <1>4, <1>5, <1>6, <1>9, <1>11 DEF O!Next

\* The invariant of the OpenCode driver: who may start, whose a session is, which
\* turn waits for a prompt, and which prompts a server may still be at work on.
THEOREM OpencodeIsSound == O!Spec => [](O!TypeOK /\ O!OpencodeInv)
<1>1. O!Init => O!TypeOK /\ O!OpencodeInv
  <2>. SUFFICES ASSUME O!Init PROVE O!TypeOK /\ O!OpencodeInv
    OBVIOUS
  <2>1. children = <<>> /\ ocPrompts = <<>> /\ DOMAIN <<>> = {}
    BY DEF O!Init
  <2>2. O!TypeOK
    BY <2>1 DEF O!Init, O!TypeOK, O!Starts, O!Turns, O!NoRuntime
  <2>. QED
    BY <2>1, <2>2 DEF O!Init, O!OpencodeInv, O!OneRuntime, O!TurnsAreServed, O!SessionsAreMade,
       O!AnnouncedAreOwn, O!Announced, O!PromptsAreRecorded, O!UnstoppedAreHeld, O!TurnsAwaitTheirOwn,
       O!OneUnstopped, O!NoServerIsLost, O!NoTurn
<1>2. (O!TypeOK /\ O!OpencodeInv) /\ [O!Next]_O!vars => (O!TypeOK /\ O!OpencodeInv)'
  BY OpencodeTypeIsInductive, ServersAreKept, SessionsAreKept, WorkIsKept DEF O!OpencodeInv, WorkKept
<1>. QED
  BY <1>1, <1>2, PTL DEF O!Spec

\* Whatever starts, times out, breaks, dies or is closed (local-agent-opencode.ts), a
\* server that nobody told to stop is in use or being started; a session is of one agent,
\* the one whose row names it, and works on one of its prompts at a time, unless one was
\* given up on a server that is not told.
THEOREM OpencodeServesItsOwn == O!Spec => []O!OpencodeKeepsItsOwn
<1>1. O!TypeOK /\ O!OpencodeInv => O!OpencodeKeepsItsOwn
  <2>. SUFFICES ASSUME O!TypeOK, O!OpencodeInv PROVE O!OpencodeKeepsItsOwn
    OBVIOUS
  <2>1. \A p \in DOMAIN ocPrompts : ocPrompts[p].agent \in Agents
    BY PromptsAreTyped
  <2>2. ASSUME NEW p \in DOMAIN ocPrompts, NEW r \in DOMAIN ocPrompts, p # r,
               ocPrompts[p].session = ocPrompts[r].session
        PROVE  ocPrompts[p].agent = ocPrompts[r].agent /\ ~(O!Unstopped(p) /\ O!Unstopped(r))
    <3>1. ocPrompts[p].agent = ocPrompts[r].agent
      BY <2>1, <2>2 DEF O!OpencodeInv, O!PromptsAreRecorded, O!SessionsAreMade
    <3>. QED
      BY <2>2, <3>1 DEF O!OpencodeInv, O!OneUnstopped
  <2>3. \A p \in DOMAIN ocPrompts : ocStored[ocPrompts[p].agent] = ocPrompts[p].session
    BY DEF O!OpencodeInv, O!PromptsAreRecorded
  <2>. QED
    BY <2>2, <2>3 DEF O!OpencodeKeepsItsOwn, O!SessionsAreOwned, O!OpencodeInv
<1>. QED
  BY <1>1, OpencodeIsSound, PTL

-------------------------------------------------------------------------------
(***************************************************************************)
(* Claude.  What each step does to the query it is about, field by field.  *)
(***************************************************************************)
Others(q) == \A o \in C!Authorities \ {q} : query'[o] = query[o]

\* A prompt that is only told more of keeps its turn's mode and whether it is alone.
SamePrompts ==
    /\ DOMAIN claudePrompts' = DOMAIN claudePrompts
    /\ \A p \in DOMAIN claudePrompts : /\ claudePrompts'[p].mode = claudePrompts[p].mode
                                       /\ claudePrompts'[p].alone = claudePrompts[p].alone

LEMMA QueriesAreTyped ==
  ASSUME C!TypeOK, NEW q \in C!Authorities
  PROVE  query[q] \in C!Queries
BY DEF C!TypeOK

LEMMA ClaudePromptsAreTyped ==
  ASSUME C!TypeOK, NEW p \in DOMAIN claudePrompts
  PROVE  claudePrompts[p] \in C!Prompts
BY DEF C!TypeOK

\* The first of a sequence, and the others.
LEMMA HeadAndTail ==
  ASSUME NEW S, NEW s \in Seq(S), s # <<>>
  PROVE  /\ Tail(s) \in Seq(S) /\ 1 \in DOMAIN s /\ Head(s) = s[1] /\ Head(s) \in S
         /\ Len(Tail(s)) = Len(s) - 1
         /\ \A i \in DOMAIN Tail(s) : i + 1 \in DOMAIN s /\ Tail(s)[i] = s[i + 1]
OBVIOUS

LEMMA NothingIsEmpty ==
  ASSUME NEW S, NEW s \in Seq(S), Len(s) = 0
  PROVE  s = <<>>
OBVIOUS

LEMMA TakesSo ==
  ASSUME C!TypeOK, NEW q \in C!Authorities, C!Takes(q)
  PROVE  /\ Others(q) /\ query'[q] \in C!Queries
         /\ query[q].state = "open" /\ query[q].works = 0 /\ query[q].input # <<>>
         /\ query'[q].state = query[q].state /\ query'[q].left = query[q].left
         /\ query'[q].output = query[q].output /\ query'[q].mode = query[q].mode
         /\ query'[q].input = Tail(query[q].input) /\ query'[q].works = Head(query[q].input)
         /\ query'[q].knows = query[q].knows \union {Head(query[q].input)}
<1>1. query[q] \in C!Queries /\ queries \in Nat /\ query \in [C!Authorities -> C!Queries]
  BY DEF C!TypeOK
<1>2. Tail(query[q].input) \in Seq(Nat) /\ Head(query[q].input) \in Nat
  BY <1>1, HeadAndTail DEF C!Takes, C!Queries
<1>. QED
  BY <1>1, <1>2 DEF C!Takes, C!Queries, Others

LEMMA WritesSo ==
  ASSUME C!TypeOK, NEW q \in C!Authorities, C!Writes(q)
  PROVE  /\ Others(q) /\ query'[q] \in C!Queries /\ query[q].works # 0
         /\ query'[q].state = query[q].state /\ query'[q].left = query[q].left
         /\ query'[q].input = query[q].input /\ query'[q].mode = query[q].mode
         /\ query'[q].works = query[q].works /\ query'[q].knows = query[q].knows
         /\ query'[q].output = Append(query[q].output,
                [kind |-> "text", of |-> query[q].works, session |-> query[q].told])
<1>1. query[q] \in C!Queries /\ query \in [C!Authorities -> C!Queries]
  BY DEF C!TypeOK
<1>. DEFINE m == [kind |-> "text", of |-> query[q].works, session |-> query[q].told]
<1>2. m \in C!Messages
  BY <1>1 DEF C!Messages, C!Queries
<1>3. query' = [query EXCEPT ![q].output = Append(@, m)] /\ query[q].works # 0
  BY DEF C!Writes
<1>. HIDE DEF m
<1>4. Append(query[q].output, m) \in Seq(C!Messages)
  BY <1>1, <1>2, AppendedIsLast DEF C!Queries
<1>5. /\ Others(q) /\ query'[q] \in C!Queries
      /\ query'[q].state = query[q].state /\ query'[q].left = query[q].left
      /\ query'[q].input = query[q].input /\ query'[q].mode = query[q].mode
      /\ query'[q].works = query[q].works /\ query'[q].knows = query[q].knows
      /\ query'[q].output = Append(query[q].output, m)
  BY <1>1, <1>3, <1>4 DEF C!Queries, Others
<1>. QED
  BY <1>3, <1>5 DEF m

LEMMA ResultsSo ==
  ASSUME C!TypeOK, NEW q \in C!Authorities, NEW kind \in {"result", "error"}, C!Results(q, kind)
  PROVE  /\ Others(q) /\ query'[q] \in C!Queries /\ query[q].works # 0
         /\ query'[q].state = query[q].state /\ query'[q].left = query[q].left
         /\ query'[q].input = query[q].input /\ query'[q].mode = query[q].mode
         /\ query'[q].works = 0 /\ query'[q].knows = query[q].knows
         /\ query'[q].output = Append(query[q].output,
                [kind |-> kind, of |-> query[q].works, session |-> query[q].told])
<1>1. query[q] \in C!Queries /\ query \in [C!Authorities -> C!Queries]
  BY DEF C!TypeOK
<1>. DEFINE m == [kind |-> kind, of |-> query[q].works, session |-> query[q].told]
<1>2. m \in C!Messages
  BY <1>1 DEF C!Messages, C!Queries
<1>3. query' = [query EXCEPT ![q].works = 0, ![q].output = Append(@, m)] /\ query[q].works # 0
  BY DEF C!Results
<1>. HIDE DEF m
<1>4. Append(query[q].output, m) \in Seq(C!Messages)
  BY <1>1, <1>2, AppendedIsLast DEF C!Queries
<1>5. /\ Others(q) /\ query'[q] \in C!Queries
      /\ query'[q].state = query[q].state /\ query'[q].left = query[q].left
      /\ query'[q].input = query[q].input /\ query'[q].mode = query[q].mode
      /\ query'[q].works = 0 /\ query'[q].knows = query[q].knows
      /\ query'[q].output = Append(query[q].output, m)
  BY <1>1, <1>3, <1>4 DEF C!Queries, Others
<1>. QED
  BY <1>3, <1>5 DEF m

\* The prompt a query is at is in its stream, and only what it ran under and knew is written.
LEMMA InStreamSo ==
  ASSUME C!TypeOK, NEW q \in C!Authorities, C!StreamIsOwn(q)
  PROVE  /\ query[q].works # 0 => query[q].works \in C!InStream(q)
         /\ query[q].input # <<>> => Head(query[q].input) \in C!InStream(q)
         /\ query[q].output # <<>> => Head(query[q].output).of \in C!InStream(q)
         /\ C!InStream(q) \subseteq DOMAIN claudePrompts
<1>1. query[q] \in C!Queries
  BY QueriesAreTyped
<1>2. query[q].input \in Seq(Nat) /\ query[q].output \in Seq(C!Messages)
  BY <1>1 DEF C!Queries
<1>3. query[q].input # <<>> => 1 \in DOMAIN query[q].input /\ Head(query[q].input) = query[q].input[1]
  BY <1>2, HeadAndTail
<1>4. query[q].output # <<>> =>
          1 \in DOMAIN query[q].output /\ Head(query[q].output) = query[q].output[1]
  BY <1>2, HeadAndTail
<1>. QED
  BY <1>3, <1>4 DEF C!InStream, C!StreamIsOwn

Told(q, p) ==
    /\ SamePrompts /\ claudePrompts' \in Seq(C!Prompts) /\ p \in C!InStream(q)
    /\ UNCHANGED <<stored, queries, claudeTurn, claudeAnswers>>
    /\ \A x \in DOMAIN claudePrompts \ {p} : claudePrompts'[x] = claudePrompts[x]
    /\ claudePrompts'[p].under \subseteq claudePrompts[p].under \union {query[q].mode}

LEMMA TakesTells ==
  ASSUME C!TypeOK, NEW q \in C!Authorities, C!StreamIsOwn(q), C!Takes(q)
  PROVE  /\ Told(q, Head(query[q].input)) /\ history' = history
         /\ claudePrompts'[Head(query[q].input)].unknown = history \ query[q].knows
<1>. DEFINE p == Head(query[q].input)
            e == [claudePrompts[p] EXCEPT !.under = {query[q].mode}, !.unknown = history \ query[q].knows]
<1>1. p \in C!InStream(q) /\ p \in DOMAIN claudePrompts
  BY InStreamSo DEF C!Takes
<1>2. claudePrompts[p] \in C!Prompts /\ query[q] \in C!Queries /\ history \subseteq Nat
  BY <1>1, QueriesAreTyped, ClaudePromptsAreTyped DEF C!TypeOK
<1>3. /\ e \in C!Prompts /\ e.mode = claudePrompts[p].mode /\ e.alone = claudePrompts[p].alone
      /\ e.under = {query[q].mode} /\ e.unknown = history \ query[q].knows
  BY <1>2 DEF C!Prompts, C!Queries
<1>4. claudePrompts' = [claudePrompts EXCEPT ![p] = e] /\ UNCHANGED <<stored, history, queries, claudeTurn, claudeAnswers>>
  BY DEF C!Takes
<1>5. claudePrompts \in Seq(C!Prompts)
  BY DEF C!TypeOK
<1>. HIDE DEF e, p
<1>6. claudePrompts' \in Seq(C!Prompts) /\ DOMAIN claudePrompts' = DOMAIN claudePrompts /\ claudePrompts'[p] = e
  BY <1>1, <1>3, <1>4, <1>5, ReplacedKeepsType
<1>7. Told(q, p) /\ claudePrompts'[p].unknown = history \ query[q].knows
  BY <1>1, <1>3, <1>4, <1>6 DEF Told, SamePrompts
<1>. QED
  BY <1>4, <1>7 DEF p

LEMMA WorksTells ==
  ASSUME C!TypeOK, NEW q \in C!Authorities, C!StreamIsOwn(q),
         C!Writes(q) \/ \E kind \in {"result", "error"} : C!Results(q, kind)
  PROVE  /\ Told(q, query[q].works)
         /\ claudePrompts'[query[q].works].unknown = claudePrompts[query[q].works].unknown
<1>. DEFINE p == query[q].works
<1>1. p \in C!InStream(q) /\ p \in DOMAIN claudePrompts
  BY InStreamSo DEF C!Writes, C!Results
<1>2. claudePrompts[p] \in C!Prompts /\ query[q] \in C!Queries
  BY <1>1, QueriesAreTyped, ClaudePromptsAreTyped
<1>. HIDE DEF p
<1>3. PICK n \in Nat : /\ claudePrompts' = [claudePrompts EXCEPT ![p] = [claudePrompts[p] EXCEPT !.text = n,
                                          !.under = @ \union {query[q].mode}]]
                       /\ UNCHANGED <<stored, queries, claudeTurn, claudeAnswers>>
  <2>1. CASE C!Writes(q)
    <3>1. claudePrompts' = [claudePrompts EXCEPT ![p] = [claudePrompts[p] EXCEPT !.text = claudePrompts[p].text + 1,
                                              !.under = @ \union {query[q].mode}]]
      BY <1>1, <2>1 DEF C!Writes, p
    <3>2. claudePrompts[p].text + 1 \in Nat
      BY <1>2 DEF C!Prompts
    <3>. QED
      BY <2>1, <3>1, <3>2 DEF C!Writes
  <2>2. ASSUME NEW kind \in {"result", "error"}, C!Results(q, kind)
        PROVE  /\ claudePrompts' = [claudePrompts EXCEPT ![p] = [claudePrompts[p] EXCEPT !.text = claudePrompts[p].text,
                                          !.under = @ \union {query[q].mode}]]
               /\ claudePrompts[p].text \in Nat /\ UNCHANGED <<stored, queries, claudeTurn, claudeAnswers>>
    <3>1. claudePrompts' = [claudePrompts EXCEPT ![p] = [claudePrompts[p] EXCEPT !.under = @ \union {query[q].mode}]]
      BY <2>2 DEF C!Results, p
    <3>2. [claudePrompts[p] EXCEPT !.under = @ \union {query[q].mode}] =
          [claudePrompts[p] EXCEPT !.text = claudePrompts[p].text, !.under = @ \union {query[q].mode}]
      BY <1>2 DEF C!Prompts
    <3>. QED
      BY <1>2, <2>2, <3>1, <3>2 DEF C!Results, C!Prompts
  <2>. QED
    BY <2>1, <2>2
<1>. DEFINE e == [claudePrompts[p] EXCEPT !.text = n, !.under = @ \union {query[q].mode}]
<1>4. /\ e \in C!Prompts /\ e.mode = claudePrompts[p].mode /\ e.alone = claudePrompts[p].alone
      /\ e.under = claudePrompts[p].under \union {query[q].mode} /\ e.unknown = claudePrompts[p].unknown
  BY <1>2 DEF C!Prompts, C!Queries
<1>5. claudePrompts' = [claudePrompts EXCEPT ![p] = e] /\ claudePrompts \in Seq(C!Prompts)
  BY <1>3 DEF C!TypeOK
<1>. HIDE DEF e
<1>6. claudePrompts' \in Seq(C!Prompts) /\ DOMAIN claudePrompts' = DOMAIN claudePrompts /\ claudePrompts'[p] = e
  BY <1>1, <1>4, <1>5, ReplacedKeepsType
<1>7. Told(q, p) /\ claudePrompts'[p].unknown = claudePrompts[p].unknown
  BY <1>1, <1>3, <1>4, <1>5, <1>6 DEF Told, SamePrompts
<1>. QED
  BY <1>7 DEF p

\* A query of a runtime that is made, closed, given settings or lost.
LEMMA RuntimesSo ==
  ASSUME C!TypeOK, NEW q \in C!Authorities
  PROVE  /\ C!CreateRuntime(q) \/ C!Close(q) =>
              /\ Others(q) /\ query'[q] \in C!Queries
              /\ query'[q].input = <<>> /\ query'[q].output = <<>> /\ query'[q].works = 0
              /\ query'[q].left = FALSE
         /\ C!CreateRuntime(q) =>
              /\ query'[q].state = "open"
              /\ query'[q].knows = IF stored = 0 THEN {} ELSE history
         /\ C!Close(q) => query'[q].state = "none"
         /\ C!StreamFails(q) =>
              /\ Others(q) /\ query'[q] \in C!Queries
              /\ query[q].state = "open" /\ query'[q].state = "ended" /\ query'[q].works = 0
              /\ query'[q].input = query[q].input /\ query'[q].output = query[q].output
              /\ query'[q].left = query[q].left /\ query'[q].mode = query[q].mode
              /\ query'[q].knows = query[q].knows
<1>1. query[q] \in C!Queries /\ query \in [C!Authorities -> C!Queries]
  BY DEF C!TypeOK
<1>2. C!NoQuery \in C!Queries
  BY DEF C!NoQuery, C!Queries
<1>3. stored \in Nat /\ history \subseteq Nat
  BY DEF C!TypeOK
<1>4. ASSUME C!CreateRuntime(q)
      PROVE  /\ Others(q) /\ query'[q] \in C!Queries
             /\ query'[q].input = <<>> /\ query'[q].output = <<>> /\ query'[q].works = 0
             /\ query'[q].left = FALSE /\ query'[q].state = "open"
             /\ query'[q].knows = IF stored = 0 THEN {} ELSE history
  <2>. DEFINE knows == IF stored = 0 THEN {} ELSE history
              e == [C!NoQuery EXCEPT !.state = "open", !.session = stored, !.knows = knows]
  <2>1. knows \in SUBSET Nat
    BY <1>3
  <2>2. query' = [query EXCEPT ![q] = e]
    BY <1>4 DEF C!CreateRuntime
  <2>. HIDE DEF knows
  <2>3. /\ e \in C!Queries /\ e.input = <<>> /\ e.output = <<>> /\ e.works = 0
        /\ e.left = FALSE /\ e.state = "open" /\ e.knows = knows
    BY <1>2, <1>3, <2>1 DEF C!NoQuery, C!Queries
  <2>. HIDE DEF e
  <2>4. query'[q] = e /\ Others(q)
    BY <1>1, <2>2 DEF Others
  <2>. QED
    BY <2>3, <2>4 DEF knows
<1>5. ASSUME C!Close(q)
      PROVE  /\ Others(q) /\ query'[q] = C!NoQuery
  BY <1>1, <1>5 DEF C!Close, Others
<1>6. ASSUME C!StreamFails(q)
      PROVE  /\ Others(q) /\ query'[q] \in C!Queries
             /\ query[q].state = "open" /\ query'[q].state = "ended" /\ query'[q].works = 0
             /\ query'[q].input = query[q].input /\ query'[q].output = query[q].output
             /\ query'[q].left = query[q].left /\ query'[q].mode = query[q].mode
             /\ query'[q].knows = query[q].knows
  BY <1>1, <1>6 DEF C!StreamFails, C!Queries, Others
<1>7. /\ C!NoQuery.input = <<>> /\ C!NoQuery.output = <<>> /\ C!NoQuery.works = 0
      /\ C!NoQuery.left = FALSE /\ C!NoQuery.state = "none"
  BY DEF C!NoQuery
<1>. QED
  BY <1>2, <1>4, <1>5, <1>6, <1>7

\* The settings of a turn, in force or not, and its prompt.
LEMMA FailsEarlySo ==
  ASSUME C!TypeOK, C!FailsEarly
  PROVE  \A q \in C!Authorities :
            /\ query'[q] \in C!Queries /\ query'[q].state = query[q].state
            /\ query'[q].input = query[q].input /\ query'[q].output = query[q].output
            /\ query'[q].works = query[q].works /\ query'[q].left = query[q].left
            /\ query'[q].knows = query[q].knows
<1>1. query \in [C!Authorities -> C!Queries]
  BY DEF C!TypeOK
<1>2. claudeTurn.of \in C!Authorities /\ claudeTurn.mode \in C!Modes
  BY DEF C!TypeOK, C!Turns, C!NoTurn, C!FailsEarly
<1>3. CASE query' = query
  BY <1>1, <1>3
<1>4. CASE query' = [query EXCEPT ![claudeTurn.of].mode = claudeTurn.mode]
  <2>1. \A q \in C!Authorities : query[q] \in C!Queries
    BY <1>1
  <2>2. \A q \in C!Authorities : query'[q] = IF q = claudeTurn.of
            THEN [query[q] EXCEPT !.mode = claudeTurn.mode] ELSE query[q]
    BY <1>1, <1>2, <1>4
  <2>. SUFFICES ASSUME NEW q \in C!Authorities
       PROVE  /\ query'[q] \in C!Queries /\ query'[q].state = query[q].state
              /\ query'[q].input = query[q].input /\ query'[q].output = query[q].output
              /\ query'[q].works = query[q].works /\ query'[q].left = query[q].left
              /\ query'[q].knows = query[q].knows
    OBVIOUS
  <2>3. CASE q = claudeTurn.of
    <3>1. query[q] \in C!Queries /\ query'[q] = [query[q] EXCEPT !.mode = claudeTurn.mode]
      BY <2>1, <2>2, <2>3
    <3>. QED
      BY <1>2, <3>1 DEF C!Queries
  <2>4. CASE q # claudeTurn.of
    BY <2>1, <2>2, <2>4
  <2>. QED
    BY <2>3, <2>4
<1>. QED
  BY <1>3, <1>4 DEF C!FailsEarly

LEMMA PushSo ==
  ASSUME C!TypeOK, C!Push
  PROVE  LET q == claudeTurn.of   new == Len(claudePrompts) + 1 IN
         /\ q \in C!Authorities /\ Others(q) /\ query'[q] \in C!Queries
         /\ query[q].state = "open" /\ query'[q].state = "open"
         /\ query'[q].left = query[q].left /\ query'[q].works = query[q].works
         /\ query'[q].output = query[q].output /\ query'[q].mode = claudeTurn.mode
         /\ query'[q].knows = query[q].knows
         /\ query'[q].input = Append(query[q].input, new)
         /\ claudeTurn.step = "settings"
         /\ claudeTurn' = [step |-> "reading", of |-> q, mode |-> claudeTurn.mode, prompt |-> new]
         /\ claudeTurn' \in C!Turns
         /\ claudePrompts' \in Seq(C!Prompts) /\ new \notin DOMAIN claudePrompts /\ new \in Nat
         /\ DOMAIN claudePrompts' = (DOMAIN claudePrompts) \union {new}
         /\ \A p \in DOMAIN claudePrompts : claudePrompts'[p] = claudePrompts[p]
         /\ claudePrompts'[new].mode = claudeTurn.mode /\ claudePrompts'[new].alone = ~query[q].left
         /\ claudePrompts'[new].under = {} /\ claudePrompts'[new].unknown = {}
<1>. DEFINE q == claudeTurn.of
            new == Len(claudePrompts) + 1
            e == [mode |-> claudeTurn.mode, under |-> {}, unknown |-> {}, text |-> 0,
                  alone |-> ~query[q].left]
<1>1. /\ q \in C!Authorities /\ claudeTurn.mode \in C!Modes /\ claudeTurn.step = "settings"
      /\ query[q].state = "open"
  BY DEF C!TypeOK, C!Turns, C!NoTurn, C!Push
<1>2. query[q] \in C!Queries /\ query \in [C!Authorities -> C!Queries]
  BY <1>1 DEF C!TypeOK
<1>3. /\ e \in C!Prompts /\ e.mode = claudeTurn.mode /\ e.alone = ~query[q].left
      /\ e.under = {} /\ e.unknown = {}
  BY <1>1, <1>2 DEF C!Prompts, C!Queries
<1>4. /\ claudePrompts' = Append(claudePrompts, e)
      /\ query' = [query EXCEPT ![q].mode = claudeTurn.mode, ![q].input = Append(@, new)]
      /\ claudeTurn' = [step |-> "reading", of |-> q, mode |-> claudeTurn.mode, prompt |-> new]
  BY DEF C!Push
<1>5. claudePrompts \in Seq(C!Prompts)
  BY DEF C!TypeOK
<1>6. new \in Nat
  BY <1>5
<1>7. claudeTurn' \in C!Turns
  BY <1>1, <1>4, <1>6 DEF C!Turns
<1>. HIDE DEF e, q
<1>8. /\ claudePrompts' \in Seq(C!Prompts) /\ new \notin DOMAIN claudePrompts
      /\ DOMAIN claudePrompts' = (DOMAIN claudePrompts) \union {new}
      /\ \A p \in DOMAIN claudePrompts : claudePrompts'[p] = claudePrompts[p]
      /\ claudePrompts'[new] = e
  BY <1>3, <1>4, <1>5, AppendedIsLast
<1>. HIDE DEF new
<1>9. Append(query[q].input, new) \in Seq(Nat)
  BY <1>2, <1>6, AppendedIsLast DEF C!Queries
<1>10. /\ Others(q) /\ query'[q] \in C!Queries
       /\ query'[q].state = query[q].state
       /\ query'[q].left = query[q].left /\ query'[q].works = query[q].works
       /\ query'[q].output = query[q].output /\ query'[q].mode = claudeTurn.mode
       /\ query'[q].knows = query[q].knows
       /\ query'[q].input = Append(query[q].input, new)
  BY <1>1, <1>2, <1>4, <1>9 DEF C!Queries, Others
<1>. QED
  BY <1>1, <1>3, <1>4, <1>6, <1>7, <1>8, <1>10 DEF q, new

\* A message is taken off the stream; what throws leaves the rest of its prompt there.
LEMMA ReadSo ==
  ASSUME C!TypeOK, C!TurnIsPlaced, C!Read
  PROVE  LET q == claudeTurn.of   m == Head(query[q].output) IN
         /\ q \in C!Authorities /\ Others(q) /\ query'[q] \in C!Queries
         /\ claudeTurn.step = "reading" /\ query[q].output # <<>> /\ m \in C!Messages
         /\ query'[q].state = query[q].state /\ query'[q].input = query[q].input
         /\ query'[q].works = query[q].works /\ query'[q].mode = query[q].mode
         /\ query'[q].knows = query[q].knows /\ query'[q].output = Tail(query[q].output)
         /\ UNCHANGED <<history, queries>>
         /\ \/ /\ claudeTurn' = C!NoTurn /\ UNCHANGED <<stored, claudeAnswers>>
               /\ query'[q].left = (query[q].left \/ m.kind = "text")
               /\ claudePrompts' \in Seq(C!Prompts) /\ DOMAIN claudePrompts' = DOMAIN claudePrompts
               /\ \A p \in DOMAIN claudePrompts \ {claudeTurn.prompt} : claudePrompts'[p] = claudePrompts[p]
               /\ claudePrompts'[claudeTurn.prompt] = [claudePrompts[claudeTurn.prompt] EXCEPT !.alone = FALSE]
            \/ /\ query'[q].left = query[q].left /\ claudePrompts' = claudePrompts /\ stored' = m.session
               /\ claudeTurn' = IF m.kind = "text" THEN claudeTurn ELSE C!NoTurn
               /\ claudeAnswers' = IF m.kind = "result"
                             THEN claudeAnswers \union {[to |-> claudeTurn.prompt, of |-> m.of]} ELSE claudeAnswers
<1>. DEFINE q == claudeTurn.of
            m == Head(query[q].output)
<1>1. q \in C!Authorities /\ claudeTurn.step = "reading" /\ query[q].output # <<>>
  BY DEF C!TypeOK, C!Turns, C!NoTurn, C!Read
<1>2. query[q] \in C!Queries /\ query \in [C!Authorities -> C!Queries]
  BY <1>1 DEF C!TypeOK
<1>3. query[q].output \in Seq(C!Messages)
  BY <1>2 DEF C!Queries
<1>4. m \in C!Messages /\ Tail(query[q].output) \in Seq(C!Messages)
  BY <1>1, <1>3, HeadAndTail
<1>5. claudeTurn.prompt \in DOMAIN claudePrompts
  BY <1>1 DEF C!TurnIsPlaced
<1>6. claudePrompts[claudeTurn.prompt] \in C!Prompts /\ claudePrompts \in Seq(C!Prompts)
  BY <1>5, ClaudePromptsAreTyped DEF C!TypeOK
<1>. DEFINE e == [claudePrompts[claudeTurn.prompt] EXCEPT !.alone = FALSE]
<1>7. e \in C!Prompts
  BY <1>6 DEF C!Prompts
<1>8. CASE /\ claudeTurn' = C!NoTurn /\ UNCHANGED <<stored, claudeAnswers>>
           /\ query' = [query EXCEPT ![q].session = m.session, ![q].output = Tail(@),
                                     ![q].left = @ \/ m.kind = "text"]
           /\ claudePrompts' = [claudePrompts EXCEPT ![claudeTurn.prompt].alone = FALSE]
  <2>1. /\ Others(q) /\ query'[q] \in C!Queries
        /\ query'[q].state = query[q].state /\ query'[q].input = query[q].input
        /\ query'[q].works = query[q].works /\ query'[q].mode = query[q].mode
        /\ query'[q].knows = query[q].knows /\ query'[q].output = Tail(query[q].output)
        /\ query'[q].left = (query[q].left \/ m.kind = "text")
    <3>1. m.session \in Nat /\ (query[q].left \/ m.kind = "text") \in BOOLEAN
      BY <1>2, <1>4 DEF C!Messages, C!Queries
    <3>. HIDE DEF m, q
    <3>. QED
      BY <1>1, <1>2, <1>4, <1>8, <3>1 DEF C!Queries, Others
  <2>2. claudePrompts' = [claudePrompts EXCEPT ![claudeTurn.prompt] = e]
    BY <1>5, <1>8
  <2>. HIDE DEF e
  <2>3. /\ claudePrompts' \in Seq(C!Prompts) /\ DOMAIN claudePrompts' = DOMAIN claudePrompts
        /\ \A p \in DOMAIN claudePrompts \ {claudeTurn.prompt} : claudePrompts'[p] = claudePrompts[p]
        /\ claudePrompts'[claudeTurn.prompt] = e
    BY <1>5, <1>6, <1>7, <2>2, ReplacedKeepsType
  <2>. QED
    BY <1>1, <1>4, <1>8, <2>1, <2>3 DEF C!Read, e
<1>9. CASE /\ query' = [query EXCEPT ![q].session = m.session, ![q].output = Tail(@)]
           /\ stored' = m.session /\ claudeTurn' = IF m.kind = "text" THEN claudeTurn ELSE C!NoTurn
           /\ claudeAnswers' = IF m.kind = "result"
                         THEN claudeAnswers \union {[to |-> claudeTurn.prompt, of |-> m.of]} ELSE claudeAnswers
           /\ UNCHANGED claudePrompts
  <2>1. /\ Others(q) /\ query'[q] \in C!Queries
        /\ query'[q].state = query[q].state /\ query'[q].input = query[q].input
        /\ query'[q].works = query[q].works /\ query'[q].mode = query[q].mode
        /\ query'[q].knows = query[q].knows /\ query'[q].output = Tail(query[q].output)
        /\ query'[q].left = query[q].left
    <3>1. m.session \in Nat
      BY <1>4 DEF C!Messages
    <3>. HIDE DEF m, q
    <3>. QED
      BY <1>1, <1>2, <1>4, <1>9, <3>1 DEF C!Queries, Others
  <2>. QED
    BY <1>1, <1>4, <1>9, <2>1 DEF C!Read
<1>. QED
  BY <1>8, <1>9 DEF C!Read


\* Whatever happens to one query, there is one per authority.
LEMMA QueryIsKept ==
  ASSUME C!TypeOK, NEW q \in C!Authorities, NEW e, e \in C!Queries,
         query' = [query EXCEPT ![q] = e]
  PROVE  query' \in [C!Authorities -> C!Queries]
BY DEF C!TypeOK

LEMMA ClaudeQueriesStay ==
  ASSUME C!TypeOK, C!TurnIsPlaced, \A q \in C!Authorities : C!StreamIsOwn(q), C!Next
  PROVE  query' \in [C!Authorities -> C!Queries]
<1>1. query \in [C!Authorities -> C!Queries]
  BY DEF C!TypeOK
<1>2. ASSUME NEW q \in C!Authorities, C!CreateRuntime(q) \/ C!Close(q) \/ C!StreamFails(q)
      PROVE  query' = [query EXCEPT ![q] = query'[q]] /\ query'[q] \in C!Queries
  <2>1. query'[q] \in C!Queries
    BY <1>2, RuntimesSo
  <2>2. query' = [query EXCEPT ![q] = query'[q]]
    BY <1>1, <1>2 DEF C!CreateRuntime, C!Close, C!StreamFails
  <2>. QED
    BY <2>1, <2>2
<1>3. ASSUME NEW q \in C!Authorities, C!Takes(q) \/ C!Writes(q)
      PROVE  query' = [query EXCEPT ![q] = query'[q]] /\ query'[q] \in C!Queries
  <2>1. query'[q] \in C!Queries
    BY <1>3, TakesSo, WritesSo
  <2>2. query' = [query EXCEPT ![q] = query'[q]]
    BY <1>1, <1>3 DEF C!Takes, C!Writes
  <2>. QED
    BY <2>1, <2>2
<1>4. ASSUME NEW q \in C!Authorities, NEW kind \in {"result", "error"}, C!Results(q, kind)
      PROVE  query' = [query EXCEPT ![q] = query'[q]] /\ query'[q] \in C!Queries
  <2>1. query'[q] \in C!Queries
    BY <1>4, ResultsSo
  <2>2. query' = [query EXCEPT ![q] = query'[q]]
    BY <1>1, <1>4 DEF C!Results
  <2>. QED
    BY <2>1, <2>2
<1>5. CASE C!Push
  <2>1. claudeTurn.of \in C!Authorities /\ query'[claudeTurn.of] \in C!Queries
    BY <1>5, PushSo
  <2>2. query' = [query EXCEPT ![claudeTurn.of] = query'[claudeTurn.of]]
    BY <1>1, <1>5, <2>1 DEF C!Push
  <2>. QED
    BY <2>1, <2>2, QueryIsKept
<1>6. CASE C!Read
  <2>1. claudeTurn.of \in C!Authorities /\ query'[claudeTurn.of] \in C!Queries
    BY <1>6, ReadSo
  <2>2. query' = [query EXCEPT ![claudeTurn.of] = query'[claudeTurn.of]]
    BY <1>1, <1>6, <2>1 DEF C!Read
  <2>. QED
    BY <2>1, <2>2, QueryIsKept
<1>7. CASE C!FailsEarly
  <2>1. claudeTurn.of \in C!Authorities
    BY <1>7 DEF C!TypeOK, C!Turns, C!NoTurn, C!FailsEarly
  <2>2. query'[claudeTurn.of] \in C!Queries
    BY <1>7, <2>1, FailsEarlySo
  <2>3. query' = [query EXCEPT ![claudeTurn.of] = query'[claudeTurn.of]]
    BY <1>1, <1>7, <2>1 DEF C!FailsEarly
  <2>. QED
    BY <2>1, <2>2, <2>3, QueryIsKept
<1>8. CASE C!StreamEnded \/ \E mode \in C!Modes : C!BeginTurn(mode)
  BY <1>1, <1>8 DEF C!StreamEnded, C!BeginTurn
<1>. QED
  BY <1>2, <1>3, <1>4, <1>5, <1>6, <1>7, <1>8, QueryIsKept DEF C!Next

LEMMA ClaudeTypeIsInductive ==
  ASSUME C!TypeOK, C!ClaudeInv, [C!Next]_C!vars
  PROVE  C!TypeOK'
<1>1. /\ stored \in Nat /\ history \subseteq Nat /\ queries \in Nat
      /\ claudeTurn \in C!Turns /\ claudePrompts \in Seq(C!Prompts)
      /\ claudeAnswers \subseteq [to: DOMAIN claudePrompts, of: Nat]
      /\ query \in [C!Authorities -> C!Queries]
  BY DEF C!TypeOK
<1>2. C!TurnIsPlaced /\ \A q \in C!Authorities : C!StreamIsOwn(q)
  BY DEF C!ClaudeInv
<1>3. C!NoTurn \in C!Turns
  BY DEF C!Turns
<1>4. ASSUME C!Next PROVE query' \in [C!Authorities -> C!Queries]
  BY <1>2, <1>4, ClaudeQueriesStay
<1>5. CASE C!FailsEarly
  BY <1>1, <1>3, <1>4, <1>5 DEF C!Next, C!FailsEarly, C!TypeOK
<1>6. CASE C!Push
  <2>1. /\ claudeTurn' \in C!Turns /\ claudePrompts' \in Seq(C!Prompts)
        /\ DOMAIN claudePrompts \subseteq DOMAIN claudePrompts' /\ UNCHANGED <<stored, history, queries, claudeAnswers>>
    BY <1>6, PushSo DEF C!Push
  <2>. QED
    BY <1>1, <1>4, <1>6, <2>1 DEF C!Next, C!TypeOK
<1>7. CASE C!Read
  <2>. DEFINE m == Head(query[claudeTurn.of].output)
  <2>1. /\ m \in C!Messages /\ claudeTurn.step = "reading" /\ UNCHANGED <<history, queries>>
        /\ claudeTurn' = C!NoTurn \/ claudeTurn' = claudeTurn
        /\ claudePrompts' \in Seq(C!Prompts) /\ DOMAIN claudePrompts' = DOMAIN claudePrompts
        /\ stored' = stored \/ stored' = m.session
        /\ claudeAnswers' = claudeAnswers \/ claudeAnswers' = claudeAnswers \union {[to |-> claudeTurn.prompt, of |-> m.of]}
    BY <1>1, <1>2, <1>7, ReadSo
  <2>2. claudeTurn.prompt \in DOMAIN claudePrompts
    BY <1>2, <2>1 DEF C!TurnIsPlaced
  <2>3. m.session \in Nat /\ m.of \in Nat
    BY <2>1 DEF C!Messages
  <2>. HIDE DEF m
  <2>. QED
    BY <1>1, <1>3, <1>4, <1>7, <2>1, <2>2, <2>3 DEF C!Next, C!TypeOK
<1>8. CASE C!StreamEnded
  BY <1>1, <1>3, <1>8 DEF C!StreamEnded, C!TypeOK
<1>9. ASSUME NEW mode \in C!Modes, C!BeginTurn(mode) PROVE C!TypeOK'
  <2>1. C!Authority(mode) \in C!Authorities
    BY DEF C!Authority, C!Authorities
  <2>2. claudeTurn' \in C!Turns
    BY <1>9, <2>1 DEF C!BeginTurn, C!Turns
  <2>3. stored' \in Nat
    BY <1>1, <1>9, <2>1 DEF C!BeginTurn, C!Queries
  <2>. QED
    BY <1>1, <1>9, <2>2, <2>3 DEF C!BeginTurn, C!TypeOK
<1>10. ASSUME NEW q \in C!Authorities, C!CreateRuntime(q) \/ C!Close(q) \/ C!StreamFails(q)
       PROVE  C!TypeOK'
  <2>1. /\ UNCHANGED <<stored, history, claudeTurn, claudePrompts, claudeAnswers>>
        /\ queries' = queries \/ queries' = queries + 1
    BY <1>10 DEF C!CreateRuntime, C!Close, C!StreamFails
  <2>2. query' \in [C!Authorities -> C!Queries]
    BY <1>4, <1>10 DEF C!Next
  <2>. QED
    BY <1>1, <2>1, <2>2 DEF C!TypeOK
<1>11. ASSUME NEW q \in C!Authorities, C!Takes(q) PROVE C!TypeOK'
  <2>1. Told(q, Head(query[q].input)) /\ history' = history
    BY <1>2, <1>11, TakesTells
  <2>2. query' \in [C!Authorities -> C!Queries]
    BY <1>4, <1>11 DEF C!Next
  <2>. QED
    BY <1>1, <2>1, <2>2 DEF Told, SamePrompts, C!TypeOK
<1>12. ASSUME NEW q \in C!Authorities,
              C!Writes(q) \/ \E kind \in {"result", "error"} : C!Results(q, kind)
       PROVE  C!TypeOK'
  <2>1. Told(q, query[q].works)
    BY <1>2, <1>12, WorksTells
  <2>2. query' \in [C!Authorities -> C!Queries]
    BY <1>4, <1>12 DEF C!Next
  <2>3. history' \subseteq Nat
    <3>1. query[q].works \in Nat
      BY <1>1 DEF C!Queries
    <3>. QED
      BY <1>1, <1>12, <3>1 DEF C!Writes, C!Results
  <2>. QED
    BY <1>1, <2>1, <2>2, <2>3 DEF Told, SamePrompts, C!TypeOK
<1>13. CASE UNCHANGED C!vars
  BY <1>1, <1>13 DEF C!vars, C!TypeOK
<1>. QED
  BY <1>5, <1>6, <1>7, <1>8, <1>9, <1>10, <1>11, <1>12, <1>13 DEF C!Next


(***************************************************************************)
(* The stream of a query is that of its turn.                              *)
(***************************************************************************)
QueryIsOwn(q) == C!StreamIsOwn(q) /\ C!OneAtATime(q) /\ C!WorksWhileOpen(q)
StreamsAreOwn == (\A q \in C!Authorities : QueryIsOwn(q)) /\ C!TurnIsPlaced

\* A stream into which nothing comes stays its turn's, or ends.
LEMMA StreamStays ==
  ASSUME NEW q, C!StreamIsOwn(q),
         C!InStream(q)' \subseteq C!InStream(q), query'[q].left = query[q].left,
         query'[q].state = query[q].state \/ query'[q].state = "ended",
         \A p \in DOMAIN claudePrompts : p \in DOMAIN claudePrompts' /\ (claudePrompts'[p].alone => claudePrompts[p].alone),
         C!Reads(q)' => C!Reads(q) /\ claudeTurn'.prompt = claudeTurn.prompt,
         C!Reads(q) => C!Reads(q)' \/ query'[q].state = "ended" \/ query[q].left
  PROVE  C!StreamIsOwn(q)'
BY DEF C!StreamIsOwn

\* A query that nobody touches, and whose turn stays.
LEMMA OthersStay ==
  ASSUME NEW q, QueryIsOwn(q), query'[q] = query[q],
         \A p \in DOMAIN claudePrompts : p \in DOMAIN claudePrompts' /\ (claudePrompts'[p].alone => claudePrompts[p].alone),
         C!Reads(q)' <=> C!Reads(q), C!Reads(q) => claudeTurn'.prompt = claudeTurn.prompt
  PROVE  QueryIsOwn(q)'
<1>1. C!InStream(q)' = C!InStream(q)
  BY DEF C!InStream
<1>2. C!StreamIsOwn(q)'
  BY <1>1 DEF C!StreamIsOwn, QueryIsOwn
<1>. QED
  BY <1>2 DEF QueryIsOwn, C!OneAtATime, C!WorksWhileOpen

\* Nothing is before a query that is open, has not been given up, and has no turn.
LEMMA OpenIsIdle ==
  ASSUME C!TypeOK, NEW q \in C!Authorities, C!StreamIsOwn(q), ~query[q].left, ~C!Reads(q),
         query[q].state = "open"
  PROVE  query[q].input = <<>> /\ query[q].output = <<>> /\ query[q].works = 0
BY InStreamSo DEF C!StreamIsOwn

\* The last message of a query that has not been given up is the only thing before it.
LEMMA LastIsLast ==
  ASSUME C!TypeOK, NEW q \in C!Authorities, C!OneAtATime(q), ~query[q].left,
         query[q].output # <<>>, Head(query[q].output).kind # "text"
  PROVE  query[q].input = <<>> /\ query[q].works = 0 /\ Tail(query[q].output) = <<>>
<1>1. query[q] \in C!Queries
  BY QueriesAreTyped
<1>2. query[q].output \in Seq(C!Messages)
  BY <1>1 DEF C!Queries
<1>3. 1 \in DOMAIN query[q].output /\ Head(query[q].output) = query[q].output[1]
  BY <1>2, HeadAndTail
<1>4. 1 = Len(query[q].output) /\ query[q].input = <<>> /\ query[q].works = 0
  BY <1>3 DEF C!OneAtATime
<1>5. Tail(query[q].output) \in Seq(C!Messages) /\ Len(Tail(query[q].output)) = 0
  BY <1>2, <1>4, HeadAndTail
<1>6. Tail(query[q].output) = <<>>
  BY <1>5, NothingIsEmpty
<1>. QED
  BY <1>4, <1>6

LEMMA PushedIsOwn ==
  ASSUME C!TypeOK, StreamsAreOwn, C!Push
  PROVE  StreamsAreOwn'
<1>0. PICK q, new : q = claudeTurn.of /\ new = Len(claudePrompts) + 1
  OBVIOUS
<1>1. /\ q \in C!Authorities /\ Others(q)
      /\ query[q].state = "open" /\ query'[q].state = "open"
      /\ query'[q].left = query[q].left /\ query'[q].works = query[q].works
      /\ query'[q].output = query[q].output /\ query'[q].mode = claudeTurn.mode
      /\ query'[q].input = Append(query[q].input, new) /\ claudeTurn.step = "settings"
      /\ claudeTurn' = [step |-> "reading", of |-> q, mode |-> claudeTurn.mode, prompt |-> new]
      /\ new \notin DOMAIN claudePrompts /\ new \in Nat
      /\ DOMAIN claudePrompts' = (DOMAIN claudePrompts) \union {new}
      /\ \A p \in DOMAIN claudePrompts : claudePrompts'[p] = claudePrompts[p]
      /\ claudePrompts'[new].mode = claudeTurn.mode /\ claudePrompts'[new].alone = ~query[q].left
      /\ query'[q] \in C!Queries
  BY <1>0, PushSo
<1>2. C!StreamIsOwn(q) /\ C!OneAtATime(q) /\ C!WorksWhileOpen(q) /\ query[q] \in C!Queries
  BY <1>1, QueriesAreTyped DEF StreamsAreOwn, QueryIsOwn
<1>3. query[q].input \in Seq(Nat) /\ query[q].left \in BOOLEAN
  BY <1>2 DEF C!Queries
<1>4. /\ DOMAIN query'[q].input = (DOMAIN query[q].input) \union {Len(query[q].input) + 1}
      /\ \A i \in DOMAIN query[q].input : query'[q].input[i] = query[q].input[i]
      /\ query'[q].input[Len(query[q].input) + 1] = new
  <2>1. query'[q].input = Append(query[q].input, new) /\ new \in Nat
    BY <1>1
  <2>. QED
    BY <1>3, <2>1, AppendedIsLast, SMTT(30)
<1>5. ASSUME NEW p \in C!InStream(q)' PROVE p \in C!InStream(q) \union {new}
  <2>1. CASE p \in {query'[q].input[i] : i \in DOMAIN query'[q].input}
    BY <1>4, <2>1 DEF C!InStream
  <2>2. CASE p \notin {query'[q].input[i] : i \in DOMAIN query'[q].input}
    BY <1>1, <2>2 DEF C!InStream
  <2>. QED
    BY <2>1, <2>2
<1>6. ~C!Reads(q) /\ C!Reads(q)' /\ claudeTurn'.prompt = new
  BY <1>0, <1>1 DEF C!Reads
<1>7. C!StreamIsOwn(q)'
  <2>1. CASE query[q].left
    BY <1>1, <1>2, <1>5, <2>1 DEF C!StreamIsOwn
  <2>2. CASE ~query[q].left
    <3>1. C!InStream(q) = {}
      BY <1>1, <1>2, <1>6, <2>2 DEF C!StreamIsOwn
    <3>. QED
      BY <1>1, <1>5, <1>6, <2>2, <3>1 DEF C!StreamIsOwn
  <2>. QED
    BY <2>1, <2>2
<1>8. C!OneAtATime(q)'
  <2>. SUFFICES ASSUME ~query[q].left PROVE C!OneAtATime(q)'
    BY <1>1 DEF C!OneAtATime
  <2>1. query[q].input = <<>> /\ query[q].output = <<>> /\ query[q].works = 0
    BY <1>1, <1>2, <1>6, OpenIsIdle
  <2>2. Len(query'[q].input) = 1 /\ query'[q].output = <<>> /\ query'[q].works = 0
    BY <1>1, <2>1
  <2>. QED
    BY <2>2 DEF C!OneAtATime
<1>9. QueryIsOwn(q)'
  BY <1>1, <1>7, <1>8 DEF QueryIsOwn, C!WorksWhileOpen
<1>10. ASSUME NEW o \in C!Authorities, o # q PROVE QueryIsOwn(o)'
  <2>1. query'[o] = query[o] /\ QueryIsOwn(o)
    BY <1>1, <1>10 DEF Others, StreamsAreOwn
  <2>2. ~C!Reads(o) /\ ~C!Reads(o)'
    BY <1>1, <1>10 DEF C!Reads
  <2>. QED
    BY <1>1, <2>1, <2>2, OthersStay
<1>11. C!TurnIsPlaced'
  BY <1>0, <1>1 DEF C!TurnIsPlaced
<1>. QED
  BY <1>9, <1>10, <1>11 DEF StreamsAreOwn


LEMMA ReadIsOwn ==
  ASSUME C!TypeOK, StreamsAreOwn, C!Read
  PROVE  StreamsAreOwn'
<1>0. PICK q, m : q = claudeTurn.of /\ m = Head(query[q].output)
  OBVIOUS
<1>1. C!TurnIsPlaced
  BY DEF StreamsAreOwn
<1>2. /\ q \in C!Authorities /\ Others(q) /\ claudeTurn.step = "reading" /\ query[q].output # <<>>
      /\ query'[q].state = query[q].state /\ query'[q].input = query[q].input
      /\ query'[q].works = query[q].works /\ query'[q].mode = query[q].mode
      /\ query'[q].output = Tail(query[q].output)
      /\ \/ /\ claudeTurn' = C!NoTurn
            /\ query'[q].left = (query[q].left \/ m.kind = "text")
            /\ DOMAIN claudePrompts' = DOMAIN claudePrompts
            /\ \A p \in DOMAIN claudePrompts \ {claudeTurn.prompt} : claudePrompts'[p] = claudePrompts[p]
            /\ claudePrompts'[claudeTurn.prompt] = [claudePrompts[claudeTurn.prompt] EXCEPT !.alone = FALSE]
         \/ /\ query'[q].left = query[q].left /\ claudePrompts' = claudePrompts
            /\ claudeTurn' = IF m.kind = "text" THEN claudeTurn ELSE C!NoTurn
  BY <1>0, <1>1, ReadSo
<1>3. C!StreamIsOwn(q) /\ C!OneAtATime(q) /\ C!WorksWhileOpen(q) /\ query[q] \in C!Queries
  BY <1>2, QueriesAreTyped DEF StreamsAreOwn, QueryIsOwn
<1>4. query[q].output \in Seq(C!Messages) /\ query[q].left \in BOOLEAN
  BY <1>3 DEF C!Queries
<1>5. /\ claudeTurn.prompt \in DOMAIN claudePrompts /\ claudePrompts[claudeTurn.prompt].mode = claudeTurn.mode
      /\ query[q].mode = claudeTurn.mode /\ claudePrompts[claudeTurn.prompt].alone => ~query[q].left
  BY <1>0, <1>1, <1>2 DEF C!TurnIsPlaced
<1>6. claudePrompts[claudeTurn.prompt] \in C!Prompts
  BY <1>5, ClaudePromptsAreTyped
<1>7. /\ DOMAIN claudePrompts' = DOMAIN claudePrompts
      /\ \A p \in DOMAIN claudePrompts : claudePrompts'[p].alone => claudePrompts[p].alone
      /\ claudeTurn' = C!NoTurn =>
            \A p \in DOMAIN claudePrompts : p = claudeTurn.prompt /\ claudePrompts' # claudePrompts => ~claudePrompts'[p].alone
  BY <1>2, <1>5, <1>6 DEF C!Prompts
<1>8. \A i \in DOMAIN query'[q].output :
          /\ i + 1 \in DOMAIN query[q].output /\ query'[q].output[i] = query[q].output[i + 1]
          /\ i + 1 = Len(query[q].output) => i = Len(query'[q].output)
  BY <1>2, <1>4, HeadAndTail
<1>9. C!InStream(q)' \subseteq C!InStream(q)
  BY <1>2, <1>8 DEF C!InStream
<1>10. C!Reads(q)
  BY <1>0, <1>2 DEF C!Reads
<1>11. QueryIsOwn(q)'
  <2>1. CASE query[q].left
    <3>1. query'[q].left
      BY <1>2, <2>1
    <3>2. C!StreamIsOwn(q)'
      BY <1>2, <1>3, <1>7, <1>9, <2>1, <3>1 DEF C!StreamIsOwn
    <3>. QED
      BY <1>2, <1>3, <3>1, <3>2 DEF QueryIsOwn, C!OneAtATime, C!WorksWhileOpen
  <2>2. CASE ~query[q].left /\ m.kind = "text"
    <3>1. C!OneAtATime(q)'
      BY <1>2, <1>3, <1>8, <2>2 DEF C!OneAtATime
    <3>2. C!StreamIsOwn(q)'
      <4>1. \A p \in C!InStream(q)' : p = claudeTurn.prompt
        BY <1>3, <1>9, <1>10, <2>2 DEF C!StreamIsOwn
      <4>2. CASE query'[q].left
        <5>1. ~claudePrompts'[claudeTurn.prompt].alone
          BY <1>2, <1>6, <2>2, <4>2 DEF C!Prompts
        <5>. QED
          BY <1>5, <1>7, <4>1, <4>2, <5>1 DEF C!StreamIsOwn
      <4>3. CASE ~query'[q].left
        <5>1. claudeTurn' = claudeTurn /\ claudePrompts' = claudePrompts
          BY <1>2, <2>2, <4>3
        <5>. QED
          BY <1>5, <1>10, <4>1, <4>3, <5>1 DEF C!StreamIsOwn, C!Reads
      <4>. QED
        BY <4>2, <4>3
    <3>. QED
      BY <1>2, <1>3, <3>1, <3>2 DEF QueryIsOwn, C!WorksWhileOpen
  <2>3. CASE ~query[q].left /\ m.kind # "text"
    <3>1. query[q].input = <<>> /\ query[q].works = 0 /\ Tail(query[q].output) = <<>>
      BY <1>0, <1>2, <1>3, <2>3, LastIsLast
    <3>2. query'[q].input = <<>> /\ query'[q].works = 0 /\ query'[q].output = <<>>
      BY <1>2, <3>1
    <3>3. C!InStream(q)' = {}
      BY <3>2 DEF C!InStream
    <3>. QED
      BY <3>2, <3>3 DEF QueryIsOwn, C!StreamIsOwn, C!OneAtATime, C!WorksWhileOpen
  <2>. QED
    BY <2>1, <2>2, <2>3
<1>12. ASSUME NEW o \in C!Authorities, o # q PROVE QueryIsOwn(o)'
  <2>1. query'[o] = query[o] /\ QueryIsOwn(o)
    BY <1>2, <1>12 DEF Others, StreamsAreOwn
  <2>2. ~C!Reads(o) /\ ~C!Reads(o)'
    BY <1>0, <1>2, <1>12 DEF C!Reads, C!NoTurn
  <2>. QED
    BY <1>7, <2>1, <2>2, OthersStay
<1>13. C!TurnIsPlaced'
  <2>1. CASE claudeTurn' = C!NoTurn
    BY <2>1 DEF C!TurnIsPlaced, C!NoTurn
  <2>2. CASE claudeTurn' = claudeTurn
    BY <1>0, <1>1, <1>2, <1>7, <2>1, <2>2 DEF C!TurnIsPlaced
  <2>. QED
    BY <1>2, <2>1, <2>2
<1>. QED
  BY <1>11, <1>12, <1>13 DEF StreamsAreOwn


\* What the query does with a prompt, once it is before it.
LEMMA WorkIsOwn ==
  ASSUME C!TypeOK, StreamsAreOwn, NEW q \in C!Authorities,
         \/ C!Takes(q) \/ C!Writes(q)
         \/ \E kind \in {"result", "error"} : C!Results(q, kind)
  PROVE  StreamsAreOwn'
<1>1. /\ C!StreamIsOwn(q) /\ C!OneAtATime(q) /\ C!WorksWhileOpen(q) /\ query[q] \in C!Queries
      /\ C!TurnIsPlaced
  BY QueriesAreTyped DEF StreamsAreOwn, QueryIsOwn
<1>2. query[q].input \in Seq(Nat) /\ query[q].output \in Seq(C!Messages)
  BY <1>1 DEF C!Queries
<1>3. SamePrompts /\ claudeTurn' = claudeTurn
  BY <1>1, TakesTells, WorksTells DEF Told
<1>4. /\ Others(q) /\ query'[q].state = query[q].state /\ query'[q].left = query[q].left
      /\ query'[q].mode = query[q].mode
  BY TakesSo, WritesSo, ResultsSo
<1>5. C!InStream(q)' \subseteq C!InStream(q) /\ C!OneAtATime(q)' /\ C!WorksWhileOpen(q)'
  <2>1. CASE C!Takes(q)
    <3>1. /\ query[q].state = "open" /\ query[q].works = 0 /\ query[q].input # <<>>
          /\ query'[q].output = query[q].output
          /\ query'[q].input = Tail(query[q].input) /\ query'[q].works = Head(query[q].input)
      BY <2>1, TakesSo
    <3>2. /\ 1 \in DOMAIN query[q].input /\ Head(query[q].input) = query[q].input[1]
          /\ Len(Tail(query[q].input)) = Len(query[q].input) - 1
          /\ Tail(query[q].input) \in Seq(Nat)
          /\ \A i \in DOMAIN Tail(query[q].input) :
                i + 1 \in DOMAIN query[q].input /\ Tail(query[q].input)[i] = query[q].input[i + 1]
      BY <1>2, <3>1, HeadAndTail
    <3>3. C!InStream(q)' \subseteq C!InStream(q)
      BY <3>1, <3>2 DEF C!InStream
    <3>4. ~query[q].left => query'[q].input = <<>> /\ query'[q].output = <<>>
      BY <1>1, <3>1, <3>2, NothingIsEmpty DEF C!OneAtATime
    <3>. QED
      BY <1>4, <3>1, <3>3, <3>4 DEF C!OneAtATime, C!WorksWhileOpen
  <2>2. ASSUME NEW m \in C!Messages, m.of = query[q].works, query[q].works # 0,
               query'[q].input = query[q].input, query'[q].output = Append(query[q].output, m),
               query'[q].works \in {0, query[q].works},
               m.kind # "text" => query'[q].works = 0
        PROVE  C!InStream(q)' \subseteq C!InStream(q) /\ C!OneAtATime(q)' /\ C!WorksWhileOpen(q)'
    <3>. DEFINE n == Len(query[q].output) + 1
    <3>1. /\ DOMAIN query'[q].output = (DOMAIN query[q].output) \union {n}
          /\ \A i \in DOMAIN query[q].output : query'[q].output[i] = query[q].output[i]
          /\ query'[q].output[n] = m
      BY <1>2, <2>2, AppendedIsLast
    <3>2. Append(query[q].output, m) \in Seq(C!Messages) /\ Len(query'[q].output) = n
      BY <1>2, <2>2
    <3>. HIDE DEF n
    <3>3. ASSUME NEW p \in C!InStream(q)' PROVE p \in C!InStream(q)
      <4>1. CASE p \in {query'[q].output[i].of : i \in DOMAIN query'[q].output}
        BY <2>2, <3>1, <4>1 DEF C!InStream
      <4>2. CASE p \notin {query'[q].output[i].of : i \in DOMAIN query'[q].output}
        BY <2>2, <4>2 DEF C!InStream
      <4>. QED
        BY <4>1, <4>2
    <3>4. C!OneAtATime(q)'
      <4>. SUFFICES ASSUME ~query[q].left PROVE C!OneAtATime(q)'
        BY <1>4 DEF C!OneAtATime
      <4>1. /\ query[q].input = <<>>
            /\ \A i \in DOMAIN query[q].output : query[q].output[i].kind = "text"
        BY <1>1, <2>2 DEF C!OneAtATime
      <4>2. query'[q].input = <<>> /\ \A i \in DOMAIN query'[q].output :
               query'[q].output[i].kind # "text" => i = n /\ query'[q].works = 0
        BY <2>2, <3>1, <4>1
      <4>. QED
        BY <3>2, <4>2 DEF C!OneAtATime
    <3>5. C!WorksWhileOpen(q)'
      BY <1>1, <1>4, <2>2 DEF C!WorksWhileOpen
    <3>. QED
      BY <3>3, <3>4, <3>5
  <2>3. CASE C!Writes(q)
    <3>. DEFINE m == [kind |-> "text", of |-> query[q].works, session |-> query[q].told]
    <3>1. m \in C!Messages /\ m.of = query[q].works /\ m.kind = "text"
      BY <1>1 DEF C!Messages, C!Queries
    <3>2. /\ query[q].works # 0 /\ query'[q].input = query[q].input
          /\ query'[q].works = query[q].works /\ query'[q].output = Append(query[q].output, m)
      BY <2>3, WritesSo
    <3>. HIDE DEF m
    <3>. QED
      BY <2>2, <3>1, <3>2
  <2>4. ASSUME NEW kind \in {"result", "error"}, C!Results(q, kind)
        PROVE  C!InStream(q)' \subseteq C!InStream(q) /\ C!OneAtATime(q)' /\ C!WorksWhileOpen(q)'
    <3>. DEFINE m == [kind |-> kind, of |-> query[q].works, session |-> query[q].told]
    <3>1. m \in C!Messages /\ m.of = query[q].works
      BY <1>1 DEF C!Messages, C!Queries
    <3>2. /\ query[q].works # 0 /\ query'[q].input = query[q].input
          /\ query'[q].works = 0 /\ query'[q].output = Append(query[q].output, m)
      BY <2>4, ResultsSo
    <3>. HIDE DEF m
    <3>. QED
      BY <2>2, <3>1, <3>2
  <2>. QED
    BY <2>1, <2>3, <2>4
<1>6. \A p \in DOMAIN claudePrompts : p \in DOMAIN claudePrompts' /\ (claudePrompts'[p].alone => claudePrompts[p].alone)
  BY <1>3 DEF SamePrompts
<1>7. ASSUME NEW o \in C!Authorities PROVE C!Reads(o)' <=> C!Reads(o)
  BY <1>3 DEF C!Reads
<1>8. QueryIsOwn(q)'
  BY <1>1, <1>3, <1>4, <1>5, <1>6, <1>7, StreamStays DEF QueryIsOwn
<1>9. ASSUME NEW o \in C!Authorities, o # q PROVE QueryIsOwn(o)'
  <2>1. query'[o] = query[o] /\ QueryIsOwn(o)
    BY <1>4, <1>9 DEF Others, StreamsAreOwn
  <2>. QED
    BY <1>3, <1>6, <1>7, <2>1, OthersStay
<1>10. C!TurnIsPlaced'
  <2>1. claudeTurn # C!NoTurn => claudeTurn.of \in C!Authorities
    BY DEF C!TypeOK, C!Turns
  <2>2. claudeTurn # C!NoTurn => /\ query'[claudeTurn.of].state = query[claudeTurn.of].state
                                 /\ query'[claudeTurn.of].left = query[claudeTurn.of].left
                                 /\ query'[claudeTurn.of].mode = query[claudeTurn.of].mode
    BY <1>4, <2>1 DEF Others
  <2>. QED
    BY <1>1, <1>3, <2>2 DEF SamePrompts, C!TurnIsPlaced, C!NoTurn
<1>. QED
  BY <1>8, <1>9, <1>10 DEF StreamsAreOwn

\* A runtime that is made, closed or lost.
LEMMA RuntimeIsOwn ==
  ASSUME C!TypeOK, StreamsAreOwn, NEW q \in C!Authorities,
         C!CreateRuntime(q) \/ C!Close(q) \/ C!StreamFails(q)
  PROVE  StreamsAreOwn'
<1>1. QueryIsOwn(q) /\ C!TurnIsPlaced
  BY DEF StreamsAreOwn
<1>2. claudeTurn' = claudeTurn /\ claudePrompts' = claudePrompts /\ Others(q)
  BY RuntimesSo DEF C!CreateRuntime, C!Close, C!StreamFails
<1>3. QueryIsOwn(q)'
  <2>1. CASE C!CreateRuntime(q) \/ C!Close(q)
    <3>1. query'[q].input = <<>> /\ query'[q].output = <<>> /\ query'[q].works = 0
      BY <2>1, RuntimesSo
    <3>2. C!InStream(q)' = {}
      BY <3>1 DEF C!InStream
    <3>. QED
      BY <3>1, <3>2 DEF QueryIsOwn, C!StreamIsOwn, C!OneAtATime, C!WorksWhileOpen
  <2>2. CASE C!StreamFails(q)
    <3>1. /\ query'[q].state = "ended" /\ query'[q].works = 0 /\ query'[q].left = query[q].left
          /\ query'[q].input = query[q].input /\ query'[q].output = query[q].output
      BY <2>2, RuntimesSo
    <3>2. C!InStream(q)' \subseteq C!InStream(q)
      BY <3>1 DEF C!InStream
    <3>3. C!StreamIsOwn(q)'
      BY <1>1, <1>2, <3>1, <3>2 DEF QueryIsOwn, C!StreamIsOwn, C!Reads
    <3>. QED
      BY <1>1, <3>1, <3>3 DEF QueryIsOwn, C!OneAtATime, C!WorksWhileOpen
  <2>. QED
    BY <2>1, <2>2
<1>4. ASSUME NEW o \in C!Authorities, o # q PROVE QueryIsOwn(o)'
  <2>1. query'[o] = query[o] /\ QueryIsOwn(o)
    BY <1>2, <1>4 DEF Others, StreamsAreOwn
  <2>2. (C!Reads(o)' <=> C!Reads(o)) /\ (C!Reads(o) => claudeTurn'.prompt = claudeTurn.prompt)
    BY <1>2 DEF C!Reads
  <2>. QED
    BY <1>2, <2>1, <2>2, OthersStay
<1>5. C!TurnIsPlaced'
  <2>1. CASE claudeTurn = C!NoTurn
    BY <1>2, <2>1 DEF C!TurnIsPlaced, C!NoTurn
  <2>2. CASE claudeTurn # C!NoTurn
    <3>1. claudeTurn.of \in C!Authorities
      BY <2>2 DEF C!TypeOK, C!Turns
    <3>2. /\ query'[claudeTurn.of].state # "none"
          /\ query'[claudeTurn.of].left = query[claudeTurn.of].left /\ query'[claudeTurn.of].mode = query[claudeTurn.of].mode
      <4>1. CASE C!StreamFails(q)
        BY <1>1, <1>2, <2>2, <3>1, <4>1, RuntimesSo DEF Others, C!TurnIsPlaced
      <4>2. CASE C!CreateRuntime(q) \/ C!Close(q)
        <5>1. claudeTurn.of # q
          BY <2>2, <4>2 DEF C!CreateRuntime, C!Close
        <5>. QED
          BY <1>1, <1>2, <2>2, <3>1, <5>1 DEF Others, C!TurnIsPlaced
      <4>. QED
        BY <4>1, <4>2
    <3>. QED
      BY <1>1, <1>2, <3>2 DEF C!TurnIsPlaced
  <2>. QED
    BY <2>1, <2>2
<1>. QED
  BY <1>3, <1>4, <1>5 DEF StreamsAreOwn

LEMMA StreamsAreKept ==
  ASSUME C!TypeOK, StreamsAreOwn, [C!Next]_C!vars
  PROVE  StreamsAreOwn'
<1>1. (\A q \in C!Authorities : QueryIsOwn(q)) /\ C!TurnIsPlaced
  BY DEF StreamsAreOwn
<1>2. CASE C!FailsEarly
  <2>1. claudeTurn' = C!NoTurn /\ claudePrompts' = claudePrompts /\ claudeTurn.step = "settings"
    BY <1>2 DEF C!FailsEarly
  <2>2. ASSUME NEW q \in C!Authorities PROVE QueryIsOwn(q)'
    <3>1. /\ query'[q].state = query[q].state /\ query'[q].input = query[q].input
          /\ query'[q].output = query[q].output /\ query'[q].works = query[q].works
          /\ query'[q].left = query[q].left
      BY <1>2, FailsEarlySo
    <3>2. ~C!Reads(q) /\ ~C!Reads(q)'
      BY <2>1 DEF C!Reads, C!NoTurn
    <3>3. C!InStream(q)' = C!InStream(q)
      BY <3>1 DEF C!InStream
    <3>4. C!StreamIsOwn(q)'
      BY <1>1, <2>1, <3>1, <3>2, <3>3 DEF QueryIsOwn, C!StreamIsOwn
    <3>. QED
      BY <1>1, <3>1, <3>4 DEF QueryIsOwn, C!OneAtATime, C!WorksWhileOpen
  <2>. QED
    BY <2>1, <2>2 DEF StreamsAreOwn, C!TurnIsPlaced, C!NoTurn
<1>3. CASE C!StreamEnded
  <2>1. claudeTurn' = C!NoTurn /\ claudePrompts' = claudePrompts /\ query' = query /\ query[claudeTurn.of].state = "ended"
    BY <1>3 DEF C!StreamEnded
  <2>2. ASSUME NEW q \in C!Authorities PROVE QueryIsOwn(q)'
    <3>1. ~C!Reads(q)' /\ (C!Reads(q) => query[q].state = "ended")
      BY <2>1 DEF C!Reads, C!NoTurn
    <3>2. C!InStream(q)' = C!InStream(q)
      BY <2>1 DEF C!InStream
    <3>3. C!StreamIsOwn(q)'
      BY <1>1, <2>1, <3>1, <3>2 DEF QueryIsOwn, C!StreamIsOwn
    <3>. QED
      BY <1>1, <2>1, <3>3 DEF QueryIsOwn, C!OneAtATime, C!WorksWhileOpen
  <2>. QED
    BY <2>1, <2>2 DEF StreamsAreOwn, C!TurnIsPlaced, C!NoTurn
<1>4. ASSUME NEW mode \in C!Modes, C!BeginTurn(mode) PROVE StreamsAreOwn'
  <2>1. /\ claudeTurn = C!NoTurn /\ claudeTurn'.step = "settings" /\ claudePrompts' = claudePrompts /\ query' = query
        /\ query[claudeTurn'.of].state # "none"
    BY <1>4 DEF C!BeginTurn
  <2>2. ASSUME NEW q \in C!Authorities PROVE QueryIsOwn(q)'
    <3>1. ~C!Reads(q) /\ ~C!Reads(q)'
      BY <2>1 DEF C!Reads, C!NoTurn
    <3>. QED
      BY <1>1, <2>1, <3>1, OthersStay
  <2>. QED
    BY <2>1, <2>2 DEF StreamsAreOwn, C!TurnIsPlaced
<1>5. CASE UNCHANGED C!vars
  <2>1. claudeTurn' = claudeTurn /\ query' = query /\ claudePrompts' = claudePrompts
    BY <1>5 DEF C!vars
  <2>2. ASSUME NEW q \in C!Authorities PROVE QueryIsOwn(q)'
    <3>1. (C!Reads(q)' <=> C!Reads(q)) /\ claudeTurn'.prompt = claudeTurn.prompt
      BY <2>1 DEF C!Reads
    <3>. QED
      BY <1>1, <2>1, <3>1, OthersStay
  <2>. QED
    BY <1>1, <2>1, <2>2 DEF StreamsAreOwn, C!TurnIsPlaced
<1>. QED
  BY <1>2, <1>3, <1>4, <1>5, PushedIsOwn, ReadIsOwn, WorkIsOwn, RuntimeIsOwn DEF C!Next


(***************************************************************************)
(* A turn's answer, the mode of its prompt, and what its query knows.      *)
(***************************************************************************)
\* The answers that there are stay their prompts' own.
LEMMA AnswersStay ==
  ASSUME C!TypeOK, C!AnswersAreOwn, claudeAnswers' = claudeAnswers,
         \A p \in DOMAIN claudePrompts : p \in DOMAIN claudePrompts' /\ (claudePrompts'[p].alone => claudePrompts[p].alone)
  PROVE  C!AnswersAreOwn'
<1>1. \A r \in claudeAnswers : r.to \in DOMAIN claudePrompts
  BY DEF C!TypeOK
<1>. QED
  BY <1>1 DEF C!AnswersAreOwn

\* What a prompt in the stream is told in its query's mode is in its own.
LEMMA ModesStay ==
  ASSUME C!TypeOK, StreamsAreOwn, C!ModesAreOwn, NEW q \in C!Authorities, NEW p, Told(q, p),
         query[q].state = "open"
  PROVE  C!ModesAreOwn'
<1>1. C!StreamIsOwn(q) /\ C!TurnIsPlaced /\ query[q] \in C!Queries
  BY QueriesAreTyped DEF StreamsAreOwn, QueryIsOwn
<1>2. p \in C!InStream(q) /\ p \in DOMAIN claudePrompts
  BY <1>1 DEF Told, C!StreamIsOwn
<1>3. claudePrompts[p].alone => query[q].mode = claudePrompts[p].mode
  <2>. SUFFICES ASSUME claudePrompts[p].alone PROVE query[q].mode = claudePrompts[p].mode
    OBVIOUS
  <2>1. C!Reads(q) /\ p = claudeTurn.prompt
    BY <1>1, <1>2 DEF C!StreamIsOwn
  <2>. QED
    BY <1>1, <2>1 DEF C!TurnIsPlaced, C!Reads
<1>4. ASSUME NEW x \in DOMAIN claudePrompts', claudePrompts'[x].alone
      PROVE  claudePrompts'[x].under \subseteq {claudePrompts'[x].mode}
  <2>1. x \in DOMAIN claudePrompts /\ claudePrompts[x].alone /\ claudePrompts'[x].mode = claudePrompts[x].mode
    BY <1>4 DEF Told, SamePrompts
  <2>2. claudePrompts[x].under \subseteq {claudePrompts[x].mode}
    BY <2>1 DEF C!ModesAreOwn
  <2>3. CASE x = p
    BY <1>3, <2>1, <2>2, <2>3 DEF Told
  <2>4. CASE x # p
    BY <2>1, <2>2, <2>4 DEF Told
  <2>. QED
    BY <2>3, <2>4
<1>. QED
  BY <1>4 DEF C!ModesAreOwn

LEMMA ServedIsOwn ==
  ASSUME C!TypeOK, StreamsAreOwn, C!AnswersAreOwn, C!ModesAreOwn, [C!Next]_C!vars
  PROVE  C!AnswersAreOwn' /\ C!ModesAreOwn'
<1>1. C!TurnIsPlaced /\ \A q \in C!Authorities : C!StreamIsOwn(q) /\ C!WorksWhileOpen(q)
  BY DEF StreamsAreOwn, QueryIsOwn
<1>2. ASSUME UNCHANGED <<claudePrompts, claudeAnswers>> PROVE C!AnswersAreOwn' /\ C!ModesAreOwn'
  BY <1>2 DEF C!AnswersAreOwn, C!ModesAreOwn
<1>3. CASE C!FailsEarly \/ C!StreamEnded \/ UNCHANGED C!vars
  BY <1>2, <1>3 DEF C!FailsEarly, C!StreamEnded, C!vars
<1>4. ASSUME NEW mode \in C!Modes, C!BeginTurn(mode) PROVE C!AnswersAreOwn' /\ C!ModesAreOwn'
  BY <1>2, <1>4 DEF C!BeginTurn
<1>5. ASSUME NEW q \in C!Authorities, C!CreateRuntime(q) \/ C!Close(q) \/ C!StreamFails(q)
      PROVE  C!AnswersAreOwn' /\ C!ModesAreOwn'
  BY <1>2, <1>5 DEF C!CreateRuntime, C!Close, C!StreamFails
<1>6. CASE C!Push
  <2>1. PICK new : /\ DOMAIN claudePrompts' = (DOMAIN claudePrompts) \union {new}
                   /\ \A p \in DOMAIN claudePrompts : claudePrompts'[p] = claudePrompts[p]
                   /\ claudePrompts'[new].under = {}
    BY <1>6, PushSo
  <2>2. claudeAnswers' = claudeAnswers
    BY <1>6 DEF C!Push
  <2>. QED
    BY <2>1, <2>2, AnswersStay DEF C!ModesAreOwn
<1>7. CASE C!Read
  <2>. DEFINE m == Head(query[claudeTurn.of].output)
              r == [to |-> claudeTurn.prompt, of |-> m.of]
  <2>1. /\ claudeTurn.of \in C!Authorities /\ claudeTurn.step = "reading" /\ query[claudeTurn.of].output # <<>>
        /\ \/ /\ claudeAnswers' = claudeAnswers /\ DOMAIN claudePrompts' = DOMAIN claudePrompts
              /\ \A p \in DOMAIN claudePrompts \ {claudeTurn.prompt} : claudePrompts'[p] = claudePrompts[p]
              /\ claudePrompts'[claudeTurn.prompt] = [claudePrompts[claudeTurn.prompt] EXCEPT !.alone = FALSE]
           \/ claudePrompts' = claudePrompts /\ (claudeAnswers' = claudeAnswers \/ claudeAnswers' = claudeAnswers \union {r})
    BY <1>1, <1>7, ReadSo
  <2>2. /\ claudeTurn.prompt \in DOMAIN claudePrompts
        /\ claudePrompts[claudeTurn.prompt].alone => ~query[claudeTurn.of].left
    BY <1>1, <2>1 DEF C!TurnIsPlaced
  <2>3. claudePrompts[claudeTurn.prompt].alone => m.of = claudeTurn.prompt
    BY <1>1, <2>1, <2>2, InStreamSo DEF C!StreamIsOwn, C!Reads
  <2>. HIDE DEF m
  <2>4. CASE claudePrompts' = claudePrompts
    BY <2>1, <2>2, <2>3, <2>4 DEF C!AnswersAreOwn, C!ModesAreOwn
  <2>5. CASE claudePrompts' # claudePrompts
    <3>1. claudePrompts[claudeTurn.prompt] \in C!Prompts
      BY <2>2, ClaudePromptsAreTyped
    <3>2. ~claudePrompts'[claudeTurn.prompt].alone
      BY <2>1, <2>5, <3>1 DEF C!Prompts
    <3>3. C!AnswersAreOwn'
      BY <2>1, <2>5, <3>2, AnswersStay
    <3>. QED
      BY <2>1, <2>5, <3>2, <3>3 DEF C!ModesAreOwn
  <2>. QED
    BY <2>4, <2>5
<1>8. ASSUME NEW q \in C!Authorities,
             \/ C!Takes(q) \/ C!Writes(q)
             \/ \E kind \in {"result", "error"} : C!Results(q, kind)
      PROVE  C!AnswersAreOwn' /\ C!ModesAreOwn'
  <2>1. PICK p : Told(q, p)
    BY <1>1, <1>8, TakesTells, WorksTells
  <2>2. query[q].state = "open"
    BY <1>1, <1>8, TakesSo, WritesSo, ResultsSo DEF C!WorksWhileOpen
  <2>3. C!AnswersAreOwn'
    BY <2>1, AnswersStay DEF Told, SamePrompts
  <2>. QED
    BY <2>1, <2>2, <2>3, ModesStay
<1>. QED
  BY <1>3, <1>4, <1>5, <1>6, <1>7, <1>8 DEF C!Next

\* A step that tells no query anything.
LEMMA NothingLearned ==
  ASSUME C!FirstKnows, UNCHANGED <<history, queries>>,
         \A q \in C!Authorities : /\ query'[q].state = query[q].state
                                  /\ query'[q].knows = query[q].knows
                                  /\ query'[q].works = query[q].works,
         \A p \in DOMAIN claudePrompts' :
            claudePrompts'[p].unknown = {} \/ (p \in DOMAIN claudePrompts /\ claudePrompts'[p].unknown = claudePrompts[p].unknown)
  PROVE  C!FirstKnows'
BY DEF C!FirstKnows

LEMMA FirstStillKnows ==
  ASSUME C!TypeOK, StreamsAreOwn, C!FirstKnows, [C!Next]_C!vars
  PROVE  C!FirstKnows'
<1>1. /\ C!TurnIsPlaced /\ queries \in Nat
      /\ \A q \in C!Authorities : C!StreamIsOwn(q) /\ C!WorksWhileOpen(q)
  BY DEF StreamsAreOwn, QueryIsOwn, C!TypeOK
<1>2. CASE C!FailsEarly
  BY <1>2, FailsEarlySo, NothingLearned DEF C!FailsEarly
<1>3. CASE C!StreamEnded \/ (\E mode \in C!Modes : C!BeginTurn(mode)) \/ UNCHANGED C!vars
  BY <1>3, NothingLearned DEF C!StreamEnded, C!BeginTurn, C!vars
<1>4. CASE C!Push
  <2>1. \A q \in C!Authorities : /\ query'[q].state = query[q].state
                                 /\ query'[q].knows = query[q].knows
                                 /\ query'[q].works = query[q].works
    BY <1>4, PushSo DEF Others
  <2>2. PICK new : /\ DOMAIN claudePrompts' = (DOMAIN claudePrompts) \union {new}
                   /\ \A p \in DOMAIN claudePrompts : claudePrompts'[p] = claudePrompts[p]
                   /\ claudePrompts'[new].unknown = {}
    BY <1>4, PushSo
  <2>. QED
    BY <1>4, <2>1, <2>2, NothingLearned DEF C!Push
<1>5. CASE C!Read
  <2>1. \A q \in C!Authorities : /\ query'[q].state = query[q].state
                                 /\ query'[q].knows = query[q].knows
                                 /\ query'[q].works = query[q].works
    BY <1>1, <1>5, ReadSo DEF Others
  <2>2. /\ UNCHANGED <<history, queries>> /\ claudeTurn.step = "reading"
        /\ \/ /\ DOMAIN claudePrompts' = DOMAIN claudePrompts
              /\ \A p \in DOMAIN claudePrompts \ {claudeTurn.prompt} : claudePrompts'[p] = claudePrompts[p]
              /\ claudePrompts'[claudeTurn.prompt] = [claudePrompts[claudeTurn.prompt] EXCEPT !.alone = FALSE]
           \/ claudePrompts' = claudePrompts
    BY <1>1, <1>5, ReadSo
  <2>3. claudeTurn.prompt \in DOMAIN claudePrompts
    BY <1>1, <2>2 DEF C!TurnIsPlaced
  <2>4. claudePrompts[claudeTurn.prompt] \in C!Prompts
    BY <2>3, ClaudePromptsAreTyped
  <2>5. [claudePrompts[claudeTurn.prompt] EXCEPT !.alone = FALSE].unknown = claudePrompts[claudeTurn.prompt].unknown
    BY <2>4 DEF C!Prompts
  <2>6. \A p \in DOMAIN claudePrompts' : p \in DOMAIN claudePrompts /\ claudePrompts'[p].unknown = claudePrompts[p].unknown
    BY <2>2, <2>3, <2>5
  <2>. QED
    BY <2>1, <2>2, <2>6, NothingLearned
<1>6. ASSUME NEW q \in C!Authorities, C!CreateRuntime(q) PROVE C!FirstKnows'
  <2>1. /\ queries' = queries + 1 /\ UNCHANGED <<history, claudePrompts>> /\ Others(q)
        /\ query'[q].works = 0 /\ query'[q].knows = IF stored = 0 THEN {} ELSE history
    BY <1>6, RuntimesSo DEF C!CreateRuntime
  <2>2. CASE queries = 0
    BY <2>1, <2>2 DEF C!FirstKnows, Others
  <2>3. CASE queries # 0
    BY <1>1, <2>1, <2>3 DEF C!FirstKnows
  <2>. QED
    BY <2>2, <2>3
<1>7. ASSUME NEW q \in C!Authorities, C!Close(q) PROVE C!FirstKnows'
  <2>1. /\ UNCHANGED <<history, queries, claudePrompts>> /\ Others(q) /\ query'[q].state = "none"
    BY <1>7, RuntimesSo DEF C!Close
  <2>2. \A o \in C!Authorities : query'[o].state = "none" \/ query'[o] = query[o]
    BY <2>1 DEF Others
  <2>3. \A o \in C!Authorities : query[o].state = "none" => query'[o].state = "none"
    BY <2>1 DEF Others
  <2>. QED
    BY <2>1, <2>2, <2>3 DEF C!FirstKnows
<1>8. ASSUME NEW q \in C!Authorities, C!StreamFails(q) PROVE C!FirstKnows'
  <2>1. /\ UNCHANGED <<history, queries, claudePrompts>> /\ Others(q) /\ query[q].state = "open"
        /\ query'[q].state = "ended" /\ query'[q].works = 0 /\ query'[q].knows = query[q].knows
    BY <1>8, RuntimesSo DEF C!StreamFails
  <2>2. queries # 0
    BY <2>1 DEF C!FirstKnows
  <2>3. \A o \in C!Authorities : /\ query'[o].state = "none" <=> query[o].state = "none"
                                 /\ query'[o].knows = query[o].knows
                                 /\ query'[o].works \in {0, query[o].works}
    BY <2>1 DEF Others
  <2>. QED
    BY <2>1, <2>2, <2>3 DEF C!FirstKnows
<1>9. ASSUME NEW q \in C!Authorities, C!Takes(q) PROVE C!FirstKnows'
  <2>. DEFINE p == Head(query[q].input)
  <2>1. /\ UNCHANGED <<history, queries>> /\ DOMAIN claudePrompts' = DOMAIN claudePrompts
        /\ \A x \in DOMAIN claudePrompts \ {p} : claudePrompts'[x] = claudePrompts[x]
        /\ claudePrompts'[p].unknown = history \ query[q].knows
    BY <1>1, <1>9, TakesTells DEF Told, SamePrompts
  <2>2. /\ Others(q) /\ query[q].state = "open" /\ query'[q].state = "open"
        /\ query'[q].works = p /\ query'[q].knows = query[q].knows \union {p}
    BY <1>9, TakesSo
  <2>. HIDE DEF p
  <2>3. queries # 0
    BY <2>2 DEF C!FirstKnows
  <2>4. CASE queries = 1
    <3>1. history \subseteq query[q].knows /\ \A o \in C!Authorities \ {q} : query[o].state = "none"
      BY <2>2, <2>4 DEF C!FirstKnows
    <3>2. \A x \in DOMAIN claudePrompts' : claudePrompts'[x].unknown = {}
      BY <2>1, <2>4, <3>1 DEF C!FirstKnows
    <3>3. \A o \in C!Authorities : query'[o].state # "none" => o = q
      BY <2>2, <3>1 DEF Others
    <3>. QED
      BY <2>1, <2>2, <2>4, <3>1, <3>2, <3>3 DEF C!FirstKnows, Others
  <2>5. CASE queries > 1
    BY <1>1, <2>1, <2>5 DEF C!FirstKnows
  <2>. QED
    BY <1>1, <2>3, <2>4, <2>5
<1>10. ASSUME NEW q \in C!Authorities,
              C!Writes(q) \/ \E kind \in {"result", "error"} : C!Results(q, kind)
       PROVE  C!FirstKnows'
  <2>. DEFINE p == query[q].works
  <2>1. /\ queries' = queries /\ DOMAIN claudePrompts' = DOMAIN claudePrompts
        /\ \A x \in DOMAIN claudePrompts : claudePrompts'[x].unknown = claudePrompts[x].unknown
    BY <1>1, <1>10, WorksTells DEF Told, SamePrompts
  <2>2. /\ Others(q) /\ query[q].state = "open" /\ query'[q].state = "open" /\ p # 0
        /\ query'[q].works \in {0, p} /\ query'[q].knows = query[q].knows
    BY <1>1, <1>10, WritesSo, ResultsSo DEF C!WorksWhileOpen
  <2>3. history' \subseteq history \union {p}
    BY <1>10 DEF C!Writes, C!Results
  <2>4. queries # 0
    BY <2>2 DEF C!FirstKnows
  <2>5. CASE queries = 1
    <3>1. /\ history \subseteq query[q].knows /\ p \in query[q].knows
          /\ \A o \in C!Authorities \ {q} : query[o].state = "none"
      BY <2>2, <2>5 DEF C!FirstKnows
    <3>2. \A x \in DOMAIN claudePrompts' : claudePrompts'[x].unknown = {}
      BY <2>1, <2>5 DEF C!FirstKnows
    <3>3. \A o \in C!Authorities : query'[o].state # "none" => o = q
      BY <2>2, <3>1 DEF Others
    <3>. HIDE DEF p
    <3>. QED
      BY <2>1, <2>2, <2>3, <2>5, <3>1, <3>2, <3>3 DEF C!FirstKnows, Others
  <2>6. CASE queries > 1
    BY <1>1, <2>1, <2>6 DEF C!FirstKnows
  <2>. QED
    BY <1>1, <2>4, <2>5, <2>6
<1>. QED
  BY <1>2, <1>3, <1>4, <1>5, <1>6, <1>7, <1>8, <1>9, <1>10 DEF C!Next

\* The invariant of the Claude driver: whose prompts a query has before it, in
\* which order it serves them, and what the first query of an agent knows.
THEOREM ClaudeIsSound == C!Spec => [](C!TypeOK /\ C!ClaudeInv)
<1>1. C!Init => C!TypeOK /\ C!ClaudeInv
  <2>. SUFFICES ASSUME C!Init PROVE C!TypeOK /\ C!ClaudeInv
    OBVIOUS
  <2>1. C!NoQuery \in C!Queries
    BY DEF C!NoQuery, C!Queries
  <2>2. /\ stored = 0 /\ history = {} /\ queries = 0 /\ claudeTurn = C!NoTurn /\ claudePrompts = <<>>
        /\ claudeAnswers = {} /\ query = [q \in C!Authorities |-> C!NoQuery] /\ DOMAIN <<>> = {}
    BY DEF C!Init
  <2>3. C!TypeOK
    BY <2>1, <2>2 DEF C!TypeOK, C!Turns
  <2>4. ASSUME NEW q \in C!Authorities
        PROVE  C!StreamIsOwn(q) /\ C!OneAtATime(q) /\ C!WorksWhileOpen(q)
    <3>1. query[q].input = <<>> /\ query[q].output = <<>> /\ query[q].works = 0
      BY <2>2 DEF C!NoQuery
    <3>2. C!InStream(q) = {}
      BY <3>1 DEF C!InStream
    <3>. QED
      BY <3>1, <3>2 DEF C!StreamIsOwn, C!OneAtATime, C!WorksWhileOpen
  <2>5. C!TurnIsPlaced
    BY <2>2 DEF C!TurnIsPlaced, C!NoTurn
  <2>6. C!FirstKnows
    BY <2>2 DEF C!FirstKnows, C!NoQuery
  <2>. QED
    BY <2>2, <2>3, <2>4, <2>5, <2>6 DEF C!ClaudeInv, C!AnswersAreOwn, C!ModesAreOwn
<1>2. (C!TypeOK /\ C!ClaudeInv) /\ [C!Next]_C!vars => (C!TypeOK /\ C!ClaudeInv)'
  BY ClaudeTypeIsInductive, StreamsAreKept, ServedIsOwn, FirstStillKnows
     DEF C!ClaudeInv, StreamsAreOwn, QueryIsOwn
<1>. QED
  BY <1>1, <1>2, PTL DEF C!Spec

\* Whatever messages are given up over, sessions change or runtimes come and go
\* (local-agent-claude.ts), the answer and the mode of a turn whose query nobody was
\* given up over are its own, and one query knows all that its agent was told.
THEOREM ClaudeTurnsAreTheirOwn == C!Spec => []C!TurnsAreTheirOwn
<1>1. C!TypeOK /\ C!ClaudeInv => C!TurnsAreTheirOwn
  BY DEF C!ClaudeInv, C!TurnsAreTheirOwn, C!OneQueryKnowsAll, C!FirstKnows
<1>. QED
  BY <1>1, ClaudeIsSound, PTL

-------------------------------------------------------------------------------
(***************************************************************************)
(* The sandbox that the sessions of Pi share.                              *)
(***************************************************************************)

\* There are only so many agents, which is what the count of holders counts.
AgentsAreFinite == IsFiniteSet(Agents)

\* A queue whose head is done.
LEMMA DoneLeavesTheRest ==
  ASSUME NEW S, NEW s \in Seq(S), s # <<>>
  PROVE  /\ Tail(s) \in Seq(S) /\ 1 \in DOMAIN s /\ Head(s) = s[1]
         /\ \A n \in DOMAIN Tail(s) : n + 1 \in DOMAIN s /\ n + 1 # 1 /\ Tail(s)[n] = s[n + 1]
OBVIOUS

Promises == {"going", "ok", "failed"}
ReleaseSteps == {"waiting", "woken", "resetting", "queued", "done"}

\* What an initialization leaves is typed.
LEMMA PromiseIsTyped ==
  ASSUME P!TypeOK, P!Ensure
  PROVE  promises' \in Seq(Promises) /\ init' \in {0} \union DOMAIN promises' /\ init' \in Nat
<1>1. promises \in Seq(Promises)
  BY DEF P!TypeOK, Promises
<1>2. CASE init # 0
  BY <1>1, <1>2 DEF P!Ensure, P!TypeOK
<1>3. CASE init = 0
  BY <1>1, <1>3, AppendedIsLast DEF P!Ensure, Promises
<1>. QED
  BY <1>2, <1>3

\* An initialization is begun if there is none.
LEMMA EnsuringAdds ==
  ASSUME P!TypeOK, P!Ensure
  PROVE  /\ DOMAIN promises \subseteq DOMAIN promises' /\ init' # 0
         /\ \A p \in DOMAIN promises : promises'[p] = promises[p]
         /\ \A p \in DOMAIN promises' \ DOMAIN promises :
               p = init' /\ promises'[p] = "going" /\ init = 0
         /\ P!Ready => init' = init
         /\ init # 0 => init' = init /\ promises' = promises
         /\ init = 0 => promises'[init'] = "going"
BY AppendedIsLast, SMTT(30) DEF P!Ensure, P!TypeOK, P!Ready

\* Commands that end wake releases, and change nothing else of them.
LEMMA WakingKeepsReleases ==
  ASSUME P!TypeOK, NEW these, P!CommandsEnd(these)
  PROVE  /\ releases' \in Seq(ReleaseSteps) /\ DOMAIN releases' = DOMAIN releases
         /\ \A i \in DOMAIN releases : /\ releases'[i] = "done" <=> releases[i] = "done"
                                       /\ releases'[i] = "resetting" <=> releases[i] = "resetting"
<1>1. releases \in Seq(ReleaseSteps)
  BY DEF P!TypeOK, ReleaseSteps
<1>2. /\ DOMAIN releases' = DOMAIN releases
      /\ \A i \in DOMAIN releases : \/ releases'[i] = releases[i]
                                    \/ releases[i] = "waiting" /\ releases'[i] = "woken"
  BY DEF P!CommandsEnd
<1>3. releases' = [i \in 1 .. Len(releases) |-> releases'[i]]
  BY <1>1, <1>2 DEF P!CommandsEnd
<1>4. \A i \in 1 .. Len(releases) : releases'[i] \in ReleaseSteps
  BY <1>1, <1>2 DEF ReleaseSteps
<1>5. releases' \in Seq(ReleaseSteps)
  BY <1>1, <1>3, <1>4
<1>. QED
  BY <1>2, <1>5

LEMMA NoSessionIsTyped == P!NoSession \in P!SessionType /\ P!NoCommand \in P!Commands
BY DEF P!NoSession, P!NoCommand, P!SessionType, P!Commands

\* What the steps make of a session.
LEMMA SessionIsTyped ==
  ASSUME NEW s \in P!SessionType
  PROVE  /\ P!Acquired(s) \in P!SessionType /\ P!NotAcquired(s) \in P!SessionType
         /\ \A c \in P!Commands : [s EXCEPT !.command = c] \in P!SessionType
         /\ s.command \in P!Commands
         /\ \A c \in {"none", "queued", "begun", "running"} :
               [s EXCEPT !.command.step = c] \in P!SessionType
         /\ \A l \in BOOLEAN : [s EXCEPT !.command.step = "running", !.command.late = l]
                                  \in P!SessionType
         /\ [s EXCEPT !.turn = "prompt"] \in P!SessionType
         /\ [s EXCEPT !.acquired = TRUE, !.turn = "acquire"] \in P!SessionType
         /\ \A t \in {"prompt", "acquire"}, n \in Nat :
               [s EXCEPT !.acquired = TRUE, !.turn = t, !.awaits = n] \in P!SessionType
         /\ [s EXCEPT !.turn = "none", !.fresh = FALSE] \in P!SessionType
         /\ \A t \in {"none", "acquire", "prompt", "closed"} :
               [s EXCEPT !.known = FALSE, !.acquired = FALSE, !.turn = t] \in P!SessionType
         /\ \A m \in {"allowed", "full_access"}, f \in BOOLEAN :
               [s EXCEPT !.known = TRUE, !.mode = m, !.fresh = f] \in P!SessionType
<1>1. P!Acquired(s) \in P!SessionType
  BY DEF P!Acquired, P!SessionType
<1>2. P!NotAcquired(s) \in P!SessionType
  BY NoSessionIsTyped DEF P!NotAcquired, P!SessionType
<1>3. s.command \in P!Commands /\ \A c \in P!Commands : [s EXCEPT !.command = c] \in P!SessionType
  BY DEF P!SessionType
<1>4. ASSUME NEW c \in {"none", "queued", "begun", "running"}
      PROVE  [s EXCEPT !.command.step = c] \in P!SessionType
  BY DEF P!SessionType, P!Commands
<1>5. ASSUME NEW l \in BOOLEAN
      PROVE  [s EXCEPT !.command.step = "running", !.command.late = l] \in P!SessionType
  BY DEF P!SessionType, P!Commands
<1>6. /\ [s EXCEPT !.turn = "prompt"] \in P!SessionType
      /\ [s EXCEPT !.acquired = TRUE, !.turn = "acquire"] \in P!SessionType
      /\ [s EXCEPT !.turn = "none", !.fresh = FALSE] \in P!SessionType
  BY DEF P!SessionType
<1>7. ASSUME NEW t \in {"prompt", "acquire"}, NEW n \in Nat
      PROVE  [s EXCEPT !.acquired = TRUE, !.turn = t, !.awaits = n] \in P!SessionType
  BY DEF P!SessionType
<1>8. ASSUME NEW t \in {"none", "acquire", "prompt", "closed"}
      PROVE  [s EXCEPT !.known = FALSE, !.acquired = FALSE, !.turn = t] \in P!SessionType
  BY DEF P!SessionType
<1>9. ASSUME NEW m \in {"allowed", "full_access"}, NEW f \in BOOLEAN
      PROVE  [s EXCEPT !.known = TRUE, !.mode = m, !.fresh = f] \in P!SessionType
  BY DEF P!SessionType
<1>. QED
  BY <1>1, <1>2, <1>3, <1>4, <1>5, <1>6, <1>7, <1>8, <1>9

\* Who holds the sandbox, in sessions f.
Holders(f) == {a \in Agents : f[a].acquired}

\* The module counts as this one does.
LEMMA CountingIsTheSame == \A S : P!Cardinality(S) = Cardinality(S)
BY DEF P!Cardinality, Cardinality

LEMMA CountIsOfHolders ==
  /\ P!CountIsExact <=> (~ shutdown => count = Cardinality(Holders(piSession)))
  /\ P!CountIsExact' <=> (~ shutdown' => count' = Cardinality(Holders(piSession')))
<1>1. /\ Holders(piSession) = {a \in Agents : piSession[a].acquired}
      /\ Holders(piSession') = {a \in Agents : piSession'[a].acquired}
  BY DEF Holders
<1>. QED
  BY <1>1, CountingIsTheSame DEF P!CountIsExact

\* The number of holders is one.
LEMMA HoldersAreCounted ==
  ASSUME AgentsAreFinite, NEW f
  PROVE  IsFiniteSet(Holders(f)) /\ Cardinality(Holders(f)) \in Nat
<1>1. Holders(f) \in SUBSET Agents
  BY DEF Holders
<1>. QED
  BY <1>1, FS_Subset, FS_CardinalityType DEF AgentsAreFinite

LEMMA HoldersStay ==
  ASSUME NEW f, NEW g, \A b \in Agents : g[b].acquired = f[b].acquired
  PROVE  Holders(g) = Holders(f)
BY DEF Holders

LEMMA HolderComes ==
  ASSUME AgentsAreFinite, NEW f, NEW g, NEW a \in Agents, ~ f[a].acquired, g[a].acquired,
         \A b \in Agents \ {a} : g[b].acquired = f[b].acquired
  PROVE  Cardinality(Holders(g)) = Cardinality(Holders(f)) + 1
<1>1. Holders(g) = Holders(f) \cup {a} /\ a \notin Holders(f)
  BY DEF Holders
<1>. QED
  BY <1>1, HoldersAreCounted, FS_AddElement

LEMMA HolderGoes ==
  ASSUME AgentsAreFinite, NEW f, NEW g, NEW a \in Agents, f[a].acquired, ~ g[a].acquired,
         \A b \in Agents \ {a} : g[b].acquired = f[b].acquired
  PROVE  /\ Cardinality(Holders(g)) = Cardinality(Holders(f)) - 1
         /\ Cardinality(Holders(f)) \in Nat \ {0} /\ Cardinality(Holders(g)) \in Nat
<1>1. Holders(g) = Holders(f) \ {a} /\ a \in Holders(f)
  BY DEF Holders
<1>2. Cardinality(Holders(g)) = Cardinality(Holders(f)) - 1
  BY <1>1, HoldersAreCounted, FS_RemoveElement
<1>. QED
  BY <1>2, HoldersAreCounted

LEMMA HoldersFail ==
  ASSUME AgentsAreFinite, NEW f, NEW g, NEW A \in SUBSET Holders(f),
         \A b \in Agents : g[b].acquired = (f[b].acquired /\ b \notin A)
  PROVE  /\ Cardinality(Holders(g)) = Cardinality(Holders(f)) - Cardinality(A)
         /\ Cardinality(A) \in Nat /\ Cardinality(Holders(g)) \in Nat
<1>1. Holders(g) = Holders(f) \ A /\ Holders(f) \cap A = A
  BY DEF Holders
<1>. QED
  BY <1>1, HoldersAreCounted, FS_Difference, FS_Subset, FS_CardinalityType

\* While nobody holds the sandbox, no command is under way.
LEMMA NobodyHoldsNothingRuns ==
  ASSUME AgentsAreFinite, P!TypeOK, P!HoldersHold, P!CountIsExact, ~ shutdown, count = 0
  PROVE  \A a \in Agents : /\ ~ piSession[a].acquired
                           /\ piSession[a].command.step = "none" /\ piSession[a].turn # "acquire"
<1>1. Cardinality(Holders(piSession)) = 0
  BY CountIsOfHolders
<1>2. Holders(piSession) = {}
  BY <1>1, HoldersAreCounted, FS_EmptySet
<1>. QED
  BY <1>2 DEF Holders, P!HoldersHold

\* The invariant at the start, and under each step.
LEMMA PiStarts == ASSUME AgentsAreFinite, P!Init PROVE P!TypeOK /\ P!SandboxInv
<1>1. piSession \in [Agents -> P!SessionType]
  BY NoSessionIsTyped DEF P!Init
<1>2. P!TypeOK
  <2>1. /\ os \in {"posix", "win32"} /\ shutdown = FALSE /\ count = 0 /\ init = 0
        /\ releases = <<>> /\ promises = <<>> /\ queue = <<>>
    BY DEF P!Init
  <2>2. <<>> \in Seq(P!QueueEntries) /\ <<>> \in Seq(Promises) /\ <<>> \in Seq(ReleaseSteps)
    OBVIOUS
  <2>. QED
    BY <1>1, <2>1, <2>2 DEF P!TypeOK, Promises, ReleaseSteps
<1>3. P!CountIsExact
  <2>1. Holders(piSession) = {}
    BY DEF P!Init, P!NoSession, Holders
  <2>2. count = 0
    BY DEF P!Init
  <2>. QED
    BY <2>1, <2>2, FS_EmptySet, CountIsOfHolders
<1>. QED
  BY <1>2, <1>3 DEF P!Init, P!SandboxInv, P!HoldersHold, P!AcquisitionsAreQueued, P!QueueWaits,
     P!ResetsSpareCommands, P!PromisesAreAwaited, P!SandboxIsHeld, P!NoSession, P!NoCommand,
     P!Ready

LEMMA TurnBeginsInSandbox ==
  ASSUME AgentsAreFinite, P!TypeOK, P!SandboxInv, NEW a \in Agents,
         NEW mode \in {"allowed", "full_access"}, P!BeginTurn(a, mode)
  PROVE  P!TypeOK' /\ P!SandboxInv'
<1>. DEFINE s == [piSession[a] EXCEPT !.known = TRUE, !.mode = mode, !.fresh = ~ piSession[a].known]
<1>0. /\ piSession \in [Agents -> P!SessionType] /\ piSession[a] \in P!SessionType
      /\ (~ piSession[a].known) \in BOOLEAN
  BY DEF P!TypeOK, P!SessionType
<1>1. /\ s \in P!SessionType /\ s.known /\ s.mode = mode /\ s.acquired = piSession[a].acquired
      /\ s.command = piSession[a].command /\ s.awaits = piSession[a].awaits
  <2>1. s \in P!SessionType
    BY <1>0, SessionIsTyped
  <2>. QED
    BY <1>0, <2>1 DEF P!SessionType
<1>2. /\ ~ shutdown /\ piSession[a].turn = "none" /\ P!Enter(a, s)
      /\ UNCHANGED <<os, shutdown, releases, policy, manager>>
  BY DEF P!BeginTurn
<1>3. piSession[a].command.step = "none"
  BY <1>2 DEF P!SandboxInv, P!HoldersHold
<1>. HIDE DEF s
<1>4. CASE s.mode = "full_access" \/ s.acquired
  <2>1. /\ piSession' = [piSession EXCEPT ![a] = [s EXCEPT !.turn = "prompt"]]
        /\ UNCHANGED <<count, promises, init, queue>>
    BY <1>2, <1>4 DEF P!Enter
  <2>2. P!TypeOK'
    BY <1>0, <1>1, <1>2, <2>1, SessionIsTyped DEF P!TypeOK
  <2>3. /\ \A b \in Agents \ {a} : piSession'[b] = piSession[b]
        /\ piSession'[a].turn = "prompt" /\ piSession'[a].known /\ piSession'[a].mode = mode
        /\ piSession'[a].acquired = piSession[a].acquired
        /\ piSession'[a].command = piSession[a].command
    BY <1>0, <1>1, <2>1 DEF P!SessionType
  <2>4. P!HoldersHold'
    BY <1>1, <1>2, <1>3, <1>4, <2>3 DEF P!SandboxInv, P!HoldersHold
  <2>5. P!CountIsExact'
    <3>1. Holders(piSession') = Holders(piSession)
      BY <2>3, HoldersStay
    <3>. QED
      BY <1>2, <2>1, <3>1, CountIsOfHolders DEF P!SandboxInv
  <2>6. P!AcquisitionsAreQueued'
    BY <1>2, <2>1, <2>3 DEF P!SandboxInv, P!AcquisitionsAreQueued, P!TypeOK, P!QueueEntries
  <2>7. P!QueueWaits' /\ P!ResetsSpareCommands'
    BY <1>2, <2>1, <2>3 DEF P!SandboxInv, P!QueueWaits, P!ResetsSpareCommands, P!Ready, P!Resetting
  <2>8. P!PromisesAreAwaited' /\ P!SandboxIsHeld'
    BY <1>2, <1>3, <2>1, <2>3 DEF P!SandboxInv, P!PromisesAreAwaited, P!SandboxIsHeld
  <2>. QED
    BY <2>2, <2>4, <2>5, <2>6, <2>7, <2>8 DEF P!SandboxInv
<1>5. CASE ~ (s.mode = "full_access" \/ s.acquired) /\ os = "win32"
  <2>. DEFINE e == [op |-> "acquire", of |-> a]
  <2>1. /\ piSession' = [piSession EXCEPT ![a] = [s EXCEPT !.acquired = TRUE, !.turn = "acquire"]]
        /\ count' = count + 1 /\ queue' = Append(queue, e) /\ UNCHANGED <<promises, init>>
    BY <1>2, <1>5 DEF P!Enter
  <2>a. queue \in Seq(P!QueueEntries) /\ e \in P!QueueEntries
    BY DEF P!TypeOK, P!QueueEntries
  <2>b. /\ queue' \in Seq(P!QueueEntries) /\ DOMAIN queue' = DOMAIN queue \union {Len(queue) + 1}
        /\ Len(queue) + 1 \notin DOMAIN queue
        /\ \A k \in DOMAIN queue : queue'[k] = queue[k] /\ queue'[Len(queue) + 1] = e
    BY <2>1, <2>a, AppendedIsLast
  <2>2. P!TypeOK'
    <3>1. [s EXCEPT !.acquired = TRUE, !.turn = "acquire"] \in P!SessionType
      BY <1>1, SessionIsTyped
    <3>2. piSession' \in [Agents -> P!SessionType] /\ count' \in Nat
      BY <1>0, <2>1, <3>1 DEF P!TypeOK
    <3>. QED
      BY <1>2, <2>1, <2>b, <3>2 DEF P!TypeOK
  <2>3. /\ \A b \in Agents \ {a} : piSession'[b] = piSession[b]
        /\ piSession'[a].turn = "acquire" /\ piSession'[a].known /\ piSession'[a].mode = mode
        /\ piSession'[a].acquired /\ ~ piSession[a].acquired
        /\ piSession'[a].command = piSession[a].command
    BY <1>0, <1>1, <1>5, <2>1 DEF P!SessionType
  <2>4. P!HoldersHold'
    BY <1>1, <1>2, <1>3, <2>3 DEF P!SandboxInv, P!HoldersHold
  <2>5. P!CountIsExact'
    <3>1. Cardinality(Holders(piSession')) = Cardinality(Holders(piSession)) + 1
      BY <2>3, HolderComes
    <3>. QED
      BY <1>2, <2>1, <3>1, CountIsOfHolders DEF P!SandboxInv
  <2>6. P!AcquisitionsAreQueued'
    <3>1. \A k \in DOMAIN queue : queue[k].op = "acquire" => queue[k].of # a
      BY <1>2 DEF P!SandboxInv, P!AcquisitionsAreQueued
    <3>2. queue'[Len(queue) + 1] = e
      BY <2>1, <2>a
    <3>3. \A k \in DOMAIN queue : queue[k].op = "acquire" => queue[k].of \in Agents
      BY <2>a DEF P!QueueEntries
    <3>. QED
      BY <2>b, <2>3, <3>1, <3>2, <3>3 DEF P!SandboxInv, P!AcquisitionsAreQueued
  <2>7. P!QueueWaits' /\ P!ResetsSpareCommands'
    <3>1. queue # <<>> => queue' # <<>> /\ Head(queue') = Head(queue)
      BY <2>1, <2>a
    <3>. QED
      BY <1>2, <1>3, <1>5, <2>1, <2>3, <3>1 DEF P!SandboxInv, P!QueueWaits, P!ResetsSpareCommands
  <2>8. P!PromisesAreAwaited' /\ P!SandboxIsHeld'
    BY <1>2, <1>5, <2>1, <2>2 DEF P!SandboxInv, P!PromisesAreAwaited, P!SandboxIsHeld, P!TypeOK
  <2>. QED
    BY <2>2, <2>4, <2>5, <2>6, <2>7, <2>8 DEF P!SandboxInv
<1>6. CASE ~ (s.mode = "full_access" \/ s.acquired) /\ os # "win32"
  <2>. DEFINE t == IF P!Ready THEN "prompt" ELSE "acquire"
             n == IF P!Ready THEN 0 ELSE init'
  <2>1. /\ piSession' = [piSession EXCEPT ![a] = [s EXCEPT !.acquired = TRUE, !.turn = t, !.awaits = n]]
        /\ count' = count + 1 /\ P!Ensure /\ UNCHANGED queue
    BY <1>2, <1>6 DEF P!Enter
  <2>a. /\ promises' \in Seq(Promises) /\ init' \in {0} \union DOMAIN promises' /\ init' \in Nat
        /\ t \in {"prompt", "acquire"} /\ n \in Nat
    BY <2>1, PromiseIsTyped
  <2>b. /\ DOMAIN promises \subseteq DOMAIN promises' /\ init' # 0
        /\ \A p \in DOMAIN promises : promises'[p] = promises[p]
        /\ \A p \in DOMAIN promises' \ DOMAIN promises :
              p = init' /\ promises'[p] = "going" /\ init = 0
        /\ P!Ready => init' = init
        /\ init # 0 => init' = init /\ promises' = promises
        /\ init = 0 => promises'[init'] = "going"
    BY <2>1, EnsuringAdds
  <2>2. P!TypeOK'
    <3>1. [s EXCEPT !.acquired = TRUE, !.turn = t, !.awaits = n] \in P!SessionType
      BY <1>1, <2>a, SessionIsTyped
    <3>. QED
      BY <1>0, <1>1, <1>2, <2>1, <2>a, <3>1 DEF P!TypeOK, Promises
  <2>3. /\ \A b \in Agents \ {a} : piSession'[b] = piSession[b]
        /\ piSession'[a].turn = t /\ piSession'[a].known /\ piSession'[a].mode = mode
        /\ piSession'[a].acquired /\ ~ piSession[a].acquired /\ piSession'[a].awaits = n
        /\ piSession'[a].command = piSession[a].command
    BY <1>0, <1>1, <1>6, <2>1 DEF P!SessionType
  <2>4. P!HoldersHold'
    BY <1>1, <1>2, <1>3, <2>3 DEF P!SandboxInv, P!HoldersHold
  <2>5. P!CountIsExact'
    <3>1. Cardinality(Holders(piSession')) = Cardinality(Holders(piSession)) + 1
      BY <2>3, HolderComes
    <3>. QED
      BY <1>2, <2>1, <3>1, CountIsOfHolders DEF P!SandboxInv
  <2>6. P!AcquisitionsAreQueued'
    <3>1. \A k \in DOMAIN queue : queue[k].op = "acquire" => queue[k].of \in Agents \ {a}
      BY <1>2 DEF P!SandboxInv, P!AcquisitionsAreQueued, P!TypeOK, P!QueueEntries
    <3>. QED
      BY <2>1, <2>3, <3>1 DEF P!SandboxInv, P!AcquisitionsAreQueued
  <2>7. P!QueueWaits' /\ P!ResetsSpareCommands'
    <3>1. P!Ready' => P!Ready
      BY <2>b DEF P!Ready, P!TypeOK
    <3>. QED
      BY <1>2, <1>3, <1>6, <2>1, <2>3, <3>1
         DEF P!SandboxInv, P!QueueWaits, P!ResetsSpareCommands, P!Resetting, P!TypeOK
  <2>8. P!PromisesAreAwaited'
    <3>1. ASSUME NEW p \in DOMAIN promises', promises'[p] = "going", ~ shutdown
          PROVE  \E b \in Agents :
                    \/ piSession'[b].turn = "acquire" /\ piSession'[b].awaits = p
                    \/ piSession'[b].command.step = "begun" /\ piSession'[b].command.awaits = p
      <4>1. CASE p \in DOMAIN promises
        <5>1. PICK b \in Agents :
                    \/ piSession[b].turn = "acquire" /\ piSession[b].awaits = p
                    \/ piSession[b].command.step = "begun" /\ piSession[b].command.awaits = p
          BY <1>6, <2>b, <3>1, <4>1 DEF P!SandboxInv, P!PromisesAreAwaited, P!TypeOK
        <5>. QED
          BY <1>2, <1>3, <2>3, <5>1
      <4>2. CASE p \notin DOMAIN promises
        BY <2>b, <2>3, <4>2, <3>1 DEF P!Ready
      <4>. QED
        BY <4>1, <4>2
    <3>. QED
      BY <1>2, <3>1 DEF P!PromisesAreAwaited
  <2>9. P!SandboxIsHeld'
    BY <1>2, <2>1 DEF P!SandboxIsHeld, P!TypeOK
  <2>. QED
    BY <2>2, <2>4, <2>5, <2>6, <2>7, <2>8, <2>9 DEF P!SandboxInv
<1>. QED
  BY <1>4, <1>5, <1>6

LEMMA TurnEndsInSandbox ==
  ASSUME AgentsAreFinite, P!TypeOK, P!SandboxInv, NEW a \in Agents, P!EndTurn(a)
  PROVE  P!TypeOK' /\ P!SandboxInv'
<1>. DEFINE e == IF piSession[a].known THEN [piSession[a] EXCEPT !.turn = "none", !.fresh = FALSE]
               ELSE P!NoSession
<1>0. piSession \in [Agents -> P!SessionType] /\ piSession[a] \in P!SessionType
  BY DEF P!TypeOK
<1>1. /\ piSession[a].turn \in {"prompt", "closed"} /\ piSession[a].command.step = "none"
      /\ piSession' = [piSession EXCEPT ![a] = e]
      /\ UNCHANGED <<os, shutdown, count, releases, promises, init, policy, queue, manager>>
  BY DEF P!EndTurn
<1>2. e \in P!SessionType
  BY <1>0, SessionIsTyped, NoSessionIsTyped
<1>3. /\ piSession' \in [Agents -> P!SessionType]
      /\ \A b \in Agents \ {a} : piSession'[b] = piSession[b]
      /\ piSession'[a].turn = "none" /\ piSession'[a].command.step = "none"
      /\ ~ shutdown => /\ piSession'[a].acquired = piSession[a].acquired
                       /\ piSession'[a].known = piSession[a].known
  <2>1. ~ shutdown => piSession[a].known
    BY <1>1 DEF P!SandboxInv, P!HoldersHold
  <2>. QED
    BY <1>0, <1>1, <1>2, <2>1 DEF P!SessionType, P!NoSession, P!NoCommand
<1>4. P!TypeOK'
  BY <1>1, <1>3 DEF P!TypeOK
<1>5. P!HoldersHold'
  BY <1>1, <1>3 DEF P!SandboxInv, P!HoldersHold
<1>6. P!CountIsExact'
  <2>1. ~ shutdown => Holders(piSession') = Holders(piSession)
    BY <1>3, HoldersStay
  <2>. QED
    BY <1>1, <2>1, CountIsOfHolders DEF P!SandboxInv
<1>7. P!AcquisitionsAreQueued'
  <2>1. \A k \in DOMAIN queue : queue[k].op = "acquire" => queue[k].of \in Agents \ {a}
    BY <1>1 DEF P!SandboxInv, P!AcquisitionsAreQueued, P!TypeOK, P!QueueEntries
  <2>. QED
    BY <1>1, <1>3, <2>1 DEF P!SandboxInv, P!AcquisitionsAreQueued
<1>8. P!QueueWaits' /\ P!ResetsSpareCommands'
  BY <1>1, <1>3 DEF P!SandboxInv, P!QueueWaits, P!ResetsSpareCommands, P!Ready, P!Resetting
<1>9. P!PromisesAreAwaited' /\ P!SandboxIsHeld'
  BY <1>1, <1>3 DEF P!SandboxInv, P!PromisesAreAwaited, P!SandboxIsHeld
<1>. QED
  BY <1>4, <1>5, <1>6, <1>7, <1>8, <1>9 DEF P!SandboxInv

LEMMA CommandBegins ==
  ASSUME AgentsAreFinite, P!TypeOK, P!SandboxInv, NEW a \in Agents, NEW cwd \in Dirs,
         P!BeginCommand(a, cwd)
  PROVE  P!TypeOK' /\ P!SandboxInv'
<1>0. piSession \in [Agents -> P!SessionType] /\ piSession[a] \in P!SessionType
  BY DEF P!TypeOK
<1>1. /\ piSession[a].turn \in {"prompt", "closed"} /\ piSession[a].mode = "allowed"
      /\ piSession[a].command.step = "none"
      /\ UNCHANGED <<os, shutdown, count, releases, policy, manager>>
  BY DEF P!BeginCommand
<1>2. ~ shutdown => piSession[a].acquired /\ count # 0
  <2>1. ~ shutdown => piSession[a].acquired
    BY <1>1 DEF P!SandboxInv, P!HoldersHold
  <2>. QED
    BY <2>1, NobodyHoldsNothingRuns DEF P!SandboxInv
<1>3. ASSUME NEW c \in P!Commands, piSession' = [piSession EXCEPT ![a].command = c]
      PROVE  /\ piSession' \in [Agents -> P!SessionType]
             /\ \A b \in Agents \ {a} : piSession'[b] = piSession[b]
             /\ piSession'[a].turn = piSession[a].turn /\ piSession'[a].mode = piSession[a].mode
             /\ piSession'[a].acquired = piSession[a].acquired /\ piSession'[a].command = c
             /\ piSession'[a].known = piSession[a].known /\ piSession'[a].awaits = piSession[a].awaits
  <2>1. piSession' = [piSession EXCEPT ![a] = [piSession[a] EXCEPT !.command = c]]
    BY <1>0, <1>3
  <2>2. [piSession[a] EXCEPT !.command = c] \in P!SessionType
    BY <1>0, SessionIsTyped
  <2>. QED
    BY <1>0, <2>1, <2>2 DEF P!SessionType
<1>4. ASSUME NEW c \in P!Commands, piSession' = [piSession EXCEPT ![a].command = c]
      PROVE  P!HoldersHold' /\ P!CountIsExact'
  <2>1. Holders(piSession') = Holders(piSession)
    BY <1>3, <1>4, HoldersStay
  <2>2. P!CountIsExact'
    BY <1>1, <2>1, CountIsOfHolders DEF P!SandboxInv
  <2>3. P!HoldersHold'
    BY <1>1, <1>2, <1>3, <1>4 DEF P!SandboxInv, P!HoldersHold
  <2>. QED
    BY <2>2, <2>3
<1>5. CASE os = "win32"
  <2>. DEFINE c == [step |-> "queued", awaits |-> 0, cwd |-> cwd, late |-> FALSE]
             e == [op |-> "command", of |-> a]
  <2>1. /\ queue' = Append(queue, e) /\ piSession' = [piSession EXCEPT ![a].command = c]
        /\ UNCHANGED <<promises, init>>
    BY <1>5 DEF P!BeginCommand
  <2>2. c \in P!Commands
    BY DEF P!Commands
  <2>3. queue \in Seq(P!QueueEntries) /\ e \in P!QueueEntries
    BY DEF P!TypeOK, P!QueueEntries
  <2>4. /\ queue' \in Seq(P!QueueEntries) /\ DOMAIN queue' = DOMAIN queue \union {Len(queue) + 1}
        /\ \A k \in DOMAIN queue : queue'[k] = queue[k]
        /\ queue'[Len(queue) + 1] = e
        /\ queue # <<>> => queue' # <<>> /\ Head(queue') = Head(queue)
    BY <2>1, <2>3, AppendedIsLast
  <2>5. P!TypeOK'
    BY <1>1, <1>3, <2>1, <2>2, <2>4 DEF P!TypeOK
  <2>6. P!AcquisitionsAreQueued'
    <3>1. \A k \in DOMAIN queue' : queue'[k].op = "acquire" => k \in DOMAIN queue
      BY <2>4
    <3>2. \A k \in DOMAIN queue : queue[k].op = "acquire" => queue[k].of \in Agents
      BY <2>3 DEF P!QueueEntries
    <3>3. \A b \in Agents : piSession'[b].turn = piSession[b].turn
      BY <1>3, <2>1, <2>2
    <3>. QED
      BY <2>4, <3>1, <3>2, <3>3 DEF P!SandboxInv, P!AcquisitionsAreQueued
  <2>7. P!QueueWaits' /\ P!ResetsSpareCommands'
    BY <1>1, <1>3, <1>5, <2>1, <2>2, <2>4 DEF P!SandboxInv, P!QueueWaits, P!ResetsSpareCommands
  <2>8. P!PromisesAreAwaited' /\ P!SandboxIsHeld'
    BY <1>1, <1>2, <1>5, <2>1 DEF P!PromisesAreAwaited, P!SandboxIsHeld
  <2>. QED
    BY <1>4, <2>1, <2>2, <2>5, <2>6, <2>7, <2>8 DEF P!SandboxInv
<1>6. CASE os # "win32"
  <2>. DEFINE c == [step |-> IF P!Ready THEN "running" ELSE "begun", awaits |-> init',
                  cwd |-> cwd, late |-> P!Resetting]
  <2>1. /\ P!Ensure /\ UNCHANGED queue /\ piSession' = [piSession EXCEPT ![a].command = c]
    BY <1>6 DEF P!BeginCommand
  <2>2. /\ promises' \in Seq(Promises) /\ init' \in {0} \union DOMAIN promises' /\ init' \in Nat
    BY <2>1, PromiseIsTyped
  <2>3. c \in P!Commands
    BY <2>2 DEF P!Commands, P!Resetting
  <2>4. /\ DOMAIN promises \subseteq DOMAIN promises' /\ init' # 0
        /\ \A p \in DOMAIN promises : promises'[p] = promises[p]
        /\ \A p \in DOMAIN promises' \ DOMAIN promises :
              p = init' /\ promises'[p] = "going" /\ init = 0
        /\ P!Ready => init' = init
        /\ init # 0 => init' = init /\ promises' = promises
        /\ init = 0 => promises'[init'] = "going"
    BY <2>1, EnsuringAdds
  <2>. HIDE DEF c
  <2>5. P!TypeOK'
    BY <1>1, <1>3, <2>1, <2>2, <2>3 DEF P!TypeOK, Promises
  <2>6. P!AcquisitionsAreQueued'
    <3>1. \A k \in DOMAIN queue : queue[k].op = "acquire" => queue[k].of \in Agents
      BY DEF P!TypeOK, P!QueueEntries
    <3>2. \A b \in Agents : piSession'[b].turn = piSession[b].turn
      BY <1>3, <2>1, <2>3
    <3>. QED
      BY <2>1, <3>1, <3>2 DEF P!SandboxInv, P!AcquisitionsAreQueued
  <2>7. c.step = (IF P!Ready THEN "running" ELSE "begun") /\ c.awaits = init' /\ c.late = P!Resetting
    BY DEF c
  <2>8. P!QueueWaits' /\ P!ResetsSpareCommands'
    <3>1. P!Ready' => P!Ready
      BY <2>4 DEF P!Ready, P!TypeOK
    <3>. QED
      BY <1>1, <1>3, <1>6, <2>1, <2>3, <2>7, <3>1
         DEF P!SandboxInv, P!QueueWaits, P!ResetsSpareCommands, P!Resetting, P!TypeOK
  <2>9. P!PromisesAreAwaited'
    <3>1. ASSUME NEW p \in DOMAIN promises', promises'[p] = "going", ~ shutdown
          PROVE  \E b \in Agents :
                    \/ piSession'[b].turn = "acquire" /\ piSession'[b].awaits = p
                    \/ piSession'[b].command.step = "begun" /\ piSession'[b].command.awaits = p
      <4>1. CASE p \in DOMAIN promises
        <5>1. PICK b \in Agents :
                    \/ piSession[b].turn = "acquire" /\ piSession[b].awaits = p
                    \/ piSession[b].command.step = "begun" /\ piSession[b].command.awaits = p
          BY <1>6, <2>4, <3>1, <4>1 DEF P!SandboxInv, P!PromisesAreAwaited, P!TypeOK
        <5>. QED
          BY <1>1, <1>3, <2>1, <2>3, <5>1
      <4>2. CASE p \notin DOMAIN promises
        <5>1. ~ P!Ready /\ p = init'
          BY <2>4, <4>2, <3>1 DEF P!Ready
        <5>. QED
          BY <1>3, <2>1, <2>3, <2>7, <5>1
      <4>. QED
        BY <4>1, <4>2
    <3>. QED
      BY <1>1, <3>1 DEF P!PromisesAreAwaited
  <2>10. P!SandboxIsHeld'
    BY <1>1, <1>2 DEF P!SandboxIsHeld
  <2>. QED
    BY <1>4, <2>1, <2>3, <2>5, <2>6, <2>8, <2>9, <2>10 DEF P!SandboxInv
<1>. QED
  BY <1>5, <1>6

LEMMA CommandEnds ==
  ASSUME AgentsAreFinite, P!TypeOK, P!SandboxInv, NEW a \in Agents, P!EndCommand(a)
  PROVE  P!TypeOK' /\ P!SandboxInv'
<1>0. piSession \in [Agents -> P!SessionType] /\ piSession[a] \in P!SessionType
  BY DEF P!TypeOK
<1>1. /\ piSession[a].command.step = "running" /\ P!CommandsEnd({a})
      /\ piSession' = [piSession EXCEPT ![a].command = P!NoCommand]
      /\ queue' = IF os = "win32" THEN Tail(queue) ELSE queue
      /\ UNCHANGED <<os, shutdown, count, promises, init, policy, manager>>
  BY DEF P!EndCommand
<1>2. /\ piSession' \in [Agents -> P!SessionType]
      /\ \A b \in Agents \ {a} : piSession'[b] = piSession[b]
      /\ piSession'[a].turn = piSession[a].turn /\ piSession'[a].mode = piSession[a].mode
      /\ piSession'[a].acquired = piSession[a].acquired /\ piSession'[a].command = P!NoCommand
      /\ piSession'[a].known = piSession[a].known /\ piSession'[a].awaits = piSession[a].awaits
  <2>1. piSession' = [piSession EXCEPT ![a] = [piSession[a] EXCEPT !.command = P!NoCommand]]
    BY <1>0, <1>1
  <2>2. [piSession[a] EXCEPT !.command = P!NoCommand] \in P!SessionType
    BY <1>0, SessionIsTyped, NoSessionIsTyped
  <2>. QED
    BY <1>0, <2>1, <2>2 DEF P!SessionType
<1>3. P!NoCommand.step = "none"
  BY DEF P!NoCommand
<1>4. /\ releases' \in Seq(ReleaseSteps) /\ DOMAIN releases' = DOMAIN releases
      /\ \A i \in DOMAIN releases : /\ releases'[i] = "done" <=> releases[i] = "done"
                                    /\ releases'[i] = "resetting" <=> releases[i] = "resetting"
  BY <1>1, WakingKeepsReleases
<1>5. queue' \in Seq(P!QueueEntries)
  <2>1. os = "win32" => queue # <<>>
    BY <1>1 DEF P!SandboxInv, P!QueueWaits
  <2>. QED
    BY <1>1, <2>1 DEF P!TypeOK
<1>6. P!TypeOK'
  BY <1>1, <1>2, <1>4, <1>5 DEF P!TypeOK, ReleaseSteps
<1>7. P!HoldersHold'
  BY <1>1, <1>2, <1>3 DEF P!SandboxInv, P!HoldersHold
<1>8. P!CountIsExact'
  <2>1. Holders(piSession') = Holders(piSession)
    BY <1>2, HoldersStay
  <2>. QED
    BY <1>1, <2>1, CountIsOfHolders DEF P!SandboxInv
<1>9. P!AcquisitionsAreQueued'
  <2>1. \A k \in DOMAIN queue : queue[k].op = "acquire" => queue[k].of \in Agents
    BY DEF P!TypeOK, P!QueueEntries
  <2>2. \A b \in Agents : piSession'[b].turn = piSession[b].turn
    BY <1>2
  <2>3. CASE os = "win32"
    <3>1. queue \in Seq(P!QueueEntries) /\ queue # <<>>
      BY <1>1, <2>3 DEF P!TypeOK, P!SandboxInv, P!QueueWaits
    <3>2. \A n \in DOMAIN queue' : n + 1 \in DOMAIN queue /\ queue'[n] = queue[n + 1] /\ n \in Nat
      BY <1>1, <2>3, <3>1, DoneLeavesTheRest
    <3>. QED
      BY <2>1, <2>2, <3>2 DEF P!SandboxInv, P!AcquisitionsAreQueued
  <2>4. CASE os # "win32"
    BY <1>1, <2>1, <2>2, <2>4 DEF P!SandboxInv, P!AcquisitionsAreQueued
  <2>. QED
    BY <2>3, <2>4
<1>10. P!QueueWaits'
  <2>1. ASSUME os = "win32", NEW b \in Agents \ {a} PROVE piSession[b].command.step # "running"
    <3>1. Head(queue) = [op |-> "command", of |-> a]
      BY <1>1, <2>1 DEF P!SandboxInv, P!QueueWaits
    <3>. QED
      BY <2>1, <3>1 DEF P!SandboxInv, P!QueueWaits
  <2>. QED
    BY <1>1, <1>2, <1>3, <1>4, <2>1 DEF P!SandboxInv, P!QueueWaits
<1>11. P!ResetsSpareCommands'
  BY <1>1, <1>2, <1>3, <1>4 DEF P!SandboxInv, P!ResetsSpareCommands, P!Ready, P!Resetting
<1>12. P!PromisesAreAwaited' /\ P!SandboxIsHeld'
  BY <1>1, <1>2, <1>4 DEF P!SandboxInv, P!PromisesAreAwaited, P!SandboxIsHeld
<1>. QED
  BY <1>6, <1>7, <1>8, <1>9, <1>10, <1>11, <1>12 DEF P!SandboxInv

LEMMA SandboxShutsDown ==
  ASSUME P!TypeOK, P!SandboxInv, P!Shutdown
  PROVE  P!TypeOK' /\ P!SandboxInv'
<1>1. P!TypeOK'
  BY DEF P!Shutdown, P!TypeOK
<1>. QED
  BY <1>1 DEF P!Shutdown, P!SandboxInv, P!HoldersHold, P!CountIsExact, P!AcquisitionsAreQueued,
     P!QueueWaits, P!ResetsSpareCommands, P!PromisesAreAwaited, P!SandboxIsHeld, P!Ready, P!Resetting

LEMMA SessionCloses ==
  ASSUME AgentsAreFinite, P!TypeOK, P!SandboxInv, NEW a \in Agents, P!Close(a)
  PROVE  P!TypeOK' /\ P!SandboxInv'
<1>. DEFINE e == P!Closed(piSession[a])
           r == IF P!Running = {} THEN "woken" ELSE "waiting"
<1>0. /\ piSession \in [Agents -> P!SessionType] /\ piSession[a] \in P!SessionType
      /\ piSession[a].turn \in {"none", "acquire", "prompt", "closed"} /\ count \in Nat
      /\ releases \in Seq(ReleaseSteps)
  BY DEF P!TypeOK, P!SessionType, ReleaseSteps
<1>1. /\ piSession[a].known /\ (~ shutdown => piSession[a].turn = "none")
      /\ piSession' = [piSession EXCEPT ![a] = e]
      /\ count' = IF piSession[a].acquired THEN P!Counted(1) ELSE count
      /\ releases' = IF ~ piSession[a].acquired \/ count' # 0 THEN releases ELSE Append(releases, r)
      /\ UNCHANGED <<os, shutdown, promises, init, policy, queue, manager>>
  BY DEF P!Close
<1>2. e \in P!SessionType
  BY <1>0, SessionIsTyped, NoSessionIsTyped DEF P!Closed
<1>3. /\ piSession' \in [Agents -> P!SessionType]
      /\ \A b \in Agents \ {a} : piSession'[b] = piSession[b]
      /\ ~ piSession'[a].acquired /\ ~ piSession'[a].known
      /\ piSession'[a].turn = IF piSession[a].turn = "prompt" THEN "closed" ELSE piSession[a].turn
      /\ piSession'[a].command.step = "none" \/ piSession'[a].command = piSession[a].command
      /\ piSession'[a].mode \in {"allowed", "full_access"}
  BY <1>0, <1>1, <1>2 DEF P!SessionType, P!Closed, P!NoSession, P!NoCommand
<1>4. count' \in Nat
  BY <1>0, <1>1 DEF P!Counted
<1>5. /\ releases' \in Seq(ReleaseSteps) /\ DOMAIN releases \subseteq DOMAIN releases'
      /\ \A i \in DOMAIN releases : releases'[i] = releases[i]
      /\ \A i \in DOMAIN releases' \ DOMAIN releases : releases'[i] \in {"woken", "waiting"}
      /\ piSession[a].acquired /\ count' = 0 => \E i \in DOMAIN releases' : releases'[i] # "done"
  <2>1. r \in ReleaseSteps /\ r \in {"woken", "waiting"} /\ r # "done"
    BY DEF ReleaseSteps
  <2>. HIDE DEF r
  <2>. QED
    BY <1>0, <1>1, <2>1, AppendedIsLast
<1>6. P!TypeOK'
  BY <1>1, <1>3, <1>4, <1>5 DEF P!TypeOK, ReleaseSteps
<1>7. P!HoldersHold'
  BY <1>0, <1>1, <1>3 DEF P!SandboxInv, P!HoldersHold
<1>8. P!CountIsExact'
  <2>. SUFFICES ASSUME ~ shutdown PROVE count' = Cardinality(Holders(piSession'))
    BY <1>1, CountIsOfHolders
  <2>1. count = Cardinality(Holders(piSession))
    BY CountIsOfHolders DEF P!SandboxInv
  <2>2. CASE piSession[a].acquired
    <3>1. /\ Cardinality(Holders(piSession')) = Cardinality(Holders(piSession)) - 1
          /\ Cardinality(Holders(piSession)) \in Nat \ {0}
      BY <1>3, <2>2, HolderGoes
    <3>. QED
      BY <1>1, <2>1, <2>2, <3>1 DEF P!Counted
  <2>3. CASE ~ piSession[a].acquired
    <3>1. Holders(piSession') = Holders(piSession)
      <4>1. \A b \in Agents : piSession'[b].acquired = piSession[b].acquired
        BY <1>0, <1>3, <2>3 DEF P!SessionType
      <4>. QED
        BY <4>1, HoldersStay
    <3>. QED
      BY <1>1, <2>1, <2>3, <3>1
  <2>. QED
    BY <2>2, <2>3
<1>9. P!AcquisitionsAreQueued'
  <2>1. \A k \in DOMAIN queue : queue[k].op = "acquire" => queue[k].of \in Agents
    BY DEF P!TypeOK, P!QueueEntries
  <2>2. \A b \in Agents : piSession[b].turn = "acquire" => piSession'[b].turn = "acquire"
    BY <1>3
  <2>. QED
    BY <1>1, <2>1, <2>2 DEF P!SandboxInv, P!AcquisitionsAreQueued
<1>10. P!QueueWaits'
  BY <1>1, <1>3, <1>5 DEF P!SandboxInv, P!QueueWaits
<1>11. P!ResetsSpareCommands'
  BY <1>1, <1>3, <1>5 DEF P!SandboxInv, P!ResetsSpareCommands, P!Ready, P!Resetting
<1>12. P!PromisesAreAwaited'
  <2>1. ASSUME ~ shutdown PROVE piSession[a].turn = "none" /\ piSession[a].command.step = "none"
    BY <1>1, <2>1 DEF P!SandboxInv, P!HoldersHold
  <2>. QED
    BY <1>1, <1>3, <2>1 DEF P!SandboxInv, P!PromisesAreAwaited
<1>13. P!SandboxIsHeld'
  BY <1>1, <1>5 DEF P!SandboxInv, P!SandboxIsHeld
<1>. QED
  BY <1>6, <1>7, <1>8, <1>9, <1>10, <1>11, <1>12, <1>13 DEF P!SandboxInv

\* A release moves on, by step r: a reset begins when nobody holds the sandbox.
LEMMA ReleaseMoves ==
  ASSUME P!TypeOK, NEW i \in DOMAIN releases, NEW r \in ReleaseSteps,
         releases' = [releases EXCEPT ![i] = r]
  PROVE  /\ releases' \in Seq(ReleaseSteps) /\ DOMAIN releases' = DOMAIN releases
         /\ releases'[i] = r
         /\ \A j \in DOMAIN releases \ {i} : releases'[j] = releases[j]
<1>1. releases \in Seq(ReleaseSteps)
  BY DEF P!TypeOK, ReleaseSteps
<1>. QED
  BY <1>1, ReplacedKeepsType

LEMMA ReleaseResumes ==
  ASSUME AgentsAreFinite, P!TypeOK, P!SandboxInv, NEW i \in DOMAIN releases, P!Resume(i)
  PROVE  P!TypeOK' /\ P!SandboxInv'
<1>1. /\ releases[i] = "woken"
      /\ UNCHANGED <<os, shutdown, piSession, count, promises, init, policy, manager>>
  BY DEF P!Resume
<1>2. P!HoldersHold' /\ P!CountIsExact' /\ P!PromisesAreAwaited'
  BY <1>1 DEF P!SandboxInv, P!HoldersHold, P!CountIsExact, P!PromisesAreAwaited
<1>3. CASE count # 0 /\ releases' = [releases EXCEPT ![i] = "done"] /\ UNCHANGED queue
  <2>1. /\ releases' \in Seq(ReleaseSteps) /\ DOMAIN releases' = DOMAIN releases
        /\ releases'[i] = "done"
        /\ \A j \in DOMAIN releases \ {i} : releases'[j] = releases[j]
    BY <1>3, ReleaseMoves DEF ReleaseSteps
  <2>2. P!TypeOK'
    BY <1>1, <1>3, <2>1 DEF P!TypeOK, ReleaseSteps
  <2>. QED
    BY <1>1, <1>2, <1>3, <2>1, <2>2 DEF P!SandboxInv, P!AcquisitionsAreQueued, P!QueueWaits,
       P!ResetsSpareCommands, P!SandboxIsHeld, P!Ready, P!Resetting
<1>4. CASE /\ count = 0 /\ os = "posix" /\ releases' = [releases EXCEPT ![i] = "resetting"]
           /\ UNCHANGED queue
  <2>1. /\ releases' \in Seq(ReleaseSteps) /\ DOMAIN releases' = DOMAIN releases
        /\ releases'[i] = "resetting"
        /\ \A j \in DOMAIN releases \ {i} : releases'[j] = releases[j]
    BY <1>4, ReleaseMoves DEF ReleaseSteps
  <2>2. P!TypeOK'
    BY <1>1, <1>4, <2>1 DEF P!TypeOK, ReleaseSteps
  <2>3. ~ shutdown => \A a \in Agents : piSession[a].command.step # "running"
    BY <1>4, NobodyHoldsNothingRuns DEF P!SandboxInv
  <2>4. P!ResetsSpareCommands'
    BY <1>1, <1>4, <2>3 DEF P!SandboxInv, P!ResetsSpareCommands, P!Ready
  <2>5. P!SandboxIsHeld'
    BY <2>1 DEF P!SandboxIsHeld
  <2>. QED
    BY <1>1, <1>2, <1>4, <2>2, <2>4, <2>5 DEF P!SandboxInv, P!AcquisitionsAreQueued, P!QueueWaits
<1>5. CASE /\ count = 0 /\ os = "win32" /\ releases' = [releases EXCEPT ![i] = "queued"]
           /\ queue' = Append(queue, [op |-> "reset", of |-> i])
  <2>. DEFINE e == [op |-> "reset", of |-> i]
  <2>1. /\ releases' \in Seq(ReleaseSteps) /\ DOMAIN releases' = DOMAIN releases
        /\ releases'[i] = "queued"
        /\ \A j \in DOMAIN releases \ {i} : releases'[j] = releases[j]
    BY <1>5, ReleaseMoves DEF ReleaseSteps
  <2>2. queue \in Seq(P!QueueEntries) /\ e \in P!QueueEntries
    BY DEF P!TypeOK, P!QueueEntries
  <2>3. /\ queue' \in Seq(P!QueueEntries) /\ DOMAIN queue' = DOMAIN queue \union {Len(queue) + 1}
        /\ \A k \in DOMAIN queue : queue'[k] = queue[k]
        /\ queue'[Len(queue) + 1] = e
        /\ queue # <<>> => queue' # <<>> /\ Head(queue') = Head(queue)
    BY <1>5, <2>2, AppendedIsLast
  <2>4. P!TypeOK'
    BY <1>1, <2>1, <2>3 DEF P!TypeOK, ReleaseSteps
  <2>5. P!AcquisitionsAreQueued'
    BY <1>1, <2>3 DEF P!SandboxInv, P!AcquisitionsAreQueued
  <2>6. P!QueueWaits' /\ P!ResetsSpareCommands'
    BY <1>1, <1>5, <2>1, <2>3 DEF P!SandboxInv, P!QueueWaits, P!ResetsSpareCommands
  <2>7. P!SandboxIsHeld'
    BY <2>1 DEF P!SandboxIsHeld
  <2>. QED
    BY <1>2, <2>4, <2>5, <2>6, <2>7 DEF P!SandboxInv
<1>. QED
  BY <1>3, <1>4, <1>5 DEF P!Resume

LEMMA ResetIsDone ==
  ASSUME P!TypeOK, P!SandboxInv, NEW i \in DOMAIN releases, P!ResetEnds(i)
  PROVE  P!TypeOK' /\ P!SandboxInv'
<1>1. /\ releases[i] = "resetting" /\ releases' = [releases EXCEPT ![i] = "done"]
      /\ init' = 0 /\ policy' = "off" /\ manager' = "off"
      /\ UNCHANGED <<os, shutdown, piSession, count, promises, queue>>
  BY DEF P!ResetEnds
<1>2. /\ releases' \in Seq(ReleaseSteps) /\ DOMAIN releases' = DOMAIN releases
      /\ releases'[i] = "done"
      /\ \A j \in DOMAIN releases \ {i} : releases'[j] = releases[j]
  BY <1>1, ReleaseMoves DEF ReleaseSteps
<1>3. P!TypeOK'
  BY <1>1, <1>2 DEF P!TypeOK, ReleaseSteps
<1>4. os = "posix"
  BY <1>1 DEF P!SandboxInv, P!QueueWaits, P!TypeOK
<1>5. \A a \in Agents : piSession[a].command.step = "running" => shutdown \/ piSession[a].command.late
  BY <1>1, <1>4 DEF P!SandboxInv, P!ResetsSpareCommands, P!Resetting
<1>. QED
  BY <1>1, <1>2, <1>3, <1>4, <1>5 DEF P!SandboxInv, P!HoldersHold, P!CountIsExact,
     P!AcquisitionsAreQueued, P!QueueWaits, P!ResetsSpareCommands, P!PromisesAreAwaited,
     P!SandboxIsHeld, P!Ready

\* A function on a set, defined for each of its elements.
DefinedOn(f, S) == f = [a \in S |-> f[a]]

LEMMA DefinedIsTyped ==
  ASSUME NEW f, NEW S, NEW T, DefinedOn(f, S), \A a \in S : f[a] \in T
  PROVE  f \in [S -> T]
<1>1. f = [a \in S |-> f[a]]
  BY DEF DefinedOn
<1>2. [a \in S |-> f[a]] \in [S -> T]
  OBVIOUS
<1>. QED
  BY <1>1, <1>2, Zenon

\* A session whose command runs.
Begins(s, l) == [s EXCEPT !.command.step = "running", !.command.late = l]

LEMMA RunningIsBegun ==
  ASSUME NEW s \in P!SessionType, NEW l \in BOOLEAN
  PROVE  /\ Begins(s, l).turn = s.turn /\ Begins(s, l).acquired = s.acquired
         /\ Begins(s, l).known = s.known /\ Begins(s, l).mode = s.mode
         /\ Begins(s, l).awaits = s.awaits /\ Begins(s, l).command.step = "running"
         /\ Begins(s, l).command.cwd = s.command.cwd /\ Begins(s, l).command.late = l
BY DEF P!SessionType, P!Commands, Begins

\* The initialization is done: who waits for it goes on, or has failed.
LEMMA InitializationSucceeds ==
  ASSUME AgentsAreFinite, P!TypeOK, P!SandboxInv, NEW p \in DOMAIN promises, os = "posix",
         promises[p] = "going", promises' = [promises EXCEPT ![p] = "ok"], manager' = "on",
         NEW A, A = {a \in Agents : piSession[a].turn = "acquire" /\ piSession[a].awaits = p},
         NEW B, B = {a \in Agents : piSession[a].command.step = "begun" /\ piSession[a].command.awaits = p},
         DefinedOn(piSession', Agents),
         \A a \in A : piSession'[a] = P!Acquired(piSession[a]),
         \A a \in B : piSession'[a] = Begins(piSession[a], piSession[a].command.late \/ P!Resetting),
         \A a \in Agents \ (A \union B) : piSession'[a] = piSession[a],
         UNCHANGED <<os, shutdown, init, count, releases, policy, queue>>
  PROVE  P!TypeOK' /\ P!SandboxInv'
<1>1. /\ piSession \in [Agents -> P!SessionType] /\ \A a \in Agents : piSession[a] \in P!SessionType
      /\ P!Resetting \in BOOLEAN /\ queue = <<>>
  BY DEF P!TypeOK, P!Resetting, P!SandboxInv, P!QueueWaits
<1>2. A \cap B = {} /\ A \subseteq Agents /\ B \subseteq Agents
  BY DEF P!SandboxInv, P!HoldersHold
<1>3. ASSUME NEW a \in A
      PROVE  /\ piSession'[a] \in P!SessionType /\ piSession'[a].command = piSession[a].command
             /\ piSession'[a].turn = IF piSession[a].known THEN "prompt" ELSE "closed"
             /\ piSession'[a].acquired = piSession[a].acquired /\ piSession'[a].known = piSession[a].known
             /\ piSession[a].turn = "acquire" /\ piSession[a].awaits = p
  <2>1. piSession'[a] = P!Acquired(piSession[a])
    BY <1>2
  <2>2. P!Acquired(piSession[a]) \in P!SessionType
    BY <1>1, <1>2, SessionIsTyped
  <2>. QED
    BY <1>1, <1>2, <2>1, <2>2 DEF P!Acquired, P!SessionType
<1>4. ASSUME NEW a \in B
      PROVE  /\ piSession'[a] \in P!SessionType /\ piSession'[a].turn = piSession[a].turn
             /\ piSession'[a].acquired = piSession[a].acquired /\ piSession'[a].known = piSession[a].known
             /\ piSession'[a].mode = piSession[a].mode /\ piSession'[a].awaits = piSession[a].awaits
             /\ piSession'[a].command.step = "running" /\ piSession'[a].command.cwd = piSession[a].command.cwd
             /\ piSession'[a].command.late = (piSession[a].command.late \/ P!Resetting)
             /\ piSession[a].command.step = "begun" /\ piSession[a].command.awaits = p
  <2>. DEFINE l == piSession[a].command.late \/ P!Resetting
  <2>1. piSession'[a] = Begins(piSession[a], l)
    BY <1>2
  <2>2. l \in BOOLEAN /\ piSession[a] \in P!SessionType
    BY <1>1, <1>2
  <2>. HIDE DEF l
  <2>3. Begins(piSession[a], l) \in P!SessionType
    BY <2>2, SessionIsTyped DEF Begins
  <2>4. l = (piSession[a].command.late \/ P!Resetting)
    BY DEF l
  <2>5. piSession[a].command.step = "begun" /\ piSession[a].command.awaits = p
    OBVIOUS
  <2>6. /\ piSession'[a].turn = piSession[a].turn /\ piSession'[a].acquired = piSession[a].acquired
        /\ piSession'[a].known = piSession[a].known /\ piSession'[a].mode = piSession[a].mode
        /\ piSession'[a].awaits = piSession[a].awaits /\ piSession'[a].command.step = "running"
        /\ piSession'[a].command.cwd = piSession[a].command.cwd /\ piSession'[a].command.late = l
    BY <2>1, <2>2, RunningIsBegun
  <2>. QED
    BY <2>1, <2>2, <2>3, <2>4, <2>5, <2>6
<1>5. \A a \in Agents \ (A \union B) : piSession'[a] = piSession[a]
  OBVIOUS
<1>6. promises' \in Seq(Promises) /\ DOMAIN promises' = DOMAIN promises
      /\ promises'[p] = "ok" /\ \A q \in DOMAIN promises \ {p} : promises'[q] = promises[q]
  <2>1. promises \in Seq(Promises) /\ "ok" \in Promises
    BY DEF P!TypeOK, Promises
  <2>. QED
    BY <2>1, ReplacedKeepsType
<1>7. P!TypeOK'
  <2>1. piSession' \in [Agents -> P!SessionType]
    <3>1. \A a \in Agents : piSession'[a] \in P!SessionType
      BY <1>1, <1>3, <1>4, <1>5
    <3>. QED
      BY <3>1, DefinedIsTyped
  <2>. QED
    BY <1>6, <2>1 DEF P!TypeOK, Promises
<1>8. P!HoldersHold'
  <2>. SUFFICES ASSUME NEW a \in Agents
                PROVE /\ piSession'[a].turn \in {"none", "acquire"} => piSession'[a].command.step = "none"
                      /\ ~ shutdown =>
                           /\ piSession'[a].turn # "closed"
                           /\ piSession'[a].turn # "none" \/ piSession'[a].acquired => piSession'[a].known
                           /\ piSession'[a].turn = "acquire" \/ piSession'[a].command.step # "none"
                                => piSession'[a].acquired
                           /\ piSession'[a].turn = "prompt" /\ piSession'[a].mode = "allowed"
                                => piSession'[a].acquired
    BY DEF P!HoldersHold
  <2>1. CASE a \in A
    BY <1>3, <2>1 DEF P!SandboxInv, P!HoldersHold
  <2>2. CASE a \in B
    <3>1. piSession[a].command.step = "begun" /\ piSession[a] \in P!SessionType
      BY <1>1, <2>2
    <3>. QED
      BY <1>4, <2>2, <3>1 DEF P!SandboxInv, P!HoldersHold, P!SessionType
  <2>3. CASE a \notin A /\ a \notin B
    BY <1>5, <2>3 DEF P!SandboxInv, P!HoldersHold
  <2>. QED
    BY <2>1, <2>2, <2>3
<1>9. P!CountIsExact'
  <2>1. \A a \in Agents : piSession'[a].acquired = piSession[a].acquired
    BY <1>3, <1>4, <1>5
  <2>2. Holders(piSession') = Holders(piSession)
    BY <2>1, HoldersStay
  <2>. QED
    BY <2>2, CountIsOfHolders DEF P!SandboxInv
<1>10. P!AcquisitionsAreQueued' /\ P!QueueWaits'
  <2>1. queue' = <<>> /\ os' = "posix"
    BY <1>1
  <2>. QED
    BY <2>1 DEF P!AcquisitionsAreQueued, P!QueueWaits
<1>11. P!ResetsSpareCommands'
  <2>. SUFFICES ASSUME NEW a \in Agents, piSession'[a].command.step = "running", ~ shutdown,
                       ~ piSession'[a].command.late
                PROVE  ~ P!Resetting
    BY DEF P!ResetsSpareCommands, P!Resetting
  <2>1. CASE a \in A
    BY <1>3, <2>1 DEF P!SandboxInv, P!HoldersHold
  <2>2. CASE a \in B
    BY <1>4, <2>2
  <2>3. CASE a \notin A /\ a \notin B
    BY <1>5, <2>3 DEF P!SandboxInv, P!ResetsSpareCommands
  <2>. QED
    BY <2>1, <2>2, <2>3
<1>12. P!PromisesAreAwaited'
  <2>. SUFFICES ASSUME ~ shutdown, NEW q \in DOMAIN promises', promises'[q] = "going"
                PROVE  \E a \in Agents :
                          \/ piSession'[a].turn = "acquire" /\ piSession'[a].awaits = q
                          \/ piSession'[a].command.step = "begun" /\ piSession'[a].command.awaits = q
    BY DEF P!PromisesAreAwaited
  <2>1. q # p /\ q \in DOMAIN promises /\ promises[q] = "going"
    BY <1>6
  <2>2. PICK a \in Agents : \/ piSession[a].turn = "acquire" /\ piSession[a].awaits = q
                            \/ piSession[a].command.step = "begun" /\ piSession[a].command.awaits = q
    BY <2>1 DEF P!SandboxInv, P!PromisesAreAwaited
  <2>3. a \notin A /\ a \notin B
    BY <2>1, <2>2 DEF P!SandboxInv, P!HoldersHold
  <2>. QED
    BY <1>5, <2>2, <2>3
<1>13. P!SandboxIsHeld'
  <2>1. ~ shutdown => count # 0
    <3>. SUFFICES ASSUME ~ shutdown, count = 0 PROVE FALSE
      OBVIOUS
    <3>1. PICK a \in Agents : piSession[a].turn = "acquire" \/ piSession[a].command.step = "begun"
      BY DEF P!SandboxInv, P!PromisesAreAwaited
    <3>. QED
      BY <3>1, NobodyHoldsNothingRuns DEF P!SandboxInv
  <2>. QED
    BY <2>1 DEF P!SandboxIsHeld
<1>. QED
  BY <1>7, <1>8, <1>9, <1>10, <1>11, <1>12, <1>13 DEF P!SandboxInv

LEMMA InitializationFails ==
  ASSUME AgentsAreFinite, P!TypeOK, P!SandboxInv, NEW p \in DOMAIN promises, os = "posix",
         promises[p] = "going", promises' = [promises EXCEPT ![p] = "failed"], init' = 0,
         NEW A, A = {a \in Agents : piSession[a].turn = "acquire" /\ piSession[a].awaits = p},
         NEW B, B = {a \in Agents : piSession[a].command.step = "begun" /\ piSession[a].command.awaits = p},
         DefinedOn(piSession', Agents),
         \A a \in A : piSession'[a] = P!NotAcquired(piSession[a]),
         \A a \in B : piSession'[a] = [piSession[a] EXCEPT !.command = P!NoCommand],
         \A a \in Agents \ (A \union B) : piSession'[a] = piSession[a],
         count' = P!Counted(P!Cardinality(A)), P!CommandsEnd(B),
         UNCHANGED <<os, shutdown, manager, policy, queue>>
  PROVE  P!TypeOK' /\ P!SandboxInv'
<1>1. /\ piSession \in [Agents -> P!SessionType] /\ \A a \in Agents : piSession[a] \in P!SessionType
      /\ queue = <<>> /\ count \in Nat
  BY DEF P!TypeOK, P!SandboxInv, P!QueueWaits
<1>2. A \cap B = {} /\ A \subseteq Agents /\ B \subseteq Agents
  BY DEF P!SandboxInv, P!HoldersHold
<1>3. ASSUME NEW a \in A
      PROVE  /\ piSession'[a] \in P!SessionType /\ piSession'[a].command.step = "none"
             /\ piSession'[a].turn = "none" /\ ~ piSession'[a].acquired
  <2>1. piSession'[a] = P!NotAcquired(piSession[a]) /\ piSession[a] \in P!SessionType
    BY <1>1, <1>2
  <2>2. P!NotAcquired(piSession[a]) \in P!SessionType
    BY <2>1, SessionIsTyped
  <2>3. piSession[a].command.step = "none"
    BY <1>2 DEF P!SandboxInv, P!HoldersHold
  <2>4. CASE piSession[a].fresh
    <3>1. piSession'[a] = P!NoSession
      BY <2>1, <2>4 DEF P!NotAcquired
    <3>. QED
      BY <2>2, <3>1 DEF P!NoSession, P!NoCommand
  <2>5. CASE ~ piSession[a].fresh
    <3>1. piSession'[a] = [piSession[a] EXCEPT !.acquired = FALSE, !.turn = "none", !.awaits = 0]
      BY <2>1, <2>5 DEF P!NotAcquired
    <3>. QED
      BY <2>1, <2>2, <2>3, <3>1 DEF P!SessionType
  <2>. QED
    BY <2>4, <2>5
<1>4. ASSUME NEW a \in B
      PROVE  /\ piSession'[a] \in P!SessionType /\ piSession'[a].turn = piSession[a].turn
             /\ piSession'[a].acquired = piSession[a].acquired /\ piSession'[a].known = piSession[a].known
             /\ piSession'[a].mode = piSession[a].mode /\ piSession'[a].awaits = piSession[a].awaits
             /\ piSession'[a].command.step = "none"
  <2>1. piSession'[a] = [piSession[a] EXCEPT !.command = P!NoCommand] /\ piSession[a] \in P!SessionType
    BY <1>1, <1>2
  <2>2. [piSession[a] EXCEPT !.command = P!NoCommand] \in P!SessionType
    BY <2>1, SessionIsTyped, NoSessionIsTyped
  <2>. QED
    BY <2>1, <2>2 DEF P!SessionType, P!NoCommand
<1>5. \A a \in Agents \ (A \union B) : piSession'[a] = piSession[a]
  OBVIOUS
<1>6. promises' \in Seq(Promises) /\ DOMAIN promises' = DOMAIN promises
      /\ promises'[p] = "failed" /\ \A q \in DOMAIN promises \ {p} : promises'[q] = promises[q]
  <2>1. promises \in Seq(Promises) /\ "failed" \in Promises
    BY DEF P!TypeOK, Promises
  <2>. QED
    BY <2>1, ReplacedKeepsType
<1>7. /\ releases' \in Seq(ReleaseSteps) /\ P!Resetting' = P!Resetting
  BY WakingKeepsReleases DEF P!Resetting
<1>8. /\ ~ shutdown => count' = Cardinality(Holders(piSession'))
      /\ count' \in Nat
  <2>1. P!Cardinality(A) = Cardinality(A)
    BY CountingIsTheSame
  <2>2. IsFiniteSet(A) /\ Cardinality(A) \in Nat
    BY <1>2, FS_Subset, FS_CardinalityType DEF AgentsAreFinite
  <2>3. count' \in Nat
    BY <1>1, <2>1, <2>2 DEF P!Counted
  <2>4. ASSUME ~ shutdown PROVE count' = Cardinality(Holders(piSession'))
    <3>1. A \in SUBSET Holders(piSession)
      BY <1>2, <2>4 DEF Holders, P!SandboxInv, P!HoldersHold
    <3>2. \A b \in Agents : piSession'[b].acquired = (piSession[b].acquired /\ b \notin A)
      <4>1. \A b \in A : piSession'[b].acquired = FALSE
        <5>1. \A b \in A : piSession'[b].acquired \in BOOLEAN
          BY <1>3 DEF P!SessionType
        <5>. QED
          BY <1>3, <5>1
      <4>2. \A b \in Agents : piSession[b].acquired \in BOOLEAN
        BY <1>1 DEF P!SessionType
      <4>3. \A b \in Agents \ A : piSession'[b].acquired = piSession[b].acquired
        BY <1>4, <1>5
      <4>. QED
        BY <4>1, <4>2, <4>3
    <3>3. /\ Cardinality(Holders(piSession')) = Cardinality(Holders(piSession)) - Cardinality(A)
          /\ Cardinality(Holders(piSession')) \in Nat
      BY <3>1, <3>2, HoldersFail
    <3>4. count = Cardinality(Holders(piSession))
      BY <2>4, CountIsOfHolders DEF P!SandboxInv
    <3>. QED
      BY <1>1, <2>1, <2>2, <3>3, <3>4 DEF P!Counted
  <2>. QED
    BY <2>3, <2>4
<1>9. P!TypeOK'
  <2>1. piSession' \in [Agents -> P!SessionType]
    <3>1. \A a \in Agents : piSession'[a] \in P!SessionType
      BY <1>1, <1>3, <1>4, <1>5
    <3>. QED
      BY <3>1, DefinedIsTyped
  <2>. QED
    BY <1>6, <1>7, <1>8, <2>1 DEF P!TypeOK, Promises, ReleaseSteps
<1>10. P!HoldersHold'
  <2>. SUFFICES ASSUME NEW a \in Agents
                PROVE /\ piSession'[a].turn \in {"none", "acquire"} => piSession'[a].command.step = "none"
                      /\ ~ shutdown =>
                           /\ piSession'[a].turn # "closed"
                           /\ piSession'[a].turn # "none" \/ piSession'[a].acquired => piSession'[a].known
                           /\ piSession'[a].turn = "acquire" \/ piSession'[a].command.step # "none"
                                => piSession'[a].acquired
                           /\ piSession'[a].turn = "prompt" /\ piSession'[a].mode = "allowed"
                                => piSession'[a].acquired
    BY DEF P!HoldersHold
  <2>1. CASE a \in A
    BY <1>3, <2>1
  <2>2. CASE a \in B
    BY <1>4, <2>2 DEF P!SandboxInv, P!HoldersHold
  <2>3. CASE a \notin A /\ a \notin B
    BY <1>5, <2>3 DEF P!SandboxInv, P!HoldersHold
  <2>. QED
    BY <2>1, <2>2, <2>3
<1>11. P!CountIsExact'
  BY <1>8, CountIsOfHolders
<1>12. P!AcquisitionsAreQueued' /\ P!QueueWaits'
  <2>1. queue' = <<>> /\ os' = "posix"
    BY <1>1
  <2>. QED
    BY <2>1 DEF P!AcquisitionsAreQueued, P!QueueWaits
<1>13. P!ResetsSpareCommands'
  <2>1. ASSUME NEW a \in Agents, piSession'[a].command.step = "running", ~ shutdown,
               ~ piSession'[a].command.late
        PROVE  manager = "on" /\ ~ P!Resetting
    <3>1. piSession'[a] = piSession[a]
      BY <1>3, <1>4, <1>5, <2>1
    <3>. QED
      BY <2>1, <3>1 DEF P!SandboxInv, P!ResetsSpareCommands
  <2>. QED
    BY <1>7, <2>1 DEF P!ResetsSpareCommands, P!Ready
<1>14. P!PromisesAreAwaited'
  <2>. SUFFICES ASSUME ~ shutdown, NEW q \in DOMAIN promises', promises'[q] = "going"
                PROVE  \E a \in Agents :
                          \/ piSession'[a].turn = "acquire" /\ piSession'[a].awaits = q
                          \/ piSession'[a].command.step = "begun" /\ piSession'[a].command.awaits = q
    BY DEF P!PromisesAreAwaited
  <2>1. q # p /\ q \in DOMAIN promises /\ promises[q] = "going"
    BY <1>6
  <2>2. PICK a \in Agents : \/ piSession[a].turn = "acquire" /\ piSession[a].awaits = q
                            \/ piSession[a].command.step = "begun" /\ piSession[a].command.awaits = q
    BY <2>1 DEF P!SandboxInv, P!PromisesAreAwaited
  <2>3. a \notin A /\ a \notin B
    BY <2>1, <2>2 DEF P!SandboxInv, P!HoldersHold
  <2>. QED
    BY <1>5, <2>2, <2>3
<1>15. P!SandboxIsHeld'
  BY <1>6 DEF P!SandboxIsHeld
<1>. QED
  BY <1>9, <1>10, <1>11, <1>12, <1>13, <1>14, <1>15 DEF P!SandboxInv

LEMMA InitializationEnds ==
  ASSUME AgentsAreFinite, P!TypeOK, P!SandboxInv, NEW p \in DOMAIN promises, P!Initialized(p)
  PROVE  P!TypeOK' /\ P!SandboxInv'
<1>. DEFINE A == {a \in Agents : piSession[a].turn = "acquire" /\ piSession[a].awaits = p}
            B == {a \in Agents : piSession[a].command.step = "begun" /\ piSession[a].command.awaits = p}
<1>0. A \cap B = {} /\ A \subseteq Agents /\ B \subseteq Agents
  BY DEF P!SandboxInv, P!HoldersHold
<1>1. CASE promises' = [promises EXCEPT ![p] = "ok"]
  <2>1. /\ os = "posix" /\ promises[p] = "going" /\ manager' = "on"
        /\ UNCHANGED <<os, shutdown, init, count, releases, policy, queue>>
        /\ piSession' = [a \in Agents |->
                CASE a \in A -> P!Acquired(piSession[a])
                  [] a \in B -> Begins(piSession[a], piSession[a].command.late \/ P!Resetting)
                  [] OTHER -> piSession[a]]
    BY <1>1 DEF P!Initialized, P!TypeOK, Begins
  <2>2. /\ DefinedOn(piSession', Agents)
        /\ \A a \in A : piSession'[a] = P!Acquired(piSession[a])
        /\ \A a \in B : piSession'[a] = Begins(piSession[a], piSession[a].command.late \/ P!Resetting)
        /\ \A a \in Agents \ (A \union B) : piSession'[a] = piSession[a]
    <3>. HIDE DEF A, B
    <3>. QED
      BY <1>0, <2>1 DEF DefinedOn
  <2>. QED
    BY <1>1, <2>1, <2>2, InitializationSucceeds
<1>2. CASE promises' = [promises EXCEPT ![p] = "failed"]
  <2>1. /\ os = "posix" /\ promises[p] = "going" /\ init' = 0
        /\ count' = P!Counted(P!Cardinality(A)) /\ P!CommandsEnd(B)
        /\ UNCHANGED <<os, shutdown, manager, policy, queue>>
        /\ piSession' = [a \in Agents |->
                CASE a \in A -> P!NotAcquired(piSession[a])
                  [] a \in B -> [piSession[a] EXCEPT !.command = P!NoCommand]
                  [] OTHER -> piSession[a]]
    BY <1>2 DEF P!Initialized, P!TypeOK
  <2>2. /\ DefinedOn(piSession', Agents)
        /\ \A a \in A : piSession'[a] = P!NotAcquired(piSession[a])
        /\ \A a \in B : piSession'[a] = [piSession[a] EXCEPT !.command = P!NoCommand]
        /\ \A a \in Agents \ (A \union B) : piSession'[a] = piSession[a]
    <3>. HIDE DEF A, B
    <3>. QED
      BY <1>0, <2>1 DEF DefinedOn
  <2>. QED
    BY <1>2, <2>1, <2>2, InitializationFails
<1>. QED
  BY <1>1, <1>2 DEF P!Initialized

\* An acquisition or a command in the queue is of an agent.
LEMMA EntriesAreOfAgents ==
  ASSUME NEW e \in P!QueueEntries
  PROVE  /\ e.op = "acquire" => e.of \in Agents
         /\ e.op = "command" => e.of \in Agents
BY DEF P!QueueEntries

LEMMA CommandIsItsAgent ==
  ASSUME NEW e \in P!QueueEntries, e.op = "command"
  PROVE  e = [op |-> "command", of |-> e.of]
BY DEF P!QueueEntries

\* The head of the queue is done: the acquisitions behind it are still to come.
LEMMA QueueMovesUp ==
  ASSUME P!TypeOK, P!AcquisitionsAreQueued, queue # <<>>, queue' = Tail(queue)
  PROVE  /\ queue' \in Seq(P!QueueEntries) /\ Head(queue) \in P!QueueEntries
         /\ Head(queue).op \in {"acquire", "command"} => Head(queue).of \in Agents
         /\ \A k \in DOMAIN queue' : queue'[k].op = "acquire" =>
              /\ queue'[k].of \in Agents /\ piSession[queue'[k].of].turn = "acquire"
              /\ \A l \in DOMAIN queue' : queue'[l] = queue'[k] => l = k
              /\ Head(queue).op = "acquire" => queue'[k].of # Head(queue).of
         /\ Head(queue).op = "acquire" => piSession[Head(queue).of].turn = "acquire"
         /\ Head(queue).op = "command" => Head(queue) = [op |-> "command", of |-> Head(queue).of]
<1>1. queue \in Seq(P!QueueEntries)
  BY DEF P!TypeOK
<1>2. /\ queue' \in Seq(P!QueueEntries) /\ 1 \in DOMAIN queue /\ Head(queue) = queue[1]
      /\ \A n \in DOMAIN queue' : n + 1 \in DOMAIN queue /\ n + 1 # 1 /\ queue'[n] = queue[n + 1]
      /\ Head(queue) \in P!QueueEntries
  BY <1>1, DoneLeavesTheRest
<1>4. \A e, d \in P!QueueEntries : e.op = d.op /\ e.of = d.of => e = d
  BY DEF P!QueueEntries
<1>5. \A k \in DOMAIN queue : queue[k] \in P!QueueEntries
  BY <1>1
<1>6. \A k \in DOMAIN queue' : k \in Nat
  BY <1>2
<1>7. ASSUME NEW k \in DOMAIN queue', queue'[k].op = "acquire"
      PROVE  /\ queue'[k].of \in Agents /\ piSession[queue'[k].of].turn = "acquire"
             /\ \A l \in DOMAIN queue' : queue'[l] = queue'[k] => l = k
             /\ Head(queue).op = "acquire" => queue'[k].of # Head(queue).of
  <2>1. /\ k + 1 \in DOMAIN queue /\ k + 1 # 1 /\ queue'[k] = queue[k + 1]
        /\ queue[k + 1] \in P!QueueEntries
    BY <1>2, <1>5, <1>7
  <2>2. \A l \in DOMAIN queue : queue[l] = queue[k + 1] => l = k + 1
    BY <1>7, <2>1 DEF P!AcquisitionsAreQueued
  <2>3. \A l \in DOMAIN queue' : queue'[l] = queue'[k] => l = k
    BY <1>2, <1>6, <2>1, <2>2
  <2>4. Head(queue).op = "acquire" => queue'[k].of # Head(queue).of
    BY <1>2, <1>4, <1>7, <2>1, <2>2
  <2>5. piSession[queue'[k].of].turn = "acquire"
    BY <1>7, <2>1 DEF P!AcquisitionsAreQueued
  <2>6. queue'[k].of \in Agents
    <3>1. queue[k + 1].op = "acquire"
      BY <1>7, <2>1
    <3>2. queue[k + 1].of \in Agents
      BY <2>1, <3>1, EntriesAreOfAgents
    <3>. QED
      BY <2>1, <3>2
  <2>. QED
    BY <2>3, <2>4, <2>5, <2>6
<1>8. Head(queue).op = "acquire" => piSession[Head(queue).of].turn = "acquire"
  <2>1. queue[1].op = "acquire" => piSession[queue[1].of].turn = "acquire"
    BY <1>2 DEF P!AcquisitionsAreQueued
  <2>. QED
    BY <1>2, <2>1, Zenon
<1>9. /\ Head(queue).op \in {"acquire", "command"} => Head(queue).of \in Agents
      /\ Head(queue).op = "command" => Head(queue) = [op |-> "command", of |-> Head(queue).of]
  <2>1. Head(queue) \in P!QueueEntries
    BY <1>2
  <2>2. Head(queue).op = "command" => Head(queue) = [op |-> "command", of |-> Head(queue).of]
    BY <2>1, CommandIsItsAgent
  <2>3. Head(queue).op \in {"acquire", "command"} => Head(queue).of \in Agents
    BY <2>1, EntriesAreOfAgents
  <2>. QED
    BY <2>2, <2>3
<1>10. \A k \in DOMAIN queue' : queue'[k].op = "acquire" =>
         /\ queue'[k].of \in Agents /\ piSession[queue'[k].of].turn = "acquire"
         /\ \A l \in DOMAIN queue' : queue'[l] = queue'[k] => l = k
         /\ Head(queue).op = "acquire" => queue'[k].of # Head(queue).of
  BY <1>7
<1>11. queue' \in Seq(P!QueueEntries) /\ Head(queue) \in P!QueueEntries
  BY <1>2
<1>. QED
  BY <1>8, <1>9, <1>10, <1>11, Zenon

\* The sandbox gets the policy of a directory.
LEMMA PolicyIsSet ==
  ASSUME P!TypeOK, P!QueueWaits, os = "win32", NEW dir, P!EnsureWindows(dir)
  PROVE  /\ promises' \in Seq(Promises) /\ init' \in {0} \union DOMAIN promises'
         /\ manager' = policy' /\ manager' = dir
<1>1. promises \in Seq(Promises) /\ "ok" \in Promises
  BY DEF P!TypeOK, Promises
<1>2. CASE P!Ensured(dir)
  BY <1>1, <1>2 DEF P!EnsureWindows, P!Ensured, P!QueueWaits, P!TypeOK
<1>3. CASE ~ P!Ensured(dir)
  BY <1>1, <1>3, AppendedIsLast DEF P!EnsureWindows
<1>. QED
  BY <1>2, <1>3

\* What is at the head of the queue.
LEMMA HeadRunsAlone ==
  ASSUME P!TypeOK, P!SandboxInv, queue # <<>>
  PROVE  /\ os = "win32"
         /\ \A b \in Agents : piSession[b].command.step = "running" =>
              Head(queue).op = "command" /\ Head(queue).of = b
         /\ \A i \in DOMAIN releases : releases[i] # "resetting"
BY DEF P!SandboxInv, P!QueueWaits, P!TypeOK

LEMMA QueuedAcquireRuns ==
  ASSUME AgentsAreFinite, P!TypeOK, P!SandboxInv, queue # <<>>, Head(queue).op = "acquire",
         NEW a, a = Head(queue).of, P!QueuedAcquire(a), UNCHANGED <<os, shutdown>>
  PROVE  P!TypeOK' /\ P!SandboxInv'
<1>1. queue' = Tail(queue) /\ UNCHANGED releases
  BY DEF P!QueuedAcquire
<1>2. /\ queue' \in Seq(P!QueueEntries) /\ a \in Agents /\ piSession[a].turn = "acquire"
      /\ \A k \in DOMAIN queue' : queue'[k].op = "acquire" =>
           /\ queue'[k].of \in Agents \ {a} /\ piSession[queue'[k].of].turn = "acquire"
           /\ \A l \in DOMAIN queue' : queue'[l] = queue'[k] => l = k
  BY <1>1, QueueMovesUp DEF P!SandboxInv
<1>3. /\ os = "win32" /\ \A b \in Agents : piSession[b].command.step # "running"
      /\ \A i \in DOMAIN releases : releases[i] # "resetting"
  BY HeadRunsAlone
<1>4. /\ piSession \in [Agents -> P!SessionType] /\ piSession[a] \in P!SessionType
      /\ piSession[a].command.step = "none" /\ count \in Nat
      /\ ~ shutdown => piSession[a].acquired /\ piSession[a].known
  BY <1>2 DEF P!TypeOK, P!SandboxInv, P!HoldersHold
<1>5. ASSUME NEW s \in P!SessionType, s.command.step = "none", s.turn # "acquire",
             piSession' = [piSession EXCEPT ![a] = s],
             ~ shutdown => /\ s.turn # "closed" /\ (s.turn # "none" \/ s.acquired => s.known)
                           /\ s.turn = "prompt" /\ s.mode = "allowed" => s.acquired
      PROVE  /\ piSession' \in [Agents -> P!SessionType] /\ piSession'[a] = s
             /\ \A b \in Agents \ {a} : piSession'[b] = piSession[b]
             /\ P!HoldersHold' /\ P!AcquisitionsAreQueued'
  <2>1. /\ piSession' \in [Agents -> P!SessionType] /\ piSession'[a] = s
        /\ \A b \in Agents \ {a} : piSession'[b] = piSession[b]
    BY <1>2, <1>4, <1>5
  <2>2. P!HoldersHold'
    BY <1>5, <2>1 DEF P!SandboxInv, P!HoldersHold
  <2>3. P!AcquisitionsAreQueued'
    BY <1>2, <2>1 DEF P!AcquisitionsAreQueued
  <2>. QED
    BY <2>1, <2>2, <2>3
<1>6. CASE P!EnsureWindows(Workspace[a]) /\ UNCHANGED count
           /\ piSession' = [piSession EXCEPT ![a] = P!Acquired(piSession[a])]
  <2>. DEFINE s == P!Acquired(piSession[a])
  <2>1. /\ s \in P!SessionType /\ s.command.step = "none" /\ s.acquired = piSession[a].acquired
        /\ s.known = piSession[a].known /\ s.turn = IF piSession[a].known THEN "prompt" ELSE "closed"
    <3>1. s \in P!SessionType
      BY <1>4, SessionIsTyped
    <3>. QED
      BY <1>4, <3>1 DEF P!Acquired, P!SessionType
  <2>. HIDE DEF s
  <2>2. /\ piSession' \in [Agents -> P!SessionType] /\ piSession'[a] = s
        /\ \A b \in Agents \ {a} : piSession'[b] = piSession[b]
        /\ P!HoldersHold' /\ P!AcquisitionsAreQueued'
    BY <1>4, <1>5, <1>6, <2>1 DEF s
  <2>3. /\ promises' \in Seq(Promises) /\ init' \in {0} \union DOMAIN promises'
        /\ manager' = policy'
    BY <1>3, <1>6, PolicyIsSet DEF P!SandboxInv
  <2>4. P!TypeOK'
    BY <1>1, <1>2, <1>6, <2>2, <2>3 DEF P!TypeOK, Promises
  <2>5. P!CountIsExact'
    <3>1. Holders(piSession') = Holders(piSession)
      BY <2>1, <2>2, HoldersStay
    <3>. QED
      BY <1>6, <3>1, CountIsOfHolders DEF P!SandboxInv
  <2>6. P!QueueWaits'
    <3>1. \A b \in Agents : piSession'[b].command.step # "running"
      BY <1>3, <2>1, <2>2
    <3>. QED
      BY <1>1, <1>3, <2>3, <3>1 DEF P!QueueWaits
  <2>7. ~ shutdown => count # 0
    BY <1>2, <1>4, NobodyHoldsNothingRuns DEF P!SandboxInv
  <2>8. P!ResetsSpareCommands' /\ P!PromisesAreAwaited' /\ P!SandboxIsHeld'
    BY <1>3, <1>6, <2>7 DEF P!ResetsSpareCommands, P!PromisesAreAwaited, P!SandboxIsHeld
  <2>. QED
    BY <2>2, <2>4, <2>5, <2>6, <2>8 DEF P!SandboxInv
<1>7. CASE P!EnsureFails(Workspace[a]) /\ count' = P!Counted(1)
           /\ piSession' = [piSession EXCEPT ![a] = P!NotAcquired(piSession[a])]
  <2>. DEFINE s == P!NotAcquired(piSession[a])
  <2>0. /\ init' = 0 /\ policy' = "off" /\ manager' = "off" /\ UNCHANGED promises
    BY <1>7 DEF P!EnsureFails
  <2>1. s \in P!SessionType /\ s.command.step = "none" /\ ~ s.acquired /\ s.turn = "none"
    <3>1. s \in P!SessionType
      BY <1>4, SessionIsTyped
    <3>2. CASE piSession[a].fresh
      <4>1. s = P!NoSession
        BY <3>2 DEF P!NotAcquired
      <4>. QED
        BY <3>1, <4>1 DEF P!NoSession, P!NoCommand
    <3>3. CASE ~ piSession[a].fresh
      <4>1. s = [piSession[a] EXCEPT !.acquired = FALSE, !.turn = "none", !.awaits = 0]
        BY <3>3 DEF P!NotAcquired
      <4>. QED
        BY <1>4, <3>1, <4>1 DEF P!SessionType
    <3>. QED
      BY <3>2, <3>3
  <2>. HIDE DEF s
  <2>2. /\ piSession' \in [Agents -> P!SessionType] /\ piSession'[a] = s
        /\ \A b \in Agents \ {a} : piSession'[b] = piSession[b]
        /\ P!HoldersHold' /\ P!AcquisitionsAreQueued'
    BY <1>4, <1>5, <1>7, <2>1 DEF s
  <2>3. count' \in Nat
    BY <1>4, <1>7 DEF P!Counted
  <2>4. P!TypeOK'
    BY <1>1, <1>2, <2>0, <2>2, <2>3 DEF P!TypeOK
  <2>5. P!CountIsExact'
    <3>. SUFFICES ASSUME ~ shutdown PROVE count' = Cardinality(Holders(piSession'))
      BY CountIsOfHolders
    <3>1. /\ Cardinality(Holders(piSession')) = Cardinality(Holders(piSession)) - 1
          /\ Cardinality(Holders(piSession)) \in Nat \ {0}
      BY <1>2, <1>4, <2>1, <2>2, HolderGoes
    <3>2. count = Cardinality(Holders(piSession))
      BY CountIsOfHolders DEF P!SandboxInv
    <3>. QED
      BY <1>7, <3>1, <3>2 DEF P!Counted
  <2>6. P!QueueWaits'
    <3>1. \A b \in Agents : piSession'[b].command.step # "running"
      BY <1>3, <2>1, <2>2
    <3>. QED
      BY <1>1, <1>3, <2>0, <3>1 DEF P!QueueWaits
  <2>7. P!ResetsSpareCommands' /\ P!PromisesAreAwaited' /\ P!SandboxIsHeld'
    BY <1>3, <2>0 DEF P!ResetsSpareCommands, P!PromisesAreAwaited, P!SandboxIsHeld
  <2>. QED
    BY <2>2, <2>4, <2>5, <2>6, <2>7 DEF P!SandboxInv
<1>. QED
  BY <1>6, <1>7 DEF P!QueuedAcquire

LEMMA QueuedCommandRuns ==
  ASSUME AgentsAreFinite, P!TypeOK, P!SandboxInv, queue # <<>>, Head(queue).op = "command",
         NEW a, a = Head(queue).of, P!QueuedCommand(a), UNCHANGED <<os, shutdown>>
  PROVE  P!TypeOK' /\ P!SandboxInv'
<1>1. /\ piSession[a].command.step = "queued" /\ UNCHANGED count
      /\ a \in Agents /\ Head(queue) = [op |-> "command", of |-> a]
      /\ queue \in Seq(P!QueueEntries)
  <2>1. queue \in Seq(P!QueueEntries) /\ Head(queue) \in P!QueueEntries
    BY DEF P!TypeOK
  <2>2. \A e \in P!QueueEntries : e.op = "command" =>
           e.of \in Agents /\ e = [op |-> "command", of |-> e.of]
    BY DEF P!QueueEntries
  <2>. QED
    BY <2>1, <2>2 DEF P!QueuedCommand
<1>2. /\ os = "win32" /\ \A b \in Agents : piSession[b].command.step # "running"
      /\ \A i \in DOMAIN releases : releases[i] # "resetting"
  BY <1>1, HeadRunsAlone
<1>3. /\ piSession \in [Agents -> P!SessionType] /\ piSession[a] \in P!SessionType
      /\ ~ shutdown => piSession[a].acquired /\ count # 0
  <2>1. ~ shutdown => piSession[a].acquired
    BY <1>1 DEF P!SandboxInv, P!HoldersHold
  <2>. QED
    BY <1>1, <2>1, NobodyHoldsNothingRuns DEF P!SandboxInv, P!TypeOK
<1>4. ASSUME NEW s \in P!SessionType, piSession' = [piSession EXCEPT ![a] = s],
             s.turn = piSession[a].turn, s.mode = piSession[a].mode, s.known = piSession[a].known,
             s.acquired = piSession[a].acquired
      PROVE  /\ piSession' \in [Agents -> P!SessionType] /\ piSession'[a] = s
             /\ \A b \in Agents \ {a} : piSession'[b] = piSession[b]
             /\ P!HoldersHold' /\ P!CountIsExact'
  <2>1. /\ piSession' \in [Agents -> P!SessionType] /\ piSession'[a] = s
        /\ \A b \in Agents \ {a} : piSession'[b] = piSession[b]
    BY <1>1, <1>3, <1>4
  <2>2. P!HoldersHold'
    BY <1>1, <1>4, <2>1 DEF P!SandboxInv, P!HoldersHold
  <2>3. Holders(piSession') = Holders(piSession)
    BY <1>4, <2>1, HoldersStay
  <2>4. P!CountIsExact'
    BY <1>1, <2>3, CountIsOfHolders DEF P!SandboxInv
  <2>. QED
    BY <2>1, <2>2, <2>4
<1>5. \A k \in DOMAIN queue : queue[k].op = "acquire" => queue[k].of \in Agents \ {a}
  BY <1>1 DEF P!SandboxInv, P!AcquisitionsAreQueued, P!HoldersHold, P!QueueEntries
<1>6. CASE /\ P!EnsureWindows(piSession[a].command.cwd) /\ UNCHANGED <<queue, releases>>
           /\ piSession' = [piSession EXCEPT ![a].command.step = "running"]
  <2>. DEFINE s == [piSession[a] EXCEPT !.command.step = "running"]
  <2>1. /\ s \in P!SessionType /\ s.turn = piSession[a].turn /\ s.mode = piSession[a].mode
        /\ s.known = piSession[a].known /\ s.acquired = piSession[a].acquired
        /\ s.command.step = "running" /\ s.command.cwd = piSession[a].command.cwd
    <3>1. s \in P!SessionType
      BY <1>3, SessionIsTyped
    <3>. QED
      BY <1>3, <3>1 DEF P!SessionType, P!Commands
  <2>2. piSession' = [piSession EXCEPT ![a] = s]
    BY <1>3, <1>6
  <2>. HIDE DEF s
  <2>3. /\ piSession' \in [Agents -> P!SessionType] /\ piSession'[a] = s
        /\ \A b \in Agents \ {a} : piSession'[b] = piSession[b]
        /\ P!HoldersHold' /\ P!CountIsExact'
    BY <1>4, <2>1, <2>2
  <2>4. /\ promises' \in Seq(Promises) /\ init' \in {0} \union DOMAIN promises'
        /\ manager' = policy' /\ manager' = piSession[a].command.cwd
    BY <1>2, <1>6, PolicyIsSet DEF P!SandboxInv
  <2>5. P!TypeOK'
    BY <1>1, <1>6, <2>3, <2>4 DEF P!TypeOK, Promises
  <2>6. P!AcquisitionsAreQueued'
    BY <1>5, <1>6, <2>3 DEF P!SandboxInv, P!AcquisitionsAreQueued
  <2>7. P!QueueWaits'
    BY <1>1, <1>2, <1>6, <2>1, <2>3, <2>4 DEF P!QueueWaits
  <2>8. P!ResetsSpareCommands' /\ P!PromisesAreAwaited' /\ P!SandboxIsHeld'
    BY <1>1, <1>2, <1>3 DEF P!ResetsSpareCommands, P!PromisesAreAwaited, P!SandboxIsHeld
  <2>. QED
    BY <2>3, <2>5, <2>6, <2>7, <2>8 DEF P!SandboxInv
<1>7. CASE /\ P!EnsureFails(piSession[a].command.cwd) /\ queue' = Tail(queue) /\ P!CommandsEnd({a})
           /\ piSession' = [piSession EXCEPT ![a].command = P!NoCommand]
  <2>. DEFINE s == [piSession[a] EXCEPT !.command = P!NoCommand]
  <2>1. /\ s \in P!SessionType /\ s.turn = piSession[a].turn /\ s.mode = piSession[a].mode
        /\ s.known = piSession[a].known /\ s.acquired = piSession[a].acquired
        /\ s.command.step = "none"
    <3>1. s \in P!SessionType
      BY <1>3, SessionIsTyped, NoSessionIsTyped
    <3>. QED
      BY <1>3, <3>1 DEF P!SessionType, P!NoCommand
  <2>2. piSession' = [piSession EXCEPT ![a] = s]
    BY <1>3, <1>7
  <2>. HIDE DEF s
  <2>3. /\ piSession' \in [Agents -> P!SessionType] /\ piSession'[a] = s
        /\ \A b \in Agents \ {a} : piSession'[b] = piSession[b]
        /\ P!HoldersHold' /\ P!CountIsExact'
    BY <1>4, <2>1, <2>2
  <2>4. /\ init' = 0 /\ policy' = "off" /\ manager' = "off" /\ UNCHANGED promises
    BY <1>7 DEF P!EnsureFails
  <2>5. /\ queue' \in Seq(P!QueueEntries)
        /\ \A k \in DOMAIN queue' : queue'[k].op = "acquire" =>
             /\ queue'[k].of \in Agents /\ piSession[queue'[k].of].turn = "acquire"
             /\ \A l \in DOMAIN queue' : queue'[l] = queue'[k] => l = k
    BY <1>7, QueueMovesUp DEF P!SandboxInv
  <2>6. /\ releases' \in Seq(ReleaseSteps) /\ DOMAIN releases' = DOMAIN releases
        /\ \A i \in DOMAIN releases' : releases'[i] # "resetting"
    BY <1>2, <1>7, WakingKeepsReleases
  <2>7. P!TypeOK'
    BY <1>1, <2>3, <2>4, <2>5, <2>6 DEF P!TypeOK, ReleaseSteps
  <2>8. P!AcquisitionsAreQueued'
    BY <2>1, <2>3, <2>5 DEF P!AcquisitionsAreQueued
  <2>9. P!QueueWaits'
    <3>1. \A b \in Agents : piSession'[b].command.step # "running"
      BY <1>2, <2>1, <2>3
    <3>. QED
      BY <1>2, <2>4, <2>6, <3>1 DEF P!QueueWaits
  <2>10. P!ResetsSpareCommands' /\ P!PromisesAreAwaited' /\ P!SandboxIsHeld'
    BY <1>2, <2>4 DEF P!ResetsSpareCommands, P!PromisesAreAwaited, P!SandboxIsHeld
  <2>. QED
    BY <2>3, <2>7, <2>8, <2>9, <2>10 DEF P!SandboxInv
<1>. QED
  BY <1>6, <1>7 DEF P!QueuedCommand

LEMMA QueuedResetRuns ==
  ASSUME P!TypeOK, P!SandboxInv, queue # <<>>, Head(queue).op = "reset",
         NEW i, P!QueuedReset(i), UNCHANGED <<os, shutdown>>
  PROVE  P!TypeOK' /\ P!SandboxInv'
<1>1. /\ init' = 0 /\ policy' = "off" /\ manager' = "off" /\ queue' = Tail(queue)
      /\ releases' = [releases EXCEPT ![i] = "done"] /\ UNCHANGED <<piSession, count, promises>>
  BY DEF P!QueuedReset
<1>2. /\ os = "win32" /\ \A b \in Agents : piSession[b].command.step # "running"
      /\ \A j \in DOMAIN releases : releases[j] # "resetting"
  BY HeadRunsAlone
<1>3. /\ queue' \in Seq(P!QueueEntries)
      /\ \A k \in DOMAIN queue' : queue'[k].op = "acquire" =>
           /\ queue'[k].of \in Agents /\ piSession[queue'[k].of].turn = "acquire"
           /\ \A l \in DOMAIN queue' : queue'[l] = queue'[k] => l = k
  BY <1>1, QueueMovesUp DEF P!SandboxInv
<1>4. /\ releases' \in Seq(ReleaseSteps) /\ DOMAIN releases' = DOMAIN releases
      /\ \A j \in DOMAIN releases' : releases'[j] # "resetting"
  <2>1. releases \in Seq(ReleaseSteps) /\ "done" \in ReleaseSteps
    BY DEF P!TypeOK, ReleaseSteps
  <2>2. CASE i \in DOMAIN releases
    BY <1>1, <1>2, <2>1, <2>2, ReplacedKeepsType
  <2>3. CASE i \notin DOMAIN releases
    <3>1. releases' = releases
      BY <1>1, <2>1, <2>3
    <3>. QED
      BY <1>2, <2>1, <3>1
  <2>. QED
    BY <2>2, <2>3
<1>5. P!TypeOK'
  BY <1>1, <1>3, <1>4 DEF P!TypeOK, ReleaseSteps
<1>6. P!HoldersHold' /\ P!CountIsExact'
  BY <1>1 DEF P!SandboxInv, P!HoldersHold, P!CountIsExact
<1>7. P!AcquisitionsAreQueued'
  BY <1>1, <1>3 DEF P!AcquisitionsAreQueued
<1>8. P!QueueWaits' /\ P!ResetsSpareCommands' /\ P!PromisesAreAwaited' /\ P!SandboxIsHeld'
  BY <1>1, <1>2, <1>4
     DEF P!QueueWaits, P!ResetsSpareCommands, P!PromisesAreAwaited, P!SandboxIsHeld
<1>. QED
  BY <1>5, <1>6, <1>7, <1>8 DEF P!SandboxInv

LEMMA QueueIsServed ==
  ASSUME AgentsAreFinite, P!TypeOK, P!SandboxInv, P!QueueMoves
  PROVE  P!TypeOK' /\ P!SandboxInv'
<1>1. queue # <<>> /\ UNCHANGED <<os, shutdown>>
  BY DEF P!QueueMoves
<1>2. CASE Head(queue).op = "acquire" /\ P!QueuedAcquire(Head(queue).of)
  BY <1>1, <1>2, QueuedAcquireRuns
<1>3. CASE Head(queue).op = "command" /\ P!QueuedCommand(Head(queue).of)
  BY <1>1, <1>3, QueuedCommandRuns
<1>4. CASE Head(queue).op = "reset" /\ P!QueuedReset(Head(queue).of)
  BY <1>1, <1>4, QueuedResetRuns
<1>. QED
  BY <1>2, <1>3, <1>4 DEF P!QueueMoves

LEMMA SandboxStutters ==
  ASSUME P!TypeOK, P!SandboxInv, UNCHANGED P!vars
  PROVE  P!TypeOK' /\ P!SandboxInv'
<1>1. P!TypeOK'
  BY DEF P!vars, P!TypeOK
<1>. QED
  BY <1>1 DEF P!vars, P!SandboxInv, P!HoldersHold, P!CountIsExact, P!AcquisitionsAreQueued,
     P!QueueWaits, P!ResetsSpareCommands, P!PromisesAreAwaited, P!SandboxIsHeld, P!Ready, P!Resetting

LEMMA SandboxStep ==
  ASSUME AgentsAreFinite, P!TypeOK, P!SandboxInv, [P!Next]_(P!vars)
  PROVE  P!TypeOK' /\ P!SandboxInv'
<1>1. CASE UNCHANGED P!vars
  BY <1>1, SandboxStutters
<1>2. CASE P!QueueMoves
  BY <1>2, QueueIsServed
<1>3. CASE P!Shutdown
  BY <1>3, SandboxShutsDown
<1>4. ASSUME NEW a \in Agents, NEW mode \in {"allowed", "full_access"}, P!BeginTurn(a, mode)
      PROVE  P!TypeOK' /\ P!SandboxInv'
  BY <1>4, TurnBeginsInSandbox
<1>5. ASSUME NEW a \in Agents, NEW cwd \in Dirs, P!BeginCommand(a, cwd)
      PROVE  P!TypeOK' /\ P!SandboxInv'
  BY <1>5, CommandBegins
<1>6. ASSUME NEW a \in Agents, P!EndTurn(a) \/ P!EndCommand(a) \/ P!Close(a)
      PROVE  P!TypeOK' /\ P!SandboxInv'
  BY <1>6, TurnEndsInSandbox, CommandEnds, SessionCloses
<1>7. ASSUME NEW p \in DOMAIN promises, P!Initialized(p)
      PROVE  P!TypeOK' /\ P!SandboxInv'
  BY <1>7, InitializationEnds
<1>8. ASSUME NEW i \in DOMAIN releases, P!Resume(i) \/ P!ResetEnds(i)
      PROVE  P!TypeOK' /\ P!SandboxInv'
  BY <1>8, ReleaseResumes, ResetIsDone
<1>. QED
  BY <1>1, <1>2, <1>3, <1>4, <1>5, <1>6, <1>7, <1>8 DEF P!Next

\* The inductive invariant of the sandbox: holders are counted, the queue is in
\* order, and what is on has somebody who will give it back.
THEOREM SandboxIsSound == ASSUME AgentsAreFinite PROVE P!Spec => [](P!TypeOK /\ P!SandboxInv)
<1>1. P!Init => P!TypeOK /\ P!SandboxInv
  BY PiStarts
<1>2. P!TypeOK /\ P!SandboxInv /\ [P!Next]_(P!vars) => P!TypeOK' /\ P!SandboxInv'
  BY SandboxStep
<1>. QED
  BY <1>1, <1>2, PTL DEF P!Spec

\* The sandbox that the sessions of Pi share is on while one of them needs it,
\* and off when none does (local-agent-pi-sandbox.ts).
THEOREM SandboxServesItsHolders == ASSUME AgentsAreFinite PROVE P!Spec => []P!SandboxIsShared
<1>1. ASSUME P!TypeOK, P!SandboxInv PROVE P!SandboxIsShared
  <2>1. P!CommandsAreContained
    BY <1>1 DEF P!TypeOK, P!SandboxInv, P!QueueWaits, P!ResetsSpareCommands, P!CommandsAreContained
  <2>2. P!SandboxIsGivenBack
    <3>. SUFFICES ASSUME ~ shutdown, \A a \in Agents : ~ piSession[a].acquired,
                         \A i \in DOMAIN releases : releases[i] = "done"
                  PROVE  init = 0 /\ (manager = "off" \/ \E p \in DOMAIN promises : promises[p] = "failed")
      BY DEF P!SandboxIsGivenBack
    <3>1. Holders(piSession) = {}
      BY DEF Holders
    <3>2. count = 0
      BY <1>1, <3>1, CountIsOfHolders, FS_EmptySet DEF P!SandboxInv
    <3>. QED
      BY <1>1, <3>2 DEF P!SandboxInv, P!SandboxIsHeld
  <2>. QED
    BY <1>1, <2>1, <2>2 DEF P!SandboxIsShared, P!SandboxInv
<1>. QED
  BY <1>1, SandboxIsSound, PTL

-------------------------------------------------------------------------------
(***************************************************************************)
(* Providers: the part that moves behaves as its own specification says.   *)
(***************************************************************************)
\* Servers, sessions and prompts of OpenCode are those of their agents, in Providers as in OpencodeTurns alone.
THEOREM OpencodeOfProvidersServes == ProvidersSpec => []OpencodeKeepsItsOwn
<1>1. ProvidersInit /\ part = "opencode" => O!Init
  BY DEF ProvidersInit
<1>2. [ProvidersNext]_providersVars => ((part = "opencode")' <=> part = "opencode") /\ (part = "opencode" => [O!Next]_(O!vars))
  <2>. SUFFICES ASSUME [ProvidersNext]_providersVars PROVE part' = part /\ (part = "opencode" => [O!Next]_(O!vars))
    OBVIOUS
  <2>1. part' = part /\ ((part = "opencode" /\ O!Next) \/ part # "opencode" \/ UNCHANGED opencode)
    BY DEF ProvidersNext, providersVars
  <2>2. UNCHANGED opencode => UNCHANGED O!vars
    BY DEF opencode, O!vars
  <2>. QED
    BY <2>1, <2>2
<1>. QED
  BY <1>1, <1>2, OpencodeServesItsOwn, PTL DEF ProvidersSpec, OpencodeKeepsItsOwn, O!Spec

\* A turn of Claude in Providers ends with the result of its own prompt.
THEOREM ClaudeOfProvidersAnswers == ProvidersSpec => []TurnsAreTheirOwn
<1>1. ProvidersInit /\ part = "claude" => C!Init
  BY DEF ProvidersInit
<1>2. [ProvidersNext]_providersVars => ((part = "claude")' <=> part = "claude") /\ (part = "claude" => [C!Next]_(C!vars))
  <2>. SUFFICES ASSUME [ProvidersNext]_providersVars PROVE part' = part /\ (part = "claude" => [C!Next]_(C!vars))
    OBVIOUS
  <2>1. part' = part /\ ((part = "claude" /\ C!Next) \/ part # "claude" \/ UNCHANGED claude)
    BY DEF ProvidersNext, providersVars
  <2>2. UNCHANGED claude => UNCHANGED C!vars
    BY DEF claude, C!vars
  <2>. QED
    BY <2>1, <2>2
<1>. QED
  BY <1>1, <1>2, ClaudeTurnsAreTheirOwn, PTL DEF ProvidersSpec, TurnsAreTheirOwn, C!Spec

\* A command of Pi in Providers runs in a sandbox that has its policy.
THEOREM PiOfProvidersIsContained == ASSUME AgentsAreFinite PROVE ProvidersSpec => []SandboxIsShared
<1>1. ProvidersInit /\ part = "pi" => P!Init
  BY DEF ProvidersInit
<1>2. [ProvidersNext]_providersVars => ((part = "pi")' <=> part = "pi") /\ (part = "pi" => [P!Next]_(P!vars))
  <2>. SUFFICES ASSUME [ProvidersNext]_providersVars PROVE part' = part /\ (part = "pi" => [P!Next]_(P!vars))
    OBVIOUS
  <2>1. part' = part /\ ((part = "pi" /\ P!Next) \/ part # "pi" \/ UNCHANGED pi)
    BY DEF ProvidersNext, providersVars
  <2>2. UNCHANGED pi => UNCHANGED P!vars
    BY DEF pi, P!vars
  <2>. QED
    BY <2>1, <2>2
<1>. QED
  BY <1>1, <1>2, SandboxServesItsHolders, PTL DEF ProvidersSpec, SandboxIsShared, P!Spec
===============================================================================
