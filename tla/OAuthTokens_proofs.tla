-------------------------- MODULE OAuthTokens_proofs --------------------------
(***************************************************************************)
(* What the services beside the agents keep, proved for any number of      *)
(* processes: the grants of the authorization server, the schema of the    *)
(* database, the user's configuration, and the files that are downloaded.  *)
(* Each is proved by itself, and then of the sum that Services is.         *)
(*                                                                         *)
(* Grants first, for any number of servers, clients, scopes, resources and *)
(* requests, and without the bounds on codes and pairs playing a part:     *)
(* they may be any values.                                                 *)
(***************************************************************************)
EXTENDS Services, FiniteSetTheorems, TLAPS

\* What the configuration says of lifetimes: numbers of seconds.
TtlsAreNumbers == {CodeTtl, AccessTtl, RefreshTtl} \subseteq Nat

\* What a sequence is after one more element.
LEMMA AppendedIsLast ==
  ASSUME NEW S, NEW s \in Seq(S), NEW e \in S
  PROVE  /\ Append(s, e) \in Seq(S)
         /\ Len(s) + 1 \notin DOMAIN s
         /\ DOMAIN Append(s, e) = (DOMAIN s) \union {Len(s) + 1}
         /\ \A n \in DOMAIN s : Append(s, e)[n] = s[n]
         /\ Append(s, e)[Len(s) + 1] = e
OBVIOUS

LEMMA RecordsAreTyped ==
  ASSUME TtlsAreNumbers, K!TypeOK, NEW kind \in {"code", "refresh"}, NEW n \in Nat,
         NEW origin \in Nat, NEW c \in HostAllowed, NEW scopes \in SUBSET Supported,
         NEW resource \in Resources
  PROVE  K!Record(K!Grant(kind, n), origin, c, scopes, resource) \in K!Pairs
BY DEF TtlsAreNumbers, K!TypeOK, K!Record, K!Grant, K!Pairs

\* A pair is saved last, with both its rows, or not at all.
LEMMA SavedIsTyped ==
  ASSUME K!TypeOK, NEW record \in K!Pairs, NEW consumed, K!SaveTokenPair(record, consumed)
  PROVE  /\ pairs' \in Seq(K!Pairs)
         /\ access' \subseteq DOMAIN pairs' /\ refresh' \subseteq DOMAIN pairs'
         /\ DOMAIN pairs \subseteq DOMAIN pairs'
         /\ \A n \in DOMAIN pairs : pairs'[n] = pairs[n]
<1>1. CASE consumed # {} /\ ~ consumed \subseteq refresh
  BY <1>1 DEF K!SaveTokenPair, K!TypeOK
<1>2. CASE ~(consumed # {} /\ ~ consumed \subseteq refresh)
  <2>1. /\ pairs' = Append(pairs, record)
        /\ access' = access \union {Len(pairs) + 1}
        /\ refresh' = (refresh \ consumed) \union {Len(pairs) + 1}
    BY <1>2 DEF K!SaveTokenPair
  <2>2. pairs \in Seq(K!Pairs) /\ access \subseteq DOMAIN pairs /\ refresh \subseteq DOMAIN pairs
    BY DEF K!TypeOK
  <2>3. /\ pairs' \in Seq(K!Pairs) /\ DOMAIN pairs' = (DOMAIN pairs) \union {Len(pairs) + 1}
        /\ \A n \in DOMAIN pairs : pairs'[n] = pairs[n]
    BY <2>1, <2>2, AppendedIsLast
  <2>. QED
    BY <2>1, <2>2, <2>3
<1>. QED
  BY <1>1, <1>2

\* What a code allows: its scopes are of the configuration, its resource one of those served.
LEMMA CodesAreTyped ==
  ASSUME K!TypeOK, NEW k \in DOMAIN approved
  PROVE  /\ approved[k].resource \in Resources /\ approved[k].client \in HostAllowed
         /\ (IF approved[k].scope = Unsaid THEN Supported ELSE approved[k].scope)
               \in SUBSET Supported
         /\ k \in Nat
<1>1. approved[k] \in K!Approvals
  BY DEF K!TypeOK
<1>. QED
  BY <1>1 DEF K!Approvals, K!Scopes, K!TypeOK

LEMMA TypeIsInductive == TtlsAreNumbers /\ K!TypeOK /\ K!RequestsAreBounded /\ [K!Next]_(K!vars) => K!TypeOK'
<1>. SUFFICES ASSUME TtlsAreNumbers, K!TypeOK, K!RequestsAreBounded, [K!Next]_(K!vars) PROVE K!TypeOK'
  OBVIOUS
<1>. USE DEF K!TypeOK
<1>1. ASSUME NEW s \in Servers, K!Start(s) PROVE K!TypeOK'
  BY <1>1 DEF K!Start
<1>2. ASSUME NEW s \in Servers, K!Stop(s) PROVE K!TypeOK'
  BY <1>2 DEF K!Stop
<1>3. ASSUME NEW s \in Servers, NEW c \in Clients, K!Register(s, c) PROVE K!TypeOK'
  BY <1>3 DEF K!Register
<1>4. ASSUME NEW s \in Servers, NEW c \in Clients, NEW scopes \in K!Scopes \union {Unsaid},
             NEW r \in Resources, K!ShowForm(s, c, scopes, r)
      PROVE  K!TypeOK'
  <2>1. page' \in K!Pages
    BY <1>4 DEF K!ShowForm, K!MayAsk, K!Pages, K!Scopes
  <2>. QED
    BY <1>4, <2>1 DEF K!ShowForm
<1>5. ASSUME NEW s \in Servers, K!Approve(s) PROVE K!TypeOK'
  <2>. DEFINE a == [shown |-> page, server |-> s, client |-> page.client, scope |-> page.scope,
                    resource |-> page.resource, ends |-> now + CodeTtl]
  <2>1. page \in K!Pages
    BY <1>5 DEF K!Approve
  <2>2. a \in K!Approvals
    BY <2>1 DEF K!Approvals, K!Pages, TtlsAreNumbers
  <2>3. approved' = Append(approved, a)
    BY <1>5 DEF K!Approve
  <2>. HIDE DEF a
  <2>4. approved' \in Seq(K!Approvals) /\ codes' \subseteq DOMAIN approved'
    BY <1>5, <2>2, <2>3, AppendedIsLast DEF K!Approve
  <2>. QED
    BY <1>5, <2>4 DEF K!Approve
<1>6. ASSUME NEW s \in Servers, NEW c \in Clients, NEW q \in TokenRequests, NEW k \in codes,
             K!ChallengeForAuthorizationCode(q, s, c, k)
      PROVE  K!TypeOK'
  <2>1. [step |-> "code", server |-> s, client |-> c, code |-> k] \in K!Exchanges
    BY <1>6 DEF K!ChallengeForAuthorizationCode, K!ValidCodeRecord, K!Exchanges
  <2>. QED
    BY <1>6, <2>1 DEF K!ChallengeForAuthorizationCode
<1>7. ASSUME NEW s \in Servers, NEW c \in Clients, NEW q \in TokenRequests, NEW n \in refresh,
             NEW scopes \in K!Scopes \union {Unsaid}, K!ReadRefreshToken(q, s, c, n, scopes)
      PROVE  K!TypeOK'
  <2>1. n \in DOMAIN pairs /\ pairs[n] \in K!Pairs
    OBVIOUS
  <2>2. (IF scopes = Unsaid THEN pairs[n].scopes ELSE scopes) \in SUBSET Supported
    BY <1>7, <2>1 DEF K!ReadRefreshToken, K!Pairs
  <2>3. [step |-> "refresh", server |-> s, client |-> c, from |-> n,
         scopes |-> IF scopes = Unsaid THEN pairs[n].scopes ELSE scopes] \in K!Refreshes
    BY <1>7, <2>1, <2>2 DEF K!ReadRefreshToken, K!Refreshes
  <2>. QED
    BY <1>7, <2>3 DEF K!ReadRefreshToken
<1>8. ASSUME NEW s \in Servers, NEW n \in DOMAIN pairs, NEW kind \in {"access", "refresh"},
             K!Revoke(s, n, kind)
      PROVE  K!TypeOK'
  BY <1>8 DEF K!Revoke
<1>9. ASSUME NEW q \in TokenRequests, K!ExchangeAuthorizationCode(q) PROVE K!TypeOK'
  <2>. DEFINE r == tokenRequest[q]
  <2>1. CASE K!ValidCodeRecord(r.server, r.client, r.code)
    <3>1. r.code \in DOMAIN approved /\ approved[r.code].client = r.client
      BY <2>1 DEF K!ValidCodeRecord
    <3>2. K!Record(K!Grant("code", r.code), r.code, r.client,
                 IF approved[r.code].scope = Unsaid THEN Supported ELSE approved[r.code].scope,
                 approved[r.code].resource) \in K!Pairs
      BY <3>1, CodesAreTyped, RecordsAreTyped
    <3>3. /\ pairs' \in Seq(K!Pairs)
          /\ access' \subseteq DOMAIN pairs' /\ refresh' \subseteq DOMAIN pairs'
          /\ DOMAIN pairs \subseteq DOMAIN pairs'
      BY <1>9, <2>1, <3>2, SavedIsTyped DEF K!ExchangeAuthorizationCode
    <3>. QED
      BY <1>9, <2>1, <3>3 DEF K!ExchangeAuthorizationCode
  <2>2. CASE ~K!ValidCodeRecord(r.server, r.client, r.code)
    BY <1>9, <2>2 DEF K!ExchangeAuthorizationCode
  <2>. QED
    BY <2>1, <2>2
<1>10. ASSUME NEW q \in TokenRequests, K!ExchangeRefreshToken(q) PROVE K!TypeOK'
  <2>. DEFINE r == tokenRequest[q]
  <2>1. r \in K!Refreshes
    BY <1>10 DEF K!ExchangeRefreshToken, K!Exchanges, K!NoRequest
  <2>2. r.from \in DOMAIN pairs /\ pairs[r.from] \in K!Pairs
    BY <1>10 DEF K!ExchangeRefreshToken, K!RequestsAreBounded
  <2>3. K!Record(K!Grant("refresh", r.from), pairs[r.from].origin, r.client, r.scopes,
               pairs[r.from].resource) \in K!Pairs
    BY <2>1, <2>2, RecordsAreTyped DEF K!Refreshes, K!Pairs
  <2>4. /\ pairs' \in Seq(K!Pairs)
        /\ access' \subseteq DOMAIN pairs' /\ refresh' \subseteq DOMAIN pairs'
        /\ DOMAIN pairs \subseteq DOMAIN pairs'
    BY <1>10, <2>3, SavedIsTyped DEF K!ExchangeRefreshToken
  <2>. QED
    BY <1>10, <2>4 DEF K!ExchangeRefreshToken
<1>11. ASSUME K!Tick PROVE K!TypeOK'
  BY <1>11 DEF K!Tick
<1>12. ASSUME UNCHANGED K!vars PROVE K!TypeOK'
  BY <1>12 DEF K!vars
<1>. QED
  BY <1>1, <1>2, <1>3, <1>4, <1>5, <1>6, <1>7, <1>8, <1>9, <1>10, <1>11, <1>12 DEF K!Next

-------------------------------------------------------------------------------
\* Codes that are approved and pairs that are issued come after those there are.
LEMMA HistoriesGrow ==
  ASSUME K!TypeOK, [K!Next]_(K!vars)
  PROVE  /\ DOMAIN approved \subseteq DOMAIN approved'
         /\ \A k \in DOMAIN approved : approved'[k] = approved[k]
<1>1. CASE approved' = approved
  BY <1>1
<1>2. ASSUME NEW s \in Servers, K!Approve(s)
      PROVE  /\ DOMAIN approved \subseteq DOMAIN approved'
             /\ \A k \in DOMAIN approved : approved'[k] = approved[k]
  BY <1>2 DEF K!Approve, K!TypeOK
<1>3. ASSUME NEW s \in Servers,
             \/ K!Start(s) \/ K!Stop(s)
             \/ \E n \in DOMAIN pairs, kind \in {"access", "refresh"} : K!Revoke(s, n, kind)
      PROVE  approved' = approved
  BY <1>3 DEF K!Start, K!Stop, K!Revoke
<1>4. ASSUME NEW s \in Servers, NEW c \in Clients,
             \/ K!Register(s, c)
             \/ \E scopes \in K!Scopes \union {Unsaid}, r \in Resources : K!ShowForm(s, c, scopes, r)
             \/ \E q \in TokenRequests, k \in codes : K!ChallengeForAuthorizationCode(q, s, c, k)
             \/ \E q \in TokenRequests, n \in refresh, scopes \in K!Scopes \union {Unsaid} :
                   K!ReadRefreshToken(q, s, c, n, scopes)
      PROVE  approved' = approved
  BY <1>4 DEF K!Register, K!ShowForm, K!ChallengeForAuthorizationCode, K!ReadRefreshToken
<1>5. ASSUME NEW q \in TokenRequests, K!ExchangeAuthorizationCode(q) \/ K!ExchangeRefreshToken(q)
      PROVE  approved' = approved
  BY <1>5 DEF K!ExchangeAuthorizationCode, K!ExchangeRefreshToken
<1>6. ASSUME K!Tick \/ UNCHANGED K!vars PROVE approved' = approved
  BY <1>6 DEF K!Tick, K!vars
<1>. QED
  BY <1>1, <1>2, <1>3, <1>4, <1>5, <1>6 DEF K!Next

\* What the page of a pair's approval allows.
Fits(p) ==
    /\ p.origin \in DOMAIN approved
    /\ p.client = approved[p.origin].shown.client /\ p.client \in HostAllowed
    /\ p.resource = approved[p.origin].shown.resource
    /\ p.scopes \subseteq approved[p.origin].shown.says

\* A step issues a pair that fits, for a code or a refresh token that is there
\* until then, or it issues none and makes nothing good that was not.
Issues(p) ==
    /\ p \in K!Pairs /\ Fits(p) /\ pairs' = Append(pairs, p)
    /\ UNCHANGED <<approved, revoked>>
    /\ \/ /\ p.from.kind = "code" /\ p.from.of \in codes
          /\ codes' = codes \ {p.from.of} /\ refresh' = refresh \union {Len(pairs) + 1}
       \/ /\ p.from.kind = "refresh" /\ p.from.of \in refresh
          /\ codes' = codes /\ refresh' = (refresh \ {p.from.of}) \union {Len(pairs) + 1}

IssuesNone ==
    /\ pairs' = pairs /\ refresh' \subseteq refresh
    /\ codes' \intersect DOMAIN approved \subseteq codes
    /\ \A n : <<n, "refresh">> \in revoked' =>
             <<n, "refresh">> \in revoked \/ n \in refresh \ refresh'

LEMMA CodeIssuesSo ==
  ASSUME TtlsAreNumbers, K!TypeOK, K!GrantInv, NEW q \in TokenRequests, K!ExchangeAuthorizationCode(q)
  PROVE  IssuesNone \/ \E p : Issues(p)
<1>. DEFINE r == tokenRequest[q]
            k == r.code
            p == K!Record(K!Grant("code", k), k, r.client,
                        IF approved[k].scope = Unsaid THEN Supported ELSE approved[k].scope,
                        approved[k].resource)
<1>1. CASE ~K!ValidCodeRecord(r.server, r.client, k)
  BY <1>1 DEF K!ExchangeAuthorizationCode, IssuesNone
<1>2. CASE K!ValidCodeRecord(r.server, r.client, k)
  <2>1. k \in codes /\ k \in DOMAIN approved /\ approved[k].client = r.client
    BY <1>2 DEF K!ValidCodeRecord, K!TypeOK
  <2>2. p \in K!Pairs
    BY <2>1, CodesAreTyped, RecordsAreTyped
  <2>3. Fits(p)
    <3>1. /\ approved[k].client = approved[k].shown.client
          /\ approved[k].scope = approved[k].shown.scope
          /\ approved[k].resource = approved[k].shown.resource
          /\ approved[k].shown.says = IF approved[k].shown.scope = Unsaid
                                      THEN Supported ELSE approved[k].shown.scope
      BY <2>1 DEF K!GrantInv, K!ApprovalsAreOfPages, K!PageIsHonest
    <3>2. approved[k].client \in HostAllowed
      BY <2>1, CodesAreTyped
    <3>. QED
      BY <2>1, <3>1, <3>2 DEF Fits, K!Record
  <2>4. p.from.kind = "code" /\ p.from.of = k
    BY DEF K!Record, K!Grant
  <2>5. /\ K!SaveTokenPair(p, {}) /\ codes' = codes \ {k} /\ UNCHANGED <<approved, revoked>>
    BY <1>2 DEF K!ExchangeAuthorizationCode
  <2>. HIDE DEF p
  <2>6. /\ pairs' = Append(pairs, p) /\ refresh' = refresh \union {Len(pairs) + 1}
    BY <2>5 DEF K!SaveTokenPair, K!TypeOK
  <2>. QED
    BY <2>1, <2>2, <2>3, <2>4, <2>5, <2>6 DEF Issues
<1>. QED
  BY <1>1, <1>2

LEMMA RefreshIssuesSo ==
  ASSUME TtlsAreNumbers, K!TypeOK, K!GrantInv, NEW q \in TokenRequests, K!ExchangeRefreshToken(q)
  PROVE  IssuesNone \/ \E p : Issues(p)
<1>. DEFINE r == tokenRequest[q]
            n == r.from
            p == K!Record(K!Grant("refresh", n), pairs[n].origin, r.client, r.scopes,
                        pairs[n].resource)
<1>1. r.step = "refresh" /\ r \in K!Refreshes
  BY DEF K!ExchangeRefreshToken, K!TypeOK, K!Exchanges, K!NoRequest
<1>2. /\ n \in DOMAIN pairs /\ pairs[n].client = r.client
      /\ r.scopes \subseteq pairs[n].scopes
  BY <1>1 DEF K!GrantInv, K!RequestsAreBounded
<1>3. pairs[n] \in K!Pairs /\ n \in Nat
  BY <1>2 DEF K!TypeOK
<1>4. p \in K!Pairs
  BY <1>1, <1>3, RecordsAreTyped DEF K!Refreshes, K!Pairs
<1>5. Fits(pairs[n])
  BY <1>2 DEF K!GrantInv, K!PairsDescend, K!TokensAreGranted, K!NothingBeyondApproval, Fits
<1>6. Fits(p)
  BY <1>2, <1>5 DEF Fits, K!Record
<1>7. p.from.kind = "refresh" /\ p.from.of = n
  BY DEF K!Record, K!Grant
<1>8. K!SaveTokenPair(p, {n}) /\ UNCHANGED <<codes, approved, revoked>>
  BY DEF K!ExchangeRefreshToken
<1>. HIDE DEF p, n, r
<1>9. CASE n \notin refresh
  BY <1>8, <1>9 DEF K!SaveTokenPair, IssuesNone
<1>10. CASE n \in refresh
  <2>1. /\ pairs' = Append(pairs, p)
        /\ refresh' = (refresh \ {n}) \union {Len(pairs) + 1}
    BY <1>8, <1>10 DEF K!SaveTokenPair
  <2>. QED
    BY <1>4, <1>6, <1>7, <1>8, <1>10, <2>1 DEF Issues
<1>. QED
  BY <1>9, <1>10

LEMMA StepsIssueSo ==
  ASSUME TtlsAreNumbers, K!TypeOK, K!GrantInv, [K!Next]_(K!vars)
  PROVE  IssuesNone \/ \E p : Issues(p)
<1>1. ASSUME NEW s \in Servers, K!Start(s) \/ K!Stop(s) PROVE IssuesNone
  BY <1>1 DEF K!Start, K!Stop, IssuesNone
<1>2. ASSUME NEW s \in Servers, K!Approve(s) PROVE IssuesNone
  <2>1. Len(approved) + 1 \notin DOMAIN approved
    BY DEF K!TypeOK
  <2>. QED
    BY <1>2, <2>1 DEF K!Approve, IssuesNone
<1>3. ASSUME NEW s \in Servers, NEW c \in Clients,
             \/ K!Register(s, c)
             \/ \E scopes \in K!Scopes \union {Unsaid}, r \in Resources : K!ShowForm(s, c, scopes, r)
             \/ \E q \in TokenRequests, k \in codes : K!ChallengeForAuthorizationCode(q, s, c, k)
             \/ \E q \in TokenRequests, n \in refresh, scopes \in K!Scopes \union {Unsaid} :
                   K!ReadRefreshToken(q, s, c, n, scopes)
      PROVE  IssuesNone
  BY <1>3 DEF K!Register, K!ShowForm, K!ChallengeForAuthorizationCode, K!ReadRefreshToken, IssuesNone
<1>4. ASSUME NEW s \in Servers, NEW n \in DOMAIN pairs, NEW kind \in {"access", "refresh"},
             K!Revoke(s, n, kind)
      PROVE  IssuesNone
  BY <1>4 DEF K!Revoke, IssuesNone
<1>5. ASSUME K!Tick \/ UNCHANGED K!vars PROVE IssuesNone
  BY <1>5 DEF K!Tick, K!vars, IssuesNone
<1>. QED
  BY <1>1, <1>2, <1>3, <1>4, <1>5, CodeIssuesSo, RefreshIssuesSo DEF K!Next

-------------------------------------------------------------------------------
\* What is good stays unspent and unrevoked, and what a pair was issued for does not.
LEMMA GrantsStaySpent ==
  ASSUME TtlsAreNumbers, K!TypeOK, K!GrantInv, [K!Next]_(K!vars)
  PROVE  K!UnusedIsUnspent' /\ K!RevokedIsGone' /\ K!GrantsAreSpentOnce'
<1>. USE DEF K!GrantInv, K!TokensAreGranted
<1>1. /\ DOMAIN approved \subseteq DOMAIN approved'
      /\ codes \subseteq DOMAIN approved /\ refresh \subseteq DOMAIN pairs
      /\ pairs \in Seq(K!Pairs)
  BY HistoriesGrow DEF K!TypeOK
<1>2. CASE IssuesNone
  <2>1. K!UnusedIsUnspent'
    BY <1>1, <1>2 DEF IssuesNone, K!UnusedIsUnspent
  <2>2. K!RevokedIsGone'
    BY <1>2 DEF IssuesNone, K!RevokedIsGone
  <2>3. ASSUME NEW i \in DOMAIN pairs, NEW j \in DOMAIN pairs,
               pairs[j].from = K!Grant("refresh", i)
        PROVE  <<i, "refresh">> \notin revoked'
    <3>1. i \notin refresh
      BY <2>3 DEF K!UnusedIsUnspent, K!Grant
    <3>. QED
      BY <1>2, <2>3, <3>1 DEF IssuesNone, K!GrantsAreSpentOnce
  <2>. QED
    BY <1>2, <2>1, <2>2, <2>3 DEF IssuesNone, K!GrantsAreSpentOnce
<1>3. ASSUME NEW p, Issues(p) PROVE K!UnusedIsUnspent' /\ K!RevokedIsGone' /\ K!GrantsAreSpentOnce'
  <2>. DEFINE new == Len(pairs) + 1
  <2>1. /\ new \notin DOMAIN pairs /\ DOMAIN pairs' = (DOMAIN pairs) \union {new}
        /\ \A n \in DOMAIN pairs : pairs'[n] = pairs[n]
        /\ pairs'[new] = p /\ pairs' \in Seq(K!Pairs)
    BY <1>1, <1>3, AppendedIsLast DEF Issues
  <2>2. p.from \in [kind: {"code", "refresh"}, of: Nat]
    BY <1>3 DEF Issues, K!Pairs
  <2>. HIDE DEF new
  <2>3. refresh' \subseteq refresh \union {new} /\ codes' \subseteq codes /\ revoked' = revoked
    BY <1>3 DEF Issues, new
  <2>4. K!UnusedIsUnspent'
    <3>1. ASSUME NEW n \in DOMAIN pairs
          PROVE  /\ pairs'[n].from.kind = "code" =>
                       pairs'[n].from.of \in DOMAIN approved' \ codes'
                 /\ pairs'[n].from.kind = "refresh" =>
                       pairs'[n].from.of \in DOMAIN pairs' \ refresh'
      BY <1>1, <2>1, <2>3 DEF K!UnusedIsUnspent
    <3>2. /\ p.from.kind = "code" => p.from.of \in DOMAIN approved' \ codes'
          /\ p.from.kind = "refresh" => p.from.of \in DOMAIN pairs' \ refresh'
      BY <1>1, <1>3, <2>1 DEF Issues, new
    <3>. QED
      BY <2>1, <3>1, <3>2 DEF K!UnusedIsUnspent
  <2>5. \A n \in DOMAIN pairs' : <<n, "refresh">> \in revoked =>
            n \in DOMAIN pairs
    BY DEF K!TypeOK
  <2>6. K!RevokedIsGone'
    BY <2>1, <2>3, <2>5 DEF K!RevokedIsGone
  <2>7. \A n \in DOMAIN pairs : pairs[n].from # p.from
    BY <1>3, <2>2 DEF Issues, K!UnusedIsUnspent
  <2>8. ASSUME NEW i \in DOMAIN pairs', p.from = K!Grant("refresh", i)
        PROVE  <<i, "refresh">> \notin revoked'
    <3>1. i \in refresh
      BY <1>3, <2>8 DEF Issues, K!Grant
    <3>. QED
      BY <1>1, <2>3, <3>1 DEF K!RevokedIsGone
  <2>9. ASSUME NEW i \in DOMAIN pairs', NEW j \in DOMAIN pairs,
               pairs[j].from = K!Grant("refresh", i)
        PROVE  <<i, "refresh">> \notin revoked'
    BY <2>3, <2>5, <2>9 DEF K!GrantsAreSpentOnce
  <2>10. K!GrantsAreSpentOnce'
    BY <2>1, <2>7, <2>8, <2>9 DEF K!GrantsAreSpentOnce
  <2>. QED
    BY <2>4, <2>6, <2>10
<1>. QED
  BY <1>2, <1>3, StepsIssueSo

\* What an approval said stays what it said, and no pair goes beyond it.
LEMMA PairsStayWithin ==
  ASSUME TtlsAreNumbers, K!TypeOK, K!GrantInv, [K!Next]_(K!vars)
  PROVE  K!PairsDescend' /\ K!NothingBeyondApproval'
<1>1. \A n \in DOMAIN pairs : Fits(pairs[n])
  BY DEF K!GrantInv, K!TokensAreGranted, K!PairsDescend, K!NothingBeyondApproval, Fits
<1>2. ASSUME NEW n \in DOMAIN pairs', Fits(pairs'[n])
      PROVE  /\ pairs'[n].origin \in DOMAIN approved'
             /\ approved'[pairs'[n].origin] = approved[pairs'[n].origin]
  BY <1>2, HistoriesGrow DEF Fits
<1>3. \A n \in DOMAIN pairs' : Fits(pairs'[n])
  <2>1. CASE IssuesNone
    BY <1>1, <2>1 DEF IssuesNone
  <2>2. ASSUME NEW p, Issues(p) PROVE \A n \in DOMAIN pairs' : Fits(pairs'[n])
    <3>1. /\ DOMAIN pairs' = (DOMAIN pairs) \union {Len(pairs) + 1}
          /\ \A n \in DOMAIN pairs : pairs'[n] = pairs[n]
          /\ pairs'[Len(pairs) + 1] = p
      BY <2>2, AppendedIsLast DEF Issues, K!TypeOK
    <3>. QED
      BY <1>1, <2>2, <3>1 DEF Issues
  <2>. QED
    BY <2>1, <2>2, StepsIssueSo
<1>. QED
  BY <1>2, <1>3 DEF K!PairsDescend, K!NothingBeyondApproval, Fits

LEMMA PagesStayHonest ==
  ASSUME K!TypeOK, K!ApprovalsAreOfPages, [K!Next]_(K!vars)
  PROVE  K!ApprovalsAreOfPages'
<1>. USE DEF K!ApprovalsAreOfPages, K!PageIsHonest
<1>1. ASSUME NEW s \in Servers, K!Approve(s) PROVE K!ApprovalsAreOfPages'
  <2>. DEFINE a == [shown |-> page, server |-> s, client |-> page.client, scope |-> page.scope,
                    resource |-> page.resource, ends |-> now + CodeTtl]
  <2>1. /\ K!PageIsHonest(a.shown) /\ a.client = a.shown.client
        /\ a.scope = a.shown.scope /\ a.resource = a.shown.resource
    BY <1>1 DEF K!Approve
  <2>2. approved' = Append(approved, a)
    BY <1>1 DEF K!Approve
  <2>. HIDE DEF a
  <2>3. /\ DOMAIN approved' = (DOMAIN approved) \union {Len(approved) + 1}
        /\ \A k \in DOMAIN approved : approved'[k] = approved[k]
        /\ approved'[Len(approved) + 1] = a
    BY <2>2 DEF K!TypeOK
  <2>. QED
    BY <1>1, <2>1, <2>3 DEF K!Approve
<1>2. ASSUME NEW s \in Servers, NEW c \in Clients,
             \E scopes \in K!Scopes \union {Unsaid}, r \in Resources : K!ShowForm(s, c, scopes, r)
      PROVE  K!ApprovalsAreOfPages'
  BY <1>2 DEF K!ShowForm
<1>3. ASSUME NEW s \in Servers,
             \/ K!Start(s) \/ K!Stop(s)
             \/ \E n \in DOMAIN pairs, kind \in {"access", "refresh"} : K!Revoke(s, n, kind)
      PROVE  K!ApprovalsAreOfPages'
  BY <1>3 DEF K!Start, K!Stop, K!Revoke
<1>4. ASSUME NEW s \in Servers, NEW c \in Clients,
             \/ K!Register(s, c)
             \/ \E q \in TokenRequests, k \in codes : K!ChallengeForAuthorizationCode(q, s, c, k)
             \/ \E q \in TokenRequests, n \in refresh, scopes \in K!Scopes \union {Unsaid} :
                   K!ReadRefreshToken(q, s, c, n, scopes)
      PROVE  K!ApprovalsAreOfPages'
  BY <1>4 DEF K!Register, K!ChallengeForAuthorizationCode, K!ReadRefreshToken
<1>5. ASSUME NEW q \in TokenRequests, K!ExchangeAuthorizationCode(q) \/ K!ExchangeRefreshToken(q)
      PROVE  K!ApprovalsAreOfPages'
  BY <1>5 DEF K!ExchangeAuthorizationCode, K!ExchangeRefreshToken
<1>6. ASSUME K!Tick \/ UNCHANGED K!vars PROVE K!ApprovalsAreOfPages'
  BY <1>6 DEF K!Tick, K!vars
<1>. QED
  BY <1>1, <1>2, <1>3, <1>4, <1>5, <1>6 DEF K!Next

\* What a request has read stays true of it: codes and pairs do not change.
Bounded(r) ==
    /\ r.step = "code" => /\ r.code \in DOMAIN approved
                          /\ approved[r.code].client = r.client
    /\ r.step = "refresh" => /\ r.from \in DOMAIN pairs /\ pairs[r.from].client = r.client
                             /\ r.scopes \subseteq pairs[r.from].scopes

LEMMA BoundedStays ==
  ASSUME TtlsAreNumbers, K!TypeOK, K!GrantInv, [K!Next]_(K!vars), NEW r, Bounded(r)
  PROVE  Bounded(r)'
<1>1. /\ DOMAIN pairs \subseteq DOMAIN pairs'
      /\ \A n \in DOMAIN pairs : pairs'[n] = pairs[n]
  <2>1. CASE IssuesNone
    BY <2>1 DEF IssuesNone
  <2>2. ASSUME NEW p, Issues(p)
        PROVE  /\ DOMAIN pairs \subseteq DOMAIN pairs'
               /\ \A n \in DOMAIN pairs : pairs'[n] = pairs[n]
    BY <2>2, AppendedIsLast DEF Issues, K!TypeOK
  <2>. QED
    BY <2>1, <2>2, StepsIssueSo
<1>. QED
  BY <1>1, HistoriesGrow DEF Bounded

LEMMA RequestsStayBounded ==
  ASSUME TtlsAreNumbers, K!TypeOK, K!GrantInv, [K!Next]_(K!vars)
  PROVE  K!RequestsAreBounded'
<1>1. \A q \in TokenRequests : Bounded(tokenRequest[q])
  BY DEF K!GrantInv, K!RequestsAreBounded, Bounded
<1>2. \A q \in TokenRequests : Bounded(tokenRequest'[q])
  <2>. USE <1>1 DEF K!TypeOK
  <2>1. Bounded(K!NoRequest)
    BY DEF Bounded, K!NoRequest
  <2>2. ASSUME NEW s \in Servers, K!Stop(s) PROVE \A q \in TokenRequests : Bounded(tokenRequest'[q])
    BY <2>1, <2>2 DEF K!Stop
  <2>3. ASSUME NEW s \in Servers, NEW c \in Clients, NEW q \in TokenRequests, NEW k \in codes,
               K!ChallengeForAuthorizationCode(q, s, c, k)
        PROVE  \A x \in TokenRequests : Bounded(tokenRequest'[x])
    <3>1. Bounded([step |-> "code", server |-> s, client |-> c, code |-> k])
      BY <2>3 DEF Bounded, K!ChallengeForAuthorizationCode, K!ValidCodeRecord
    <3>. QED
      BY <2>3, <3>1 DEF K!ChallengeForAuthorizationCode
  <2>4. ASSUME NEW s \in Servers, NEW c \in Clients, NEW q \in TokenRequests, NEW n \in refresh,
               NEW scopes \in K!Scopes \union {Unsaid}, K!ReadRefreshToken(q, s, c, n, scopes)
        PROVE  \A x \in TokenRequests : Bounded(tokenRequest'[x])
    <3>1. Bounded([step |-> "refresh", server |-> s, client |-> c, from |-> n,
                   scopes |-> IF scopes = Unsaid THEN pairs[n].scopes ELSE scopes])
      BY <2>4 DEF Bounded, K!ReadRefreshToken
    <3>. QED
      BY <2>4, <3>1 DEF K!ReadRefreshToken
  <2>5. ASSUME NEW q \in TokenRequests, K!ExchangeAuthorizationCode(q) \/ K!ExchangeRefreshToken(q)
        PROVE  \A x \in TokenRequests : Bounded(tokenRequest'[x])
    BY <2>1, <2>5 DEF K!ExchangeAuthorizationCode, K!ExchangeRefreshToken
  <2>6. CASE tokenRequest' = tokenRequest
    BY <2>6
  <2>7. ASSUME NEW s \in Servers,
               \/ K!Start(s) \/ K!Approve(s)
               \/ \E c \in Clients :
                     \/ K!Register(s, c)
                     \/ \E scopes \in K!Scopes \union {Unsaid}, r \in Resources :
                           K!ShowForm(s, c, scopes, r)
               \/ \E n \in DOMAIN pairs, kind \in {"access", "refresh"} : K!Revoke(s, n, kind)
        PROVE  tokenRequest' = tokenRequest
    BY <2>7 DEF K!Start, K!Approve, K!Register, K!ShowForm, K!Revoke
  <2>8. ASSUME K!Tick \/ UNCHANGED K!vars PROVE tokenRequest' = tokenRequest
    BY <2>8 DEF K!Tick, K!vars
  <2>. QED
    BY <2>2, <2>3, <2>4, <2>5, <2>6, <2>7, <2>8 DEF K!Next
<1>3. ASSUME NEW q \in TokenRequests, NEW r, r = tokenRequest'[q] PROVE Bounded(r)'
  BY <1>2, <1>3, BoundedStays
<1>. QED
  BY <1>3 DEF K!RequestsAreBounded, Bounded

-------------------------------------------------------------------------------
\* The invariant: pairs and pages as the code stores them, and every grant
\* still there unspent, every pair within the approval it descends from.
THEOREM GrantsAreSound == ASSUME TtlsAreNumbers PROVE K!Spec => [](K!TypeOK /\ K!GrantInv)
<1>1. K!Init => K!TypeOK /\ K!GrantInv
  <2>. SUFFICES ASSUME K!Init PROVE K!TypeOK /\ K!GrantInv
    OBVIOUS
  <2>1. approved = <<>> /\ pairs = <<>> /\ DOMAIN <<>> = {}
    BY DEF K!Init
  <2>2. K!TypeOK
    BY <2>1 DEF K!Init, K!TypeOK
  <2>. QED
    BY <2>1, <2>2 DEF K!Init, K!GrantInv, K!UnusedIsUnspent, K!RevokedIsGone, K!ApprovalsAreOfPages,
       K!PairsDescend, K!RequestsAreBounded, K!TokensAreGranted, K!GrantsAreSpentOnce,
       K!NothingBeyondApproval, K!NoRequest
<1>2. (K!TypeOK /\ K!GrantInv) /\ [K!Next]_(K!vars) => (K!TypeOK /\ K!GrantInv)'
  <2>. SUFFICES ASSUME K!TypeOK, K!GrantInv, [K!Next]_(K!vars) PROVE (K!TypeOK /\ K!GrantInv)'
    OBVIOUS
  <2>1. K!RequestsAreBounded /\ K!ApprovalsAreOfPages
    BY DEF K!GrantInv
  <2>. QED
    BY <2>1, TypeIsInductive, GrantsStaySpent, PairsStayWithin, PagesStayHonest,
       RequestsStayBounded DEF K!GrantInv, K!TokensAreGranted
<1>. QED
  BY <1>1, <1>2, PTL DEF K!Spec

\* The state is of the shape the code gives it.
THEOREM TypeCorrect == ASSUME TtlsAreNumbers PROVE K!Spec => []K!TypeOK
BY GrantsAreSound, PTL

\* Any number of servers and requests that race for codes and refresh tokens get
\* one pair for each (saveTokenPair() in oauth-store.ts deletes what it consumes in
\* the transaction that stores), none for what was revoked unspent, and no chain of
\* refreshes leads to more than what the owner's page showed.
THEOREM TokensComeFromGrants == ASSUME TtlsAreNumbers PROVE K!Spec => []K!TokensAreGranted
<1>1. K!TypeOK /\ K!GrantInv => K!TokensAreGranted
  BY DEF K!GrantInv
<1>. QED
  BY <1>1, GrantsAreSound, PTL

(***************************************************************************)
(* Migrations.  The writer has the database for itself, and each migration *)
(* leaves what those recorded have made.                                   *)
(***************************************************************************)
\* Every build that makes the column `effort' knows the migration that renames it.
Builds == \A p \in Openers : Latest[p] \in 6..17

LEMMA SeventeenMigrations == Len(M!IfMissing) = 17
BY DEF M!IfMissing

\* No migration makes what another makes outright, or the column of the old name.
LEMMA MadeIfMissing ==
  ASSUME NEW u \in 1..17
  PROVE  {"execution_waiters", "agent_continue_keys", "console", "thinking"} \cap M!IfMissing[u] = {}
<1>1. CASE u = 1
  BY <1>1 DEF M!IfMissing, M!WorkspaceState
<1>2. CASE u = 2
  BY <1>2 DEF M!IfMissing, M!OAuthState
<1>3. CASE u = 3
  BY <1>3 DEF M!IfMissing, M!LocalAgentSessions
<1>4. CASE u = 4
  BY <1>4 DEF M!IfMissing, M!ConversationBindings
<1>5. CASE u = 5
  BY <1>5 DEF M!IfMissing, M!StructuredErrors
<1>6. CASE u = 6
  BY <1>6 DEF M!IfMissing
<1>7. CASE u = 7
  BY <1>7 DEF M!IfMissing, M!ExecutionCoordination
<1>8. CASE u = 8
  BY <1>8 DEF M!IfMissing
<1>9. CASE u = 9
  BY <1>9 DEF M!IfMissing
<1>10. CASE u = 10
  BY <1>10 DEF M!IfMissing, M!ContextAffinity
<1>11. CASE u = 11
  BY <1>11 DEF M!IfMissing
<1>12. CASE u = 12
  BY <1>12 DEF M!IfMissing
<1>13. CASE u = 13
  BY <1>13 DEF M!IfMissing, M!RecoveryState
<1>14. CASE u = 14
  BY <1>14 DEF M!IfMissing
<1>15. CASE u = 15
  BY <1>15 DEF M!IfMissing
<1>16. CASE u = 16
  BY <1>16 DEF M!IfMissing, M!LocalAgentTurns
<1>17. CASE u = 17
  BY <1>17 DEF M!IfMissing, M!TurnControl
<1>. QED
  BY <1>1, <1>2, <1>3, <1>4, <1>5, <1>6, <1>7, <1>8, <1>9, <1>10, <1>11, <1>12, <1>13, <1>14, <1>15, <1>16, <1>17

LEMMA MadeOutright ==
  ASSUME NEW v \in 1..17
  PROVE  /\ v = 10 => M!Outright(v) = {"execution_waiters", "agent_continue_keys"}
         /\ v = 11 => M!Outright(v) = {"console"}
         /\ v \notin {10, 11} => M!Outright(v) = {}
BY DEF M!Outright, M!Console

\* What one migration makes outright no other makes.
LEMMA OutrightIsItsOwn ==
  ASSUME NEW u \in 1..17, NEW v \in 1..17
  PROVE  /\ M!IfMissing[u] \cap M!Outright(v) = {}
         /\ u # v => M!Outright(u) \cap M!Outright(v) = {}
         /\ "thinking" \notin M!IfMissing[u] \union M!Outright(u)
         /\ {"thinking", "local_agent_sessions", "effort"} \cap M!Outright(v) = {}
<1>1. v \in {10, 11} \/ M!Outright(v) = {}
  BY MadeOutright
<1>. QED
  BY <1>1, MadeIfMissing, MadeOutright

\* What a migration makes of a database whose history it follows.
LEMMA ResultIsSound ==
  ASSUME NEW d, NEW v \in 1..17, M!IsDatabase(d), M!Own(d), M!Sound(d), ~M!Applied(d, v),
         v = 13 => M!Applied(d, 1)
  PROVE  /\ M!IsDatabase(M!Result(d, v)) /\ M!Own(M!Result(d, v)) /\ M!Sound(M!Result(d, v))
         /\ DOMAIN M!Result(d, v).names = DOMAIN d.names \union {v}
<1>. DEFINE made == [d EXCEPT !.items = d.items \union M!Creates(d, v)]
            e == IF v = 6 THEN M!EffortRename(made) ELSE made
            r == M!Result(d, v)
<1>0. Len(M!IfMissing) = 17
  BY SeventeenMigrations
<1>1. M!Creates(d, v) = M!IfMissing[v] \union M!Outright(v)
  <2>1. CASE v = 13
    <3>1. (M!IfMissing[1] \union M!Outright(1)) \ {"effort"} \subseteq d.items
      BY <1>0, <2>1 DEF M!Sound
    <3>2. "workspace_sessions" \in M!IfMissing[1]
      BY DEF M!IfMissing, M!WorkspaceState
    <3>. QED
      BY <3>1, <3>2 DEF M!Creates
  <2>2. CASE v # 13
    BY <2>2 DEF M!Creates
  <2>. QED
    BY <2>1, <2>2
<1>2. /\ M!IsDatabase(made) /\ made.items = d.items \union M!IfMissing[v] \union M!Outright(v)
      /\ made.names = d.names /\ made.agents = d.agents /\ made.thinking = d.thinking /\ made.effort = d.effort
  BY <1>1 DEF M!IsDatabase
<1>. HIDE DEF made
<1>3. /\ M!IsDatabase(e) /\ e.names = d.names /\ e.agents = d.agents
      /\ v # 6 => e.items = made.items /\ e.thinking = d.thinking /\ e.effort = d.effort
      /\ v = 6 => /\ "effort" \in e.items /\ made.items \ {"thinking"} \subseteq e.items
                  /\ e.items \subseteq made.items \union {"effort"}
                  /\ d.agents => e.effort = "high"
  <2>1. CASE v # 6
    BY <1>2, <2>1
  <2>2. CASE v = 6
    <3>1. d.agents => "thinking" \in made.items /\ made.thinking = "high" /\ made.effort = "none"
      BY <1>2, <2>2 DEF M!Sound
    <3>2. e = M!EffortRename(made)
      BY <2>2
    <3>. HIDE DEF e
    <3>3. CASE "effort" \in made.items /\ "thinking" \in made.items
      <4>1. e = [made EXCEPT !.effort = IF made.effort = "none" THEN made.thinking ELSE made.effort]
        BY <3>2, <3>3 DEF M!EffortRename
      <4>. QED
        BY <1>2, <2>2, <3>1, <3>3, <4>1 DEF M!IsDatabase
    <3>4. CASE "effort" \in made.items /\ "thinking" \notin made.items
      BY <1>2, <2>2, <3>1, <3>2, <3>4 DEF M!EffortRename
    <3>5. CASE "effort" \notin made.items /\ "thinking" \notin made.items
      <4>1. e = [made EXCEPT !.items = made.items \union {"effort"}]
        BY <3>2, <3>5 DEF M!EffortRename
      <4>. QED
        BY <1>2, <2>2, <3>1, <3>5, <4>1 DEF M!IsDatabase
    <3>6. CASE "effort" \notin made.items /\ "thinking" \in made.items
      <4>1. e = [made EXCEPT !.items = (made.items \ {"thinking"}) \union {"effort"},
                             !.effort = made.thinking, !.thinking = "none"]
        BY <3>2, <3>6 DEF M!EffortRename
      <4>. QED
        BY <1>2, <2>2, <3>1, <3>6, <4>1 DEF M!IsDatabase
    <3>. QED
      BY <3>3, <3>4, <3>5, <3>6
  <2>. QED
    BY <2>1, <2>2
<1>4. r = [e EXCEPT !.names = M!Recorded(d.names, v)]
  BY <1>3 DEF M!Result, made
<1>. HIDE DEF e
<1>5. /\ M!IsDatabase(r) /\ r.names = M!Recorded(d.names, v) /\ r.items = e.items /\ r.agents = d.agents
      /\ r.thinking = e.thinking /\ r.effort = e.effort
  BY <1>3, <1>4 DEF M!IsDatabase
<1>. HIDE DEF r
<1>6. DOMAIN r.names = DOMAIN d.names \union {v} /\ \A u \in DOMAIN r.names : r.names[u] = IF u = v THEN v ELSE d.names[u]
  BY <1>5 DEF M!Recorded
<1>7. M!Own(r)
  BY <1>0, <1>6 DEF M!Own
<1>8. \A u \in 1..17 : M!Applied(r, u) <=> M!Applied(d, u) \/ u = v
  BY <1>6 DEF M!Applied
<1>9. /\ d.items \ {"thinking"} \subseteq r.items
      /\ (M!IfMissing[v] \union M!Outright(v)) \ {"effort", "thinking"} \subseteq r.items
      /\ r.items \subseteq d.items \union M!IfMissing[v] \union M!Outright(v) \union {"effort"}
  BY <1>2, <1>3, <1>5
<1>10. ASSUME NEW u \in 1..17
       PROVE  IF M!Applied(r, u) THEN (M!IfMissing[u] \union M!Outright(u)) \ {"effort"} \subseteq r.items
              ELSE M!Outright(u) \cap r.items = {}
  <2>0. IF M!Applied(d, u) THEN (M!IfMissing[u] \union M!Outright(u)) \ {"effort"} \subseteq d.items
        ELSE M!Outright(u) \cap d.items = {}
    BY <1>0 DEF M!Sound
  <2>1. /\ "thinking" \notin M!IfMissing[u] \union M!Outright(u) /\ "effort" \notin M!Outright(u)
        /\ M!IfMissing[v] \cap M!Outright(u) = {} /\ (u # v => M!Outright(v) \cap M!Outright(u) = {})
    BY OutrightIsItsOwn
  <2>2. CASE u = v
    BY <1>8, <1>9, <2>1, <2>2
  <2>3. CASE u # v /\ M!Applied(d, u)
    BY <1>8, <1>9, <2>0, <2>1, <2>3
  <2>4. CASE u # v /\ ~M!Applied(d, u)
    BY <1>8, <1>9, <2>0, <2>1, <2>4
  <2>. QED
    BY <2>2, <2>3, <2>4
<1>11. M!Applied(r, 6) => "effort" \in r.items /\ (r.agents => r.effort = "high")
  <2>1. CASE v = 6
    BY <1>3, <1>5, <2>1
  <2>2. CASE v # 6
    BY <1>2, <1>3, <1>5, <1>8, <2>2 DEF M!Sound
  <2>. QED
    BY <2>1, <2>2
<1>12. r.agents /\ ~M!Applied(r, 6) => "thinking" \in r.items /\ r.thinking = "high" /\ r.effort = "none"
  BY <1>2, <1>3, <1>5, <1>8 DEF M!Sound
<1>13. M!Sound(r)
  BY <1>0, <1>10, <1>11, <1>12 DEF M!Sound
<1>. QED
  BY <1>5, <1>6, <1>7, <1>13 DEF r

\* A step of an opener that is not the writer's on the database leaves what is committed.
LEMMA OnlyOpensOrCloses ==
  ASSUME M!SchemaInv, NEW p \in Openers, NEW w \in {"closed", "refused"},
         M!Goes(p, w), UNCHANGED db,
         \/ UNCHANGED <<work, next>>
         \/ at[p] = "migrating" /\ M!IsDatabase(work') /\ next' \in Nat
  PROVE  M!SchemaInv'
<1>1. /\ at \in [Openers -> {"closed", "migrating", "open", "refused"}]
      /\ M!IsDatabase(work) /\ next \in Nat /\ M!IsDatabase(db)
  BY DEF M!SchemaInv
<1>2. /\ at' \in [Openers -> {"closed", "migrating", "open", "refused"}]
      /\ at'[p] = w /\ \A q \in Openers : q # p => at'[q] = at[q]
  BY <1>1 DEF M!Goes
<1>3. M!IsDatabase(work') /\ next' \in Nat
  BY <1>1
<1>4. M!OneWriter'
  BY <1>2 DEF M!SchemaInv, M!OneWriter
<1>5. M!Committed'
  BY DEF M!SchemaInv, M!Committed
<1>6. M!OpenIsMigrated'
  BY <1>2 DEF M!SchemaInv, M!OpenIsMigrated
<1>7. M!Migrating'
  <2>1. ASSUME NEW q \in Openers, at'[q] = "migrating" PROVE at[q] = "migrating" /\ UNCHANGED <<work, next>>
    BY <1>2, <2>1 DEF M!SchemaInv, M!OneWriter
  <2>. QED
    BY <2>1 DEF M!SchemaInv, M!Migrating
<1>. QED
  BY <1>1, <1>2, <1>3, <1>4, <1>5, <1>6, <1>7 DEF M!SchemaInv

LEMMA EmptyIsADatabase == M!IsDatabase(M!Empty)
BY DEF M!Empty, M!IsDatabase

LEMMA TakesKeeps ==
  ASSUME Builds, M!SchemaInv, NEW p \in Openers, M!Takes(p)
  PROVE  M!SchemaInv'
<1>1. /\ at \in [Openers -> {"closed", "migrating", "open", "refused"}]
      /\ M!IsDatabase(db)
  BY DEF M!SchemaInv
<1>2. /\ at' \in [Openers -> {"closed", "migrating", "open", "refused"}]
      /\ at'[p] = "migrating" /\ \A q \in Openers : q # p => at'[q] = at[q] /\ at'[q] # "migrating"
      /\ work' = db /\ next' = 1 /\ UNCHANGED db
  BY <1>1 DEF M!Takes, M!Goes
<1>3. M!OneWriter'
  BY <1>2 DEF M!OneWriter
<1>4. M!Committed'
  BY <1>2 DEF M!SchemaInv, M!Committed
<1>5. M!OpenIsMigrated'
  BY <1>2 DEF M!SchemaInv, M!OpenIsMigrated
<1>6. M!Migrating'
  <2>1. Latest[p] + 1 \in Nat /\ 1 \in 1..(Latest[p] + 1)
    BY DEF Builds
  <2>. QED
    BY <1>2, <2>1 DEF M!Migrating
<1>. QED
  BY <1>1, <1>2, <1>3, <1>4, <1>5, <1>6 DEF M!SchemaInv

\* A history that a build finds compatible is one of its own line.
LEMMA CompatibleIsOwn ==
  ASSUME Builds, M!SchemaInv, NEW p \in Openers, M!Compatible(p)
  PROVE  M!Own(db) /\ M!Sound(db)
<1>1. Latest[p] \in 6..17 /\ Len(M!IfMissing) = 17
  BY SeventeenMigrations DEF Builds
<1>2. ASSUME db = M!Newer PROVE FALSE
  <2>1. M!Newer.names = [v \in 1..18 |-> IF v = 18 THEN M!OtherName ELSE v]
    BY DEF M!Newer, M!Whole
  <2>. QED
    BY <1>1, <1>2, <2>1 DEF M!Compatible, M!Known
<1>3. ASSUME db = M!Forked PROVE FALSE
  <2>1. M!Whole(13).names = [v \in 1..13 |-> v]
    BY DEF M!Whole, M!Upto
  <2>2. M!Forked.names = [M!Whole(13).names EXCEPT ![13] = M!OtherName]
    BY DEF M!Forked, M!Whole
  <2>3. 13 \in DOMAIN M!Forked.names /\ M!Forked.names[13] = 0
    BY <2>1, <2>2 DEF M!OtherName
  <2>. QED
    BY <1>3, <2>3 DEF M!Compatible
<1>. QED
  BY <1>2, <1>3 DEF M!SchemaInv, M!Committed

\* The writer goes on to the next migration, with what it has applied.
LEMMA WriterGoesOn ==
  ASSUME Builds, M!SchemaInv, NEW p \in Openers, NEW v \in M!Known(p), M!Considers(p, v),
         UNCHANGED <<db, at>>, next' = next + 1,
         M!Own(work) /\ M!Sound(work) /\ (\A u \in 1..(v - 1) : M!Applied(work, u))
           => /\ M!IsDatabase(work') /\ M!Own(work') /\ M!Sound(work') /\ M!Applied(work', v)
              /\ DOMAIN work.names \subseteq DOMAIN work'.names
  PROVE  M!SchemaInv'
<1>1. /\ at \in [Openers -> {"closed", "migrating", "open", "refused"}]
      /\ M!IsDatabase(db) /\ next \in Nat /\ at[p] = "migrating" /\ next = v /\ M!Migrating
  BY DEF M!SchemaInv, M!Considers
<1>2. v \in 1..Latest[p] /\ Latest[p] \in 6..17
  BY DEF M!Known, Builds
<1>3. /\ M!Own(db) /\ M!Own(work) /\ M!Sound(work) /\ DOMAIN db.names \subseteq DOMAIN work.names
      /\ \A u \in 1..(v - 1) : M!Applied(work, u)
  <2>1. CASE next = 1
    <3>1. M!Own(db) /\ M!Sound(db) /\ work = db
      BY <1>1, <2>1, CompatibleIsOwn DEF M!Considers, M!Migrating
    <3>. QED
      BY <1>1, <2>1, <3>1
  <2>2. CASE next > 1
    BY <1>1, <2>2 DEF M!Migrating
  <2>. QED
    BY <1>1, <1>2, <2>1, <2>2
<1>4. /\ M!IsDatabase(work') /\ M!Own(work') /\ M!Sound(work') /\ M!Applied(work', v)
      /\ DOMAIN work.names \subseteq DOMAIN work'.names
  BY <1>3
<1>5. \A u \in 1..(next' - 1) : M!Applied(work', u)
  BY <1>1, <1>2, <1>3, <1>4 DEF M!Applied
<1>6. next' \in 1..(Latest[p] + 1) /\ next' \in Nat /\ next' > 1
  BY <1>1, <1>2
<1>7. \A q \in Openers : at[q] = "migrating" => q = p
  BY <1>1 DEF M!SchemaInv, M!OneWriter
<1>8. M!Migrating'
  BY <1>3, <1>4, <1>5, <1>6, <1>7 DEF M!Migrating
<1>. QED
  BY <1>1, <1>4, <1>6, <1>8 DEF M!SchemaInv, M!OneWriter, M!Committed, M!OpenIsMigrated

LEMMA SkipsKeeps ==
  ASSUME Builds, M!SchemaInv, NEW p \in Openers, NEW v \in M!Known(p), M!Skips(p, v)
  PROVE  M!SchemaInv'
<1>1. /\ M!Considers(p, v) /\ UNCHANGED <<db, at, work>> /\ next' = next + 1 /\ M!Applied(work, v)
      /\ M!IsDatabase(work)
  BY DEF M!Skips, M!SchemaInv
<1>. QED
  BY <1>1, WriterGoesOn

LEMMA UpKeeps ==
  ASSUME Builds, M!SchemaInv, NEW p \in Openers, NEW v \in M!Known(p), M!Up(p, v)
  PROVE  M!SchemaInv'
<1>1. /\ M!Considers(p, v) /\ UNCHANGED <<db, at>> /\ next' = next + 1 /\ ~M!Applied(work, v)
      /\ work' = M!Result(work, v) /\ M!IsDatabase(work)
  BY DEF M!Up, M!SchemaInv
<1>2. v \in 1..17 /\ (v = 13 => 1 \in 1..(v - 1))
  BY DEF M!Known, Builds
<1>3. ASSUME M!Own(work), M!Sound(work), \A u \in 1..(v - 1) : M!Applied(work, u)
      PROVE  /\ M!IsDatabase(work') /\ M!Own(work') /\ M!Sound(work') /\ M!Applied(work', v)
             /\ DOMAIN work.names \subseteq DOMAIN work'.names
  <2>1. v = 13 => M!Applied(work, 1)
    BY <1>2, <1>3
  <2>2. /\ M!IsDatabase(work') /\ M!Own(work') /\ M!Sound(work')
        /\ DOMAIN work'.names = DOMAIN work.names \union {v}
    BY <1>1, <1>2, <1>3, <2>1, ResultIsSound
  <2>. QED
    BY <2>2 DEF M!Applied
<1>. QED
  BY <1>1, <1>3, WriterGoesOn

LEMMA CommitsKeeps ==
  ASSUME Builds, M!SchemaInv, NEW p \in Openers, M!Commits(p)
  PROVE  M!SchemaInv'
<1>1. /\ at \in [Openers -> {"closed", "migrating", "open", "refused"}] /\ Latest[p] \in 6..17
      /\ M!IsDatabase(work) /\ at[p] = "migrating" /\ next = Latest[p] + 1
      /\ db' = work /\ work' = M!Empty /\ next' = 0
  BY DEF M!SchemaInv, M!Commits, Builds
<1>2. /\ at' \in [Openers -> {"closed", "migrating", "open", "refused"}]
      /\ at'[p] = "open" /\ \A q \in Openers : q # p => at'[q] = at[q] /\ at'[q] # "migrating"
  BY <1>1 DEF M!Commits, M!Goes, M!SchemaInv, M!OneWriter
<1>3. /\ M!Own(db) /\ M!Own(work) /\ M!Sound(work) /\ DOMAIN db.names \subseteq DOMAIN work.names
      /\ \A u \in 1..Latest[p] : M!Applied(work, u)
  BY <1>1 DEF M!SchemaInv, M!Migrating
<1>4. M!OneWriter' /\ M!Migrating'
  BY <1>2 DEF M!OneWriter, M!Migrating
<1>5. M!Committed'
  BY <1>1, <1>3 DEF M!Committed
<1>6. M!OpenIsMigrated'
  BY <1>1, <1>2, <1>3 DEF M!SchemaInv, M!OpenIsMigrated, M!Known, M!Applied
<1>. QED
  BY <1>1, <1>2, <1>4, <1>5, <1>6, EmptyIsADatabase DEF M!SchemaInv

LEMMA SchemaStep ==
  ASSUME Builds, M!SchemaInv, [M!Next]_(M!vars)
  PROVE  M!SchemaInv'
<1>1. CASE UNCHANGED M!vars
  BY <1>1 DEF M!vars, M!SchemaInv, M!OneWriter, M!Committed, M!OpenIsMigrated, M!Migrating
<1>2. ASSUME NEW p \in Openers, M!Opening(p) PROVE M!SchemaInv'
  <2>1. CASE M!Busy(p)
    BY <2>1, OnlyOpensOrCloses DEF M!Busy, M!Settled
  <2>2. CASE M!Closes(p)
    BY <2>2, OnlyOpensOrCloses DEF M!Closes, M!Settled
  <2>3. CASE M!Refuses(p) \/ M!Fails(p)
    <3>1. /\ at[p] = "migrating" /\ M!Goes(p, "refused") /\ work' = M!Empty /\ next' = 0 /\ UNCHANGED db
      BY <2>3 DEF M!Refuses, M!Fails, M!RollsBack
    <3>. QED
      BY <3>1, EmptyIsADatabase, OnlyOpensOrCloses
  <2>. QED
    BY <1>2, <2>1, <2>2, <2>3, TakesKeeps, SkipsKeeps, UpKeeps, CommitsKeeps DEF M!Opening
<1>. QED
  BY <1>1, <1>2 DEF M!Next

LEMMA CreatedBy ==
  ASSUME NEW vs \in SUBSET (1..17), NEW v \in 1..17
  PROVE  IF v \in vs THEN M!IfMissing[v] \union M!Outright(v) \subseteq M!Created(vs)
         ELSE M!Outright(v) \cap M!Created(vs) = {}
<1>1. CASE v \in vs
  BY <1>1 DEF M!Created
<1>2. CASE v \notin vs
  <2>1. ASSUME NEW x \in M!Outright(v), x \in M!Created(vs) PROVE FALSE
    <3>1. PICK u \in vs : x \in M!IfMissing[u] \union M!Outright(u)
      BY <2>1 DEF M!Created
    <3>2. u \in 1..17 /\ u # v
      BY <1>2
    <3>. QED
      BY <2>1, <3>1, <3>2, OutrightIsItsOwn
  <2>. QED
    BY <1>2, <2>1
<1>. QED
  BY <1>1, <1>2

LEMMA OldIsSound ==
  ASSUME NEW d \in M!Old
  PROVE  M!IsDatabase(d) /\ (d \in {M!Newer, M!Forked} \/ (M!Own(d) /\ M!Sound(d)))
<1>0. Len(M!IfMissing) = 17
  BY SeventeenMigrations
<1>1. CASE d = M!Empty
  <2>1. d.items = {} /\ DOMAIN d.names = {} /\ ~d.agents
    BY <1>1 DEF M!Empty
  <2>. QED
    BY <1>0, <1>1, <2>1, EmptyIsADatabase DEF M!Own, M!Sound, M!Applied
<1>2. CASE d = M!Thinking
  <2>1. /\ d.items = (M!Created(1..5) \ {"effort"}) \union {"thinking"} /\ d.names = M!Upto(5)
        /\ d.agents /\ d.thinking = "high" /\ d.effort = "none" /\ M!IsDatabase(d)
    BY <1>2 DEF M!Thinking, M!IsDatabase
  <2>2. DOMAIN d.names = 1..5 /\ \A v \in 1..5 : d.names[v] = v
    BY <2>1 DEF M!Upto
  <2>3. ASSUME NEW v \in 1..17
        PROVE  IF M!Applied(d, v) THEN (M!IfMissing[v] \union M!Outright(v)) \ {"effort"} \subseteq d.items
               ELSE M!Outright(v) \cap d.items = {}
    <3>1. /\ M!Applied(d, v) <=> v \in 1..5
          /\ IF v \in 1..5 THEN M!IfMissing[v] \union M!Outright(v) \subseteq M!Created(1..5)
             ELSE M!Outright(v) \cap M!Created(1..5) = {}
      BY <2>2, CreatedBy DEF M!Applied
    <3>2. "thinking" \notin M!Outright(v)
      BY OutrightIsItsOwn
    <3>. QED
      BY <2>1, <3>1, <3>2
  <2>. QED
    BY <1>0, <2>1, <2>2, <2>3 DEF M!Own, M!Sound, M!Applied
<1>3. CASE d = M!Interrupted
  <2>1. /\ d.items = M!Created({1, 2, 4}) \union {"local_agent_sessions", "thinking"}
        /\ d.names = [v \in {1, 2, 4} |-> v]
        /\ d.agents /\ d.thinking = "high" /\ d.effort = "none" /\ M!IsDatabase(d)
    BY <1>3 DEF M!Interrupted, M!IsDatabase
  <2>2. DOMAIN d.names = {1, 2, 4} /\ \A v \in {1, 2, 4} : d.names[v] = v
    BY <2>1
  <2>3. ASSUME NEW v \in 1..17
        PROVE  IF M!Applied(d, v) THEN (M!IfMissing[v] \union M!Outright(v)) \ {"effort"} \subseteq d.items
               ELSE M!Outright(v) \cap d.items = {}
    <3>1. /\ M!Applied(d, v) <=> v \in {1, 2, 4}
          /\ IF v \in {1, 2, 4} THEN M!IfMissing[v] \union M!Outright(v) \subseteq M!Created({1, 2, 4})
             ELSE M!Outright(v) \cap M!Created({1, 2, 4}) = {}
      <4>1. {1, 2, 4} \in SUBSET (1..17)
        OBVIOUS
      <4>. QED
        BY <2>2, <4>1, CreatedBy DEF M!Applied
    <3>2. {"thinking", "local_agent_sessions"} \cap M!Outright(v) = {}
      BY OutrightIsItsOwn
    <3>. QED
      BY <2>1, <3>1, <3>2
  <2>. QED
    BY <1>0, <2>1, <2>2, <2>3 DEF M!Own, M!Sound, M!Applied
<1>4. CASE d = M!Whole(12)
  <2>1. /\ d.items = M!Created(1..12) /\ d.names = M!Upto(12) /\ d.effort = "high" /\ M!IsDatabase(d)
    BY <1>4 DEF M!Whole, M!IsDatabase
  <2>2. DOMAIN d.names = 1..12 /\ \A v \in 1..12 : d.names[v] = v
    BY <2>1 DEF M!Upto
  <2>3. ASSUME NEW v \in 1..17
        PROVE  IF M!Applied(d, v) THEN (M!IfMissing[v] \union M!Outright(v)) \ {"effort"} \subseteq d.items
               ELSE M!Outright(v) \cap d.items = {}
    <3>1. /\ M!Applied(d, v) <=> v \in 1..12
          /\ IF v \in 1..12 THEN M!IfMissing[v] \union M!Outright(v) \subseteq M!Created(1..12)
             ELSE M!Outright(v) \cap M!Created(1..12) = {}
      BY <2>2, CreatedBy DEF M!Applied
    <3>. QED
      BY <2>1, <3>1
  <2>4. "effort" \in d.items
    <3>1. M!IfMissing[3] \subseteq d.items /\ "effort" \in M!IfMissing[3]
      <4>1. M!IfMissing[3] \union M!Outright(3) \subseteq M!Created(1..12)
        BY CreatedBy
      <4>2. M!IfMissing[3] = M!LocalAgentSessions
        BY DEF M!IfMissing
      <4>. QED
        BY <2>1, <4>1, <4>2 DEF M!LocalAgentSessions
    <3>. QED
      BY <3>1
  <2>. QED
    BY <1>0, <2>1, <2>2, <2>3, <2>4 DEF M!Own, M!Sound, M!Applied
<1>5. CASE d \in {M!Newer, M!Forked}
  BY <1>5 DEF M!Newer, M!Forked, M!Whole, M!IsDatabase
<1>. QED
  BY <1>1, <1>2, <1>3, <1>4, <1>5 DEF M!Old

\* THEOREM.  In every reachable state of the database (db/migrations.ts), whichever
\* builds open it, fail and die, what is committed has all that its history says and
\* nothing that a later migration makes outright, and the one writer has applied every
\* migration it has passed.
THEOREM SchemaIsSound == ASSUME Builds PROVE M!Spec => []M!SchemaInv
<1>1. M!Init => M!SchemaInv
  <2>. SUFFICES ASSUME M!Init PROVE M!SchemaInv
    OBVIOUS
  <2>1. M!IsDatabase(db) /\ M!Committed
    BY OldIsSound DEF M!Init, M!Committed
  <2>2. M!IsDatabase(work) /\ next \in Nat
    BY EmptyIsADatabase DEF M!Init
  <2>3. /\ at \in [Openers -> {"closed", "migrating", "open", "refused"}]
        /\ \A p \in Openers : at[p] = "closed"
    BY DEF M!Init
  <2>. QED
    BY <2>1, <2>2, <2>3 DEF M!SchemaInv, M!OneWriter, M!OpenIsMigrated, M!Migrating
<1>2. M!SchemaInv /\ [M!Next]_(M!vars) => M!SchemaInv'
  BY SchemaStep
<1>. QED
  BY <1>1, <1>2, PTL DEF M!Spec

\* THEOREM.  Whoever has the database open finds what its build uses, a half-way migration
\* leaves nothing behind, the effort of an agent survives the renaming of its column, and
\* a database of another line stays as it was: for any openers, builds and opens.
THEOREM SchemasAreWhole == ASSUME Builds PROVE M!Spec => []M!MigrationsAreWhole
<1>1. M!SchemaInv => M!MigrationsAreWhole
  <2>. SUFFICES ASSUME M!SchemaInv PROVE M!MigrationsAreWhole
    OBVIOUS
  <2>0. Len(M!IfMissing) = 17
    BY SeventeenMigrations
  <2>1. ASSUME M!Own(db), M!Sound(db)
        PROVE  /\ M!SchemaIsItsHistory /\ M!EffortSurvives
               /\ M!OtherName \notin {db.names[v] : v \in DOMAIN db.names}
    BY <2>0, <2>1 DEF M!Own, M!Sound, M!SchemaIsItsHistory, M!EffortSurvives, M!OtherName
  <2>2. ASSUME db \in {M!Newer, M!Forked}
        PROVE  M!SchemaIsItsHistory /\ M!EffortSurvives
    <3>1. PICK n \in {13, 17} :
            db.items = M!Created(1..n) /\ db.effort = "high" /\ 1..n \subseteq DOMAIN db.names
      <4>1. CASE db = M!Newer
        BY <4>1 DEF M!Newer, M!Whole
      <4>2. CASE db = M!Forked
        BY <4>2 DEF M!Forked, M!Whole, M!Upto
      <4>. QED
        BY <2>2, <4>1, <4>2
    <3>2. \A v \in 1..17 : v \notin 1..n => M!Outright(v) \cap db.items = {}
      BY <3>1, CreatedBy
    <3>. QED
      BY <2>0, <3>1, <3>2 DEF M!SchemaIsItsHistory, M!EffortSurvives, M!Applied
  <2>3. ASSUME NEW p \in Openers, at[p] = "open"
        PROVE  /\ M!Created(M!Known(p)) \subseteq db.items
               /\ \A v \in M!Known(p) : M!Applied(db, v) /\ db.names[v] = v
    <3>1. M!Own(db) /\ \A v \in M!Known(p) : M!Applied(db, v)
      BY <2>3 DEF M!SchemaInv, M!OpenIsMigrated
    <3>2. M!Sound(db)
      <4>1. ASSUME db \in {M!Newer, M!Forked} PROVE ~M!Own(db)
        <5>1. CASE db = M!Newer
          <6>1. db.names = [v \in 1..18 |-> IF v = 18 THEN M!OtherName ELSE v]
            BY <5>1 DEF M!Newer, M!Whole
          <6>. QED
            BY <2>0, <6>1 DEF M!Own
        <5>2. CASE db = M!Forked
          <6>1. db.names = [M!Upto(13) EXCEPT ![13] = M!OtherName]
            BY <5>2 DEF M!Forked, M!Whole
          <6>2. 13 \in DOMAIN db.names /\ db.names[13] = 0
            BY <6>1 DEF M!Upto, M!OtherName
          <6>. QED
            BY <6>2 DEF M!Own
        <5>. QED
          BY <4>1, <5>1, <5>2
      <4>. QED
        BY <3>1, <4>1 DEF M!SchemaInv, M!Committed
    <3>3. M!Known(p) \subseteq 1..17 /\ 6 \in M!Known(p)
      BY DEF Builds, M!Known
    <3>4. "effort" \in db.items
      BY <3>1, <3>2, <3>3 DEF M!Sound
    <3>5. ASSUME NEW v \in M!Known(p) PROVE M!IfMissing[v] \union M!Outright(v) \subseteq db.items
      <4>1. (M!IfMissing[v] \union M!Outright(v)) \ {"effort"} \subseteq db.items
        BY <2>0, <3>1, <3>2, <3>3 DEF M!Sound
      <4>. QED
        BY <3>4, <4>1
    <3>6. M!Created(M!Known(p)) \subseteq db.items
      BY <3>5 DEF M!Created
    <3>. QED
      BY <3>1, <3>6 DEF M!Own, M!Applied
  <2>4. M!OpenIsUsable
    BY <2>3 DEF M!OpenIsUsable
  <2>5. M!SchemaIsItsHistory /\ M!EffortSurvives /\ M!OthersAreLeftAlone
    BY <2>1, <2>2 DEF M!SchemaInv, M!Committed, M!OthersAreLeftAlone
  <2>. QED
    BY <2>4, <2>5 DEF M!MigrationsAreWhole
<1>. QED
  BY <1>1, SchemaIsSound, PTL

(***************************************************************************)
(* The configuration.  Until a migration is rolled back config.jsonc stays *)
(* once it is there, and what a command found stays until another writes.  *)
(***************************************************************************)
\* No command has the name of what auth.json holds without one.
Named == Commands \cap {C!NoOne, "torn"} = {}

\* A command goes on to a place, and the others stay.
LEMMA CommandGoes ==
  ASSUME run \in [Commands -> C!Runs], NEW c \in Commands, NEW x \in C!Places, C!Goes(c, x)
  PROVE  /\ run' \in [Commands -> C!Runs] /\ run'[c] \in C!Runs
         /\ run'[c].at = x /\ run'[c].kind = run[c].kind /\ run'[c].pass = run[c].pass
         /\ run'[c].held = run[c].held /\ run'[c].password = run[c].password
         /\ run'[c].found = run[c].found /\ run'[c].shared = run[c].shared
         /\ \A d \in Commands : d # c => run'[d] = run[d]
<1>1. run[c] \in C!Runs
  OBVIOUS
<1>2. run' = [run EXCEPT ![c] = [run[c] EXCEPT !.at = x]]
  BY DEF C!Goes
<1>3. [run[c] EXCEPT !.at = x] \in C!Runs
  BY <1>1 DEF C!Runs
<1>. QED
  BY <1>1, <1>2, <1>3 DEF C!Runs

\* A command that goes on without writing: the files are as they were, or a migration
\* moved them as it may.
LEMMA OneGoesOn ==
  ASSUME Named, C!ConfigInv, NEW c \in Commands, C!TypeOK',
         \A d \in Commands : d # c => run'[d] = run[d],
         run'[c].found = run[c].found, run'[c].shared = run[c].shared, ~C!Where(c, "idle"),
         C!Running(c), ~C!Where(c, "idle")', UNCHANGED last, rolled => rolled',
         ~rolled' => /\ "config" \in configFiles => "config" \in configFiles' /\ text' = text
                     /\ "config" \notin configFiles => text' \in {{}, {"legacy"}},
         "config" \notin configFiles' => text' = {},
         ~rolled' /\ C!HadLegacy' =>
            /\ C!HadLegacy /\ ("config" \in configFiles' => "legacy" \in text')
            /\ "legacy" \notin configFiles' => "config" \in configFiles'
            /\ run'[c].at \in {"rename", "rollback", "check", "read", "edit", "write"} => "config" \in configFiles'
            /\ C!Where(c, "write")' => "legacy" \in run'[c].held,
         ~rolled' => (C!Where(c, "write")' /\ run[c].found.text \subseteq text => run[c].found.text \subseteq run'[c].held),
         auth' \in {auth, "torn"},
         /\ run'[c].pass = 1 => run'[c].password = C!NoOne
         /\ ~run[c].shared /\ run[c].found.auth \in Commands /\ run'[c].pass = 2 /\ run'[c].kind # "set"
               => run'[c].password = run[c].found.auth
  PROVE  C!ConfigInv'
<1>1. C!TypeOK /\ C!LegacyIsCarried /\ C!FoundIsThere /\ C!PasswordIsThere
  BY DEF C!ConfigInv
<1>2. C!LegacyIsCarried'
  <2>. SUFFICES ASSUME ~rolled', C!HadLegacy' PROVE C!LegacyIsCarried'
    BY DEF C!LegacyIsCarried
  <2>1. ~rolled /\ C!HadLegacy
    OBVIOUS
  <2>2. ASSUME NEW d \in Commands, d # c
        PROVE  /\ run'[d].at \in {"rename", "rollback", "check", "read", "edit", "write"} => "config" \in configFiles'
               /\ C!Where(d, "write")' => "legacy" \in run'[d].held
    BY <1>1, <2>1, <2>2 DEF C!LegacyIsCarried, C!Where
  <2>. QED
    BY <1>1, <2>1, <2>2 DEF C!LegacyIsCarried
<1>3. C!FoundIsThere'
  <2>1. ASSUME ~rolled', NEW d \in Commands, run'[d].at \notin C!Over \union {"idle"}, ~run'[d].shared
        PROVE  run'[d].found.text \subseteq text' /\ (C!Where(d, "write")' => run'[d].found.text \subseteq run'[d].held)
    <3>1. ~rolled /\ C!Running(d) /\ ~run[d].shared /\ run'[d].found = run[d].found
      BY <2>1 DEF C!Running
    <3>2. run[d].found.text \subseteq text /\ (C!Where(d, "write") => run[d].found.text \subseteq run[d].held)
      BY <1>1, <3>1 DEF C!FoundIsThere
    <3>3. run[d].found.text \subseteq text'
      BY <1>1, <2>1, <3>2 DEF C!FoundIsThere
    <3>. QED
      BY <2>1, <3>1, <3>2, <3>3 DEF C!Where
  <2>2. ASSUME ~rolled', last' # C!NoOne
        PROVE  /\ "config" \in configFiles' /\ ~C!Where(last, "idle")'
               /\ ~run'[last'].shared => {last'} \union run'[last'].found.text \subseteq text'
    <3>1. /\ ~rolled /\ last \in Commands /\ "config" \in configFiles /\ ~C!Where(last, "idle")
          /\ ~run[last].shared => {last} \union run[last].found.text \subseteq text
      BY <1>1, <2>2 DEF C!FoundIsThere, C!TypeOK
    <3>2. run'[last].found = run[last].found /\ run'[last].shared = run[last].shared
      BY <3>1
    <3>. QED
      BY <2>2, <3>1, <3>2 DEF C!Where
  <2>. QED
    BY <2>1, <2>2 DEF C!FoundIsThere, C!Running
<1>4. C!PasswordIsThere'
  <2>1. ASSUME NEW d \in Commands, ~run'[d].shared, run'[d].found.auth \in Commands, run'[d].at \notin C!Over \union {"idle"}
        PROVE  auth' \in {run'[d].found.auth, "torn"}
    <3>1. C!Running(d) /\ ~run[d].shared /\ run'[d].found = run[d].found
      BY <2>1 DEF C!Running
    <3>. QED
      BY <1>1, <2>1, <3>1 DEF C!PasswordIsThere
  <2>2. ASSUME NEW d \in Commands
        PROVE  /\ run'[d].pass = 1 => run'[d].password = C!NoOne
               /\ ~run'[d].shared /\ run'[d].found.auth \in Commands /\ run'[d].pass = 2 /\ run'[d].kind # "set"
                     => run'[d].password = run'[d].found.auth
    BY <1>1, <2>2 DEF C!PasswordIsThere
  <2>. QED
    BY <2>1, <2>2 DEF C!PasswordIsThere, C!Running
<1>. QED
  BY <1>2, <1>3, <1>4 DEF C!ConfigInv

LEMMA PlacesDiffer ==
  ASSUME NEW c, C!Running(c)
  PROVE  run[c].at # "idle" /\ ~C!Where(c, "idle")
BY DEF C!Running, C!Where

\* A command that only looks goes on.
LEMMA Moves ==
  ASSUME Named, C!ConfigInv, NEW c \in Commands, NEW x \in C!Places, x \notin {"idle", "write"},
         C!Goes(c, x), C!Running(c), UNCHANGED <<configFiles, text, auth, supported, last, rolled>>,
         ~rolled /\ C!HadLegacy /\ x \in {"rename", "rollback", "check", "read", "edit"} => "config" \in configFiles
  PROVE  C!ConfigInv'
<1>1. C!TypeOK /\ C!LegacyIsCarried /\ C!FoundIsThere /\ C!PasswordIsThere
  BY DEF C!ConfigInv
<1>2. /\ run' \in [Commands -> C!Runs]
      /\ run'[c].at = x /\ run'[c].kind = run[c].kind /\ run'[c].pass = run[c].pass
      /\ run'[c].held = run[c].held /\ run'[c].password = run[c].password
      /\ run'[c].found = run[c].found /\ run'[c].shared = run[c].shared
      /\ \A d \in Commands : d # c => run'[d] = run[d]
  BY <1>1, CommandGoes DEF C!TypeOK
<1>3. C!TypeOK'
  BY <1>1, <1>2 DEF C!TypeOK
<1>4. ~C!Where(c, "write")' /\ ~C!Where(c, "idle")' /\ ~C!Where(c, "idle")
  BY <1>2, PlacesDiffer DEF C!Where
<1>5. "config" \notin configFiles => text = {}
  BY <1>1 DEF C!FoundIsThere
<1>6. (~rolled /\ C!HadLegacy => ("config" \in configFiles => "legacy" \in text) /\ ("legacy" \notin configFiles => "config" \in configFiles))
      /\ (C!HadLegacy' <=> C!HadLegacy)
  BY <1>1 DEF C!LegacyIsCarried, C!HadLegacy
<1>7. /\ run'[c].pass = 1 => run'[c].password = C!NoOne
      /\ ~run[c].shared /\ run[c].found.auth \in Commands /\ run'[c].pass = 2 /\ run'[c].kind # "set"
            => run'[c].password = run[c].found.auth
  BY <1>1, <1>2 DEF C!PasswordIsThere
<1>. QED
  BY <1>2, <1>3, <1>4, <1>5, <1>6, <1>7, OneGoesOn

LEMMA Standing ==
  ASSUME C!TypeOK, NEW c \in Commands, C!Running(c)
  PROVE  run[c] \in C!Runs /\ run[c].at \in C!Places \ {"idle"}
BY DEF C!TypeOK, C!Runs, C!Running

LEMMA ConfigAskedKeeps ==
  ASSUME Named, C!ConfigInv, NEW c \in Commands, C!ConfigAsked(c)
  PROVE  C!ConfigInv'
<1>. DEFINE x == IF "config" \in configFiles THEN "check" ELSE "legacy"
<1>1. x \in C!Places /\ x \notin {"idle", "write"} /\ (x \in {"rename", "rollback", "check", "read", "edit"} => "config" \in configFiles)
  BY DEF C!Places, C!Reading
<1>2. C!Goes(c, x) /\ C!Running(c) /\ UNCHANGED <<configFiles, text, auth, supported, last, rolled>>
  BY DEF C!ConfigAsked, C!Running, C!Where, C!Over, C!Disk, C!Rest
<1>. HIDE DEF x
<1>. QED
  BY <1>1, <1>2, Moves

LEMMA LegacyAskedKeeps ==
  ASSUME Named, C!ConfigInv, NEW c \in Commands, C!LegacyAsked(c)
  PROVE  C!ConfigInv'
<1>. DEFINE x == IF "legacy" \in configFiles THEN "backup" ELSE "check"
<1>1. x \in C!Places /\ x \notin {"idle", "write"}
      /\ (x \in {"rename", "rollback", "check", "read", "edit"} => "legacy" \notin configFiles)
  BY DEF C!Places, C!Reading
<1>2. C!Goes(c, x) /\ C!Running(c) /\ UNCHANGED <<configFiles, text, auth, supported, last, rolled>>
  BY DEF C!LegacyAsked, C!Running, C!Where, C!Over, C!Disk, C!Rest
<1>3. ~rolled /\ C!HadLegacy /\ "legacy" \notin configFiles => "config" \in configFiles
  BY DEF C!ConfigInv, C!LegacyIsCarried
<1>. HIDE DEF x
<1>. QED
  BY <1>1, <1>2, <1>3, Moves

LEMMA BackupAskedKeeps ==
  ASSUME Named, C!ConfigInv, NEW c \in Commands, C!BackupAsked(c)
  PROVE  C!ConfigInv'
<1>. DEFINE x == IF "backup" \in configFiles THEN "failed" ELSE "migrate"
<1>1. x \in C!Places /\ x \notin {"idle", "write", "rename", "rollback", "check", "read", "edit"}
  BY DEF C!Places, C!Reading, C!Over
<1>2. C!Goes(c, x) /\ C!Running(c) /\ UNCHANGED <<configFiles, text, auth, supported, last, rolled>>
  BY DEF C!BackupAsked, C!Running, C!Where, C!Over, C!Disk, C!Rest
<1>. HIDE DEF x
<1>. QED
  BY <1>1, <1>2, Moves

LEMMA MigratesKeeps ==
  ASSUME Named, C!ConfigInv, NEW c \in Commands, C!Migrates(c)
  PROVE  C!ConfigInv'
<1>. DEFINE x == IF C!Migrated(c) THEN "link" ELSE "failed"
<1>1. x \in C!Places /\ x \notin {"idle", "write", "rename", "rollback", "check", "read", "edit"}
  BY DEF C!Places, C!Reading, C!Over
<1>2. C!Goes(c, x) /\ C!Running(c) /\ UNCHANGED <<configFiles, text, auth, supported, last, rolled>>
  BY DEF C!Migrates, C!Running, C!Where, C!Over, C!Disk, C!Rest
<1>. HIDE DEF x
<1>. QED
  BY <1>1, <1>2, Moves

LEMMA BackupFailsKeeps ==
  ASSUME Named, C!ConfigInv, NEW c \in Commands, C!BackupFails(c)
  PROVE  C!ConfigInv'
<1>. DEFINE x == IF "legacy" \in configFiles THEN "rollback" ELSE "failed"
<1>1. x \in C!Places /\ x \notin {"idle", "write"}
  BY DEF C!Places, C!Reading, C!Over
<1>2. C!Goes(c, x) /\ C!Running(c) /\ UNCHANGED <<configFiles, text, auth, supported, last, rolled>> /\ run[c].at = "rename"
  BY DEF C!BackupFails, C!Running, C!Where, C!Over, C!Disk
<1>3. ~rolled /\ C!HadLegacy => "config" \in configFiles
  BY <1>2 DEF C!ConfigInv, C!LegacyIsCarried
<1>. HIDE DEF x
<1>. QED
  BY <1>1, <1>2, <1>3, Moves

LEMMA CrashKeeps ==
  ASSUME Named, C!ConfigInv, NEW c \in Commands, C!Crash(c)
  PROVE  C!ConfigInv'
<1>1. C!Goes(c, "dead") /\ C!Running(c) /\ UNCHANGED <<configFiles, text, auth, supported, last, rolled>>
  BY DEF C!Crash, C!Running, C!Where, C!Disk
<1>2. "dead" \in C!Places
  BY DEF C!Places, C!Over
<1>. QED
  BY <1>1, <1>2, Moves

\* A record of a command that loads once more.
LEMMA Again ==
  ASSUME NEW r \in C!Runs, NEW w \in Commands \union {C!NoOne}
  PROVE  LET s == [r EXCEPT !.at = "config", !.pass = 2, !.password = w]
         IN  /\ s \in C!Runs /\ s.at = "config" /\ s.found = r.found /\ s.shared = r.shared
             /\ s.pass = 2 /\ s.password = w /\ s.kind = r.kind
<1>. DEFINE s == [r EXCEPT !.at = "config", !.pass = 2, !.password = w]
<1>1. "config" \in C!Places /\ 2 \in 1..2
  BY DEF C!Places, C!Reading
<1>2. s \in C!Runs
  BY <1>1 DEF C!Runs
<1>3. /\ s.at = "config" /\ s.found = r.found /\ s.shared = r.shared
      /\ s.pass = 2 /\ s.password = w /\ s.kind = r.kind
  BY DEF C!Runs
<1>. QED
  BY <1>2, <1>3

\* loadDevspaceFiles() returns: the command edits, asks, starts again or ends.
LEMMA LoadedKeeps ==
  ASSUME Named, C!ConfigInv, NEW c \in Commands, C!Loaded(c), C!Running(c), auth # "torn",
         UNCHANGED <<configFiles, text, auth, supported, last, rolled>>,
         ~rolled /\ C!HadLegacy => "config" \in configFiles
  PROVE  C!ConfigInv'
<1>1. C!TypeOK /\ C!LegacyIsCarried /\ C!FoundIsThere /\ C!PasswordIsThere
  BY DEF C!ConfigInv
<1>2. /\ run \in [Commands -> C!Runs] /\ run[c] \in C!Runs /\ run[c].kind \in C!AllKinds /\ run[c].pass \in 1..2
      /\ run[c].password \in Commands \union {C!NoOne}
      /\ auth \in Commands \union {C!NoOne}
  BY <1>1 DEF C!TypeOK, C!Runs
<1>3. PICK to \in C!Leads(c) :
        run' = [run EXCEPT ![c] =
            CASE to = "init" -> [run[c] EXCEPT !.kind = "init", !.at = "config"]
              [] to = "again" -> [run[c] EXCEPT !.at = "config", !.pass = 2,
                    !.password = IF run[c].password = C!NoOne /\ run[c].kind # "set" THEN C!KeptPassword(c)
                                 ELSE run[c].password]
              [] OTHER -> [run[c] EXCEPT !.at = to]]
  BY DEF C!Loaded
<1>4. /\ to \in {"edit", "done", "unconfigured", "init", "again"}
      /\ to = "again" => run[c].pass = 1 /\ (run[c].kind # "set" => run[c].kind \in {"init", "reinit"})
      /\ to = "init" => run[c].pass = 1
  BY <1>2 DEF C!Leads, C!AllKinds
<1>5. C!KeptPassword(c) \in Commands /\ (auth \in Commands => C!KeptPassword(c) = auth)
  BY <1>2 DEF C!KeptPassword, Named
<1>6. ASSUME NEW r \in C!Runs, run' = [run EXCEPT ![c] = r]
      PROVE  run' \in [Commands -> C!Runs] /\ run'[c] = r /\ \A d \in Commands : d # c => run'[d] = run[d]
  BY <1>2, <1>6
<1>7. /\ run' \in [Commands -> C!Runs]
      /\ run'[c].at \in {"edit", "done", "unconfigured", "config"}
      /\ run'[c].found = run[c].found /\ run'[c].shared = run[c].shared
      /\ \A d \in Commands : d # c => run'[d] = run[d]
      /\ \/ /\ run'[c].pass = run[c].pass /\ run'[c].password = run[c].password
            /\ run'[c].kind = run[c].kind \/ run[c].pass = 1
         \/ /\ run[c].pass = 1 /\ run'[c].pass = 2 /\ run'[c].kind = run[c].kind
            /\ run'[c].password = IF run[c].password = C!NoOne /\ run[c].kind # "set" THEN C!KeptPassword(c)
                                  ELSE run[c].password
  <2>1. CASE to = "init"
    <3>. DEFINE r == [run[c] EXCEPT !.kind = "init", !.at = "config"]
    <3>1. /\ r \in C!Runs /\ r.at = "config" /\ r.found = run[c].found /\ r.shared = run[c].shared
          /\ r.pass = run[c].pass /\ r.password = run[c].password
      BY <1>2 DEF C!Runs, C!AllKinds, C!Places, C!Reading
    <3>2. run' = [run EXCEPT ![c] = r]
      BY <1>3, <2>1
    <3>. HIDE DEF r
    <3>. QED
      BY <1>4, <1>6, <2>1, <3>1, <3>2
  <2>2. CASE to = "again"
    <3>. DEFINE w == IF run[c].password = C!NoOne /\ run[c].kind # "set" THEN C!KeptPassword(c) ELSE run[c].password
                r == [run[c] EXCEPT !.at = "config", !.pass = 2, !.password = w]
    <3>1. w \in Commands \union {C!NoOne}
      BY <1>2, <1>5
    <3>2. run' = [run EXCEPT ![c] = r]
      BY <1>3, <2>2
    <3>3. /\ r \in C!Runs /\ r.at = "config" /\ r.found = run[c].found /\ r.shared = run[c].shared
          /\ r.pass = 2 /\ r.password = w /\ r.kind = run[c].kind
      <4>. HIDE DEF w
      <4>. QED
        BY <1>2, <3>1, Again
    <3>. HIDE DEF r
    <3>. QED
      BY <1>4, <1>6, <2>2, <3>2, <3>3
  <2>3. CASE to \in {"edit", "done", "unconfigured"}
    <3>. DEFINE r == [run[c] EXCEPT !.at = to]
    <3>1. /\ r \in C!Runs /\ r.at = to /\ r.found = run[c].found /\ r.shared = run[c].shared
          /\ r.pass = run[c].pass /\ r.password = run[c].password /\ r.kind = run[c].kind
      BY <1>2, <2>3 DEF C!Runs, C!Places, C!Reading, C!Over
    <3>2. run' = [run EXCEPT ![c] = r]
      BY <1>3, <2>3
    <3>. HIDE DEF r
    <3>. QED
      BY <1>6, <2>3, <3>1, <3>2
  <2>. QED
    BY <1>4, <2>1, <2>2, <2>3
<1>8. C!TypeOK'
  BY <1>1, <1>7 DEF C!TypeOK
<1>9. ~C!Where(c, "write")' /\ ~C!Where(c, "idle")' /\ ~C!Where(c, "idle")
  BY <1>7, PlacesDiffer DEF C!Where
<1>10. "config" \notin configFiles => text = {}
  BY <1>1 DEF C!FoundIsThere
<1>11. (~rolled /\ C!HadLegacy => ("config" \in configFiles => "legacy" \in text) /\ ("legacy" \notin configFiles => "config" \in configFiles))
      /\ (C!HadLegacy' <=> C!HadLegacy)
  BY <1>1 DEF C!LegacyIsCarried, C!HadLegacy
<1>12. /\ run[c].pass = 1 => run[c].password = C!NoOne
       /\ ~run[c].shared /\ run[c].found.auth \in Commands =>
             /\ auth = run[c].found.auth
             /\ run[c].pass = 2 /\ run[c].kind # "set" => run[c].password = run[c].found.auth
  BY <1>1 DEF C!PasswordIsThere
<1>13. /\ run'[c].pass = 1 => run'[c].password = C!NoOne
       /\ ~run[c].shared /\ run[c].found.auth \in Commands /\ run'[c].pass = 2 /\ run'[c].kind # "set"
             => run'[c].password = run[c].found.auth
  BY <1>5, <1>7, <1>12
<1>. QED
  BY <1>7, <1>8, <1>9, <1>10, <1>11, <1>13, OneGoesOn

LEMMA ExistsKeeps ==
  ASSUME Named, C!ConfigInv, NEW c \in Commands, C!Exists(c)
  PROVE  C!ConfigInv'
<1>1. run[c].at = "check" /\ C!Running(c) /\ UNCHANGED <<configFiles, text, auth, supported, last, rolled>>
  BY DEF C!Exists, C!Running, C!Where, C!Over, C!Disk, C!Rest
<1>2. ~rolled /\ C!HadLegacy => "config" \in configFiles
  BY <1>1 DEF C!ConfigInv, C!LegacyIsCarried
<1>3. "read" \in C!Places /\ "failed" \in C!Places
  BY DEF C!Places, C!Reading, C!Over
<1>4. CASE "config" \in configFiles
  <2>1. C!Goes(c, "read")
    BY <1>4 DEF C!Exists
  <2>. QED
    BY <1>1, <1>2, <1>3, <2>1, Moves
<1>5. CASE "config" \notin configFiles /\ auth = "torn"
  <2>1. C!Goes(c, "failed")
    BY <1>5 DEF C!Exists
  <2>. QED
    BY <1>1, <1>3, <2>1, Moves
<1>6. CASE "config" \notin configFiles /\ auth # "torn"
  <2>1. C!Loaded(c)
    BY <1>6 DEF C!Exists
  <2>. QED
    BY <1>1, <1>2, <1>6, <2>1, LoadedKeeps
<1>. QED
  BY <1>4, <1>5, <1>6

LEMMA ReadsKeeps ==
  ASSUME Named, C!ConfigInv, NEW c \in Commands, C!Reads(c)
  PROVE  C!ConfigInv'
<1>1. run[c].at = "read" /\ C!Running(c) /\ UNCHANGED <<configFiles, text, auth, supported, last, rolled>>
  BY DEF C!Reads, C!Running, C!Where, C!Over, C!Disk, C!Rest
<1>2. ~rolled /\ C!HadLegacy => "config" \in configFiles
  BY <1>1 DEF C!ConfigInv, C!LegacyIsCarried
<1>3. "failed" \in C!Places
  BY DEF C!Places, C!Over
<1>4. CASE "config" \notin configFiles \/ auth = "torn"
  <2>1. C!Goes(c, "failed")
    BY <1>4 DEF C!Reads
  <2>. QED
    BY <1>1, <1>3, <2>1, Moves
<1>5. CASE ~("config" \notin configFiles \/ auth = "torn")
  <2>1. C!Loaded(c)
    BY <1>5 DEF C!Reads
  <2>. QED
    BY <1>1, <1>2, <1>5, <2>1, LoadedKeeps
<1>. QED
  BY <1>4, <1>5

LEMMA LinkKeeps ==
  ASSUME Named, C!ConfigInv, NEW c \in Commands, C!Link(c)
  PROVE  C!ConfigInv'
<1>0. "check" \in C!Places /\ "rename" \in C!Places
  BY DEF C!Places, C!Reading
<1>1. run[c].at = "link" /\ C!Running(c) /\ UNCHANGED <<auth, supported, last, rolled>>
  BY DEF C!Link, C!Running, C!Where, C!Over, C!Rest
<1>2. CASE "config" \in configFiles
  <2>1. C!Goes(c, "check") /\ UNCHANGED <<configFiles, text>>
    BY <1>2 DEF C!Link, C!Publishes
  <2>. QED
    BY <1>0, <1>1, <1>2, <2>1, Moves
<1>3. CASE "config" \notin configFiles
  <2>1. C!TypeOK /\ C!LegacyIsCarried /\ C!FoundIsThere /\ C!PasswordIsThere
    BY DEF C!ConfigInv
  <2>2. C!Goes(c, "rename") /\ configFiles' = configFiles \union {"config"} /\ text' = {"legacy"}
    BY <1>3 DEF C!Link, C!Publishes
  <2>3. /\ run' \in [Commands -> C!Runs]
        /\ run'[c].at = "rename" /\ run'[c].kind = run[c].kind /\ run'[c].pass = run[c].pass
        /\ run'[c].password = run[c].password
        /\ run'[c].found = run[c].found /\ run'[c].shared = run[c].shared
        /\ \A d \in Commands : d # c => run'[d] = run[d]
    BY <1>0, <2>1, <2>2, CommandGoes DEF C!TypeOK
  <2>4. C!TypeOK'
    BY <1>1, <2>1, <2>2, <2>3 DEF C!TypeOK, C!Marks
  <2>5. ~C!Where(c, "write")' /\ ~C!Where(c, "idle")' /\ ~C!Where(c, "idle")
    BY <1>1, <2>3, PlacesDiffer DEF C!Where
  <2>6. C!HadLegacy' => C!HadLegacy
    BY <2>2 DEF C!HadLegacy
  <2>7. /\ run'[c].pass = 1 => run'[c].password = C!NoOne
        /\ ~run[c].shared /\ run[c].found.auth \in Commands /\ run'[c].pass = 2 /\ run'[c].kind # "set"
              => run'[c].password = run[c].found.auth
    BY <2>1, <2>3 DEF C!PasswordIsThere
  <2>. QED
    BY <1>1, <1>3, <2>2, <2>3, <2>4, <2>5, <2>6, <2>7, OneGoesOn
<1>. QED
  BY <1>2, <1>3

LEMMA BacksUpKeeps ==
  ASSUME Named, C!ConfigInv, NEW c \in Commands, C!BacksUp(c)
  PROVE  C!ConfigInv'
<1>0. "check" \in C!Places
  BY DEF C!Places, C!Reading
<1>1. /\ run[c].at = "rename" /\ C!Running(c) /\ UNCHANGED <<text, auth, supported, last, rolled>>
      /\ C!Goes(c, "check") /\ configFiles' = (configFiles \ {"legacy"}) \union {"backup"} /\ "legacy" \in configFiles
  BY DEF C!BacksUp, C!Running, C!Where, C!Over, C!Rest
<1>2. C!TypeOK /\ C!LegacyIsCarried /\ C!FoundIsThere /\ C!PasswordIsThere
  BY DEF C!ConfigInv
<1>3. /\ run' \in [Commands -> C!Runs]
      /\ run'[c].at = "check" /\ run'[c].kind = run[c].kind /\ run'[c].pass = run[c].pass
      /\ run'[c].password = run[c].password
      /\ run'[c].found = run[c].found /\ run'[c].shared = run[c].shared
      /\ \A d \in Commands : d # c => run'[d] = run[d]
  BY <1>0, <1>1, <1>2, CommandGoes DEF C!TypeOK
<1>4. C!TypeOK'
  BY <1>1, <1>2, <1>3 DEF C!TypeOK
<1>5. ~C!Where(c, "write")' /\ ~C!Where(c, "idle")' /\ ~C!Where(c, "idle")
  BY <1>1, <1>3, PlacesDiffer DEF C!Where
<1>6. C!HadLegacy /\ (~rolled => "config" \in configFiles /\ "config" \in configFiles' /\ "legacy" \in text)
  BY <1>1, <1>2 DEF C!HadLegacy, C!LegacyIsCarried
<1>7. "config" \notin configFiles' => text = {}
  BY <1>1, <1>2 DEF C!FoundIsThere
<1>8. /\ run'[c].pass = 1 => run'[c].password = C!NoOne
      /\ ~run[c].shared /\ run[c].found.auth \in Commands /\ run'[c].pass = 2 /\ run'[c].kind # "set"
            => run'[c].password = run[c].found.auth
  BY <1>2, <1>3 DEF C!PasswordIsThere
<1>. QED
  BY <1>1, <1>3, <1>4, <1>5, <1>6, <1>7, <1>8, OneGoesOn

LEMMA RollsBackKeeps ==
  ASSUME Named, C!ConfigInv, NEW c \in Commands, C!RollsBack(c)
  PROVE  C!ConfigInv'
<1>0. "failed" \in C!Places
  BY DEF C!Places, C!Over
<1>1. /\ run[c].at = "rollback" /\ C!Running(c) /\ UNCHANGED <<auth, supported, last>>
      /\ C!Goes(c, "failed") /\ configFiles' = configFiles \ {"config"} /\ text' = {} /\ rolled'
  BY DEF C!RollsBack, C!Running, C!Where, C!Over
<1>2. C!TypeOK /\ C!PasswordIsThere
  BY DEF C!ConfigInv
<1>3. /\ run' \in [Commands -> C!Runs]
      /\ run'[c].at = "failed" /\ run'[c].kind = run[c].kind /\ run'[c].pass = run[c].pass
      /\ run'[c].password = run[c].password
      /\ run'[c].found = run[c].found /\ run'[c].shared = run[c].shared
      /\ \A d \in Commands : d # c => run'[d] = run[d]
  BY <1>0, <1>1, <1>2, CommandGoes DEF C!TypeOK
<1>4. C!TypeOK'
  BY <1>1, <1>2, <1>3 DEF C!TypeOK
<1>5. ~C!Where(c, "idle")' /\ ~C!Where(c, "idle")
  BY <1>1, <1>3, PlacesDiffer DEF C!Where
<1>6. /\ run'[c].pass = 1 => run'[c].password = C!NoOne
      /\ ~run[c].shared /\ run[c].found.auth \in Commands /\ run'[c].pass = 2 /\ run'[c].kind # "set"
            => run'[c].password = run[c].found.auth
  BY <1>2, <1>3 DEF C!PasswordIsThere
<1>. QED
  BY <1>1, <1>3, <1>4, <1>5, <1>6, OneGoesOn

LEMMA EditKeeps ==
  ASSUME Named, C!ConfigInv, NEW c \in Commands, C!Edit(c)
  PROVE  C!ConfigInv'
<1>1. run[c].at = "edit" /\ C!Running(c) /\ UNCHANGED <<configFiles, text, auth, supported, last, rolled>>
  BY DEF C!Edit, C!Running, C!Where, C!Over, C!Disk, C!Rest
<1>2. C!TypeOK /\ C!LegacyIsCarried /\ C!FoundIsThere /\ C!PasswordIsThere
  BY DEF C!ConfigInv
<1>3. /\ run' \in [Commands -> C!Runs]
      /\ run'[c].at = "write" /\ run'[c].kind = run[c].kind /\ run'[c].pass = run[c].pass
      /\ run'[c].password = run[c].password /\ run'[c].held = C!Source(c)
      /\ run'[c].found = run[c].found /\ run'[c].shared = run[c].shared
      /\ \A d \in Commands : d # c => run'[d] = run[d]
  <2>1. run \in [Commands -> C!Runs] /\ run[c] \in C!Runs
    BY <1>2 DEF C!TypeOK
  <2>2. C!Source(c) \in SUBSET C!Marks /\ "write" \in C!Places
    BY <1>2 DEF C!Source, C!TypeOK, C!Places
  <2>. DEFINE r == [run[c] EXCEPT !.held = C!Source(c), !.at = "write"]
  <2>3. /\ r \in C!Runs /\ r.at = "write" /\ r.kind = run[c].kind /\ r.pass = run[c].pass
        /\ r.password = run[c].password /\ r.held = C!Source(c)
        /\ r.found = run[c].found /\ r.shared = run[c].shared
    BY <2>1, <2>2 DEF C!Runs
  <2>4. run' = [run EXCEPT ![c] = r]
    BY DEF C!Edit
  <2>. HIDE DEF r
  <2>. QED
    BY <2>1, <2>3, <2>4
<1>4. C!TypeOK'
  BY <1>1, <1>2, <1>3 DEF C!TypeOK
<1>5. ~C!Where(c, "idle")' /\ ~C!Where(c, "idle")
  BY <1>1, <1>3, PlacesDiffer DEF C!Where
<1>6. C!HadLegacy' <=> C!HadLegacy
  BY <1>1 DEF C!HadLegacy
<1>7. ~rolled /\ C!HadLegacy => "config" \in configFiles /\ "legacy" \in text
  BY <1>1, <1>2 DEF C!LegacyIsCarried
<1>8. C!Source(c) = text
  BY <1>2 DEF C!Source, C!FoundIsThere
<1>9. "config" \notin configFiles => text = {}
  BY <1>2 DEF C!FoundIsThere
<1>10. /\ run'[c].pass = 1 => run'[c].password = C!NoOne
       /\ ~run[c].shared /\ run[c].found.auth \in Commands /\ run'[c].pass = 2 /\ run'[c].kind # "set"
             => run'[c].password = run[c].found.auth
  BY <1>2, <1>3 DEF C!PasswordIsThere
<1>. QED
  BY <1>1, <1>3, <1>4, <1>5, <1>6, <1>7, <1>8, <1>9, <1>10, OneGoesOn

LEMMA TruncatesKeeps ==
  ASSUME Named, C!ConfigInv, NEW c \in Commands, C!Truncates(c)
  PROVE  C!ConfigInv'
<1>1. /\ run[c].at = "password" /\ C!Running(c) /\ UNCHANGED <<configFiles, text, run, supported, last, rolled>>
      /\ auth' = "torn"
  BY DEF C!Truncates, C!Running, C!Where, C!Over, C!Rest
<1>2. C!TypeOK /\ C!LegacyIsCarried /\ C!FoundIsThere /\ C!PasswordIsThere
  BY DEF C!ConfigInv
<1>3. C!TypeOK'
  BY <1>1, <1>2 DEF C!TypeOK
<1>4. ~C!Where(c, "idle")' /\ ~C!Where(c, "idle") /\ ~C!Where(c, "write")'
  BY <1>1, PlacesDiffer DEF C!Where
<1>5. C!HadLegacy' <=> C!HadLegacy
  BY <1>1 DEF C!HadLegacy
<1>6. /\ ~rolled /\ C!HadLegacy => ("config" \in configFiles => "legacy" \in text) /\ ("legacy" \notin configFiles => "config" \in configFiles)
      /\ "config" \notin configFiles => text = {}
  BY <1>2 DEF C!LegacyIsCarried, C!FoundIsThere
<1>7. /\ run[c].pass = 1 => run[c].password = C!NoOne
      /\ ~run[c].shared /\ run[c].found.auth \in Commands /\ run[c].pass = 2 /\ run[c].kind # "set"
            => run[c].password = run[c].found.auth
  BY <1>2 DEF C!PasswordIsThere
<1>. QED
  BY <1>1, <1>3, <1>4, <1>5, <1>6, <1>7, OneGoesOn

\* A command has written: those that run beside it share the files from now on.
LEMMA OneWrites ==
  ASSUME C!TypeOK, NEW c \in Commands, NEW x \in C!Places, C!GoesOn(c, x)
  PROVE  /\ run' \in [Commands -> C!Runs]
         /\ run'[c].at = x /\ run'[c].kind = run[c].kind /\ run'[c].pass = run[c].pass
         /\ run'[c].held = run[c].held /\ run'[c].password = run[c].password
         /\ run'[c].found = run[c].found /\ run'[c].shared = run[c].shared
         /\ \A d \in Commands : d # c =>
               /\ run'[d].at = run[d].at /\ run'[d].kind = run[d].kind /\ run'[d].pass = run[d].pass
               /\ run'[d].held = run[d].held /\ run'[d].password = run[d].password
               /\ run'[d].found = run[d].found /\ (C!Running(d) => run'[d].shared)
               /\ ~run'[d].shared => ~run[d].shared
<1>1. run' = [d \in Commands |-> IF d = c THEN [run[c] EXCEPT !.at = x]
                ELSE [run[d] EXCEPT !.shared = run[d].shared \/ run[d].at \notin C!Over \union {"idle"}]]
  BY DEF C!GoesOn
<1>2. \A d \in Commands : run[d] \in C!Runs
  BY DEF C!TypeOK
<1>3. /\ run'[c] = [run[c] EXCEPT !.at = x] /\ run'[c] \in C!Runs
      /\ run'[c].at = x /\ run'[c].kind = run[c].kind /\ run'[c].pass = run[c].pass
      /\ run'[c].held = run[c].held /\ run'[c].password = run[c].password
      /\ run'[c].found = run[c].found /\ run'[c].shared = run[c].shared
  BY <1>1, <1>2 DEF C!Runs
<1>4. ASSUME NEW d \in Commands, d # c
      PROVE  /\ run'[d] \in C!Runs
             /\ run'[d].at = run[d].at /\ run'[d].kind = run[d].kind /\ run'[d].pass = run[d].pass
             /\ run'[d].held = run[d].held /\ run'[d].password = run[d].password
             /\ run'[d].found = run[d].found /\ (C!Running(d) => run'[d].shared)
             /\ ~run'[d].shared => ~run[d].shared
  <2>. DEFINE b == run[d].shared \/ run[d].at \notin C!Over \union {"idle"}
  <2>1. run'[d] = [run[d] EXCEPT !.shared = b] /\ b \in BOOLEAN
    BY <1>1, <1>4
  <2>2. (C!Running(d) => b) /\ (~b => ~run[d].shared)
    BY DEF C!Running
  <2>. HIDE DEF b
  <2>3. run'[d] \in C!Runs
    BY <1>2, <2>1 DEF C!Runs
  <2>4. /\ run'[d].at = run[d].at /\ run'[d].kind = run[d].kind /\ run'[d].pass = run[d].pass
        /\ run'[d].held = run[d].held /\ run'[d].password = run[d].password
        /\ run'[d].found = run[d].found /\ run'[d].shared = b
    BY <1>2, <2>1 DEF C!Runs
  <2>. QED
    BY <2>2, <2>3, <2>4
<1>5. run' \in [Commands -> C!Runs]
  <2>1. \A d \in Commands : run'[d] \in C!Runs
    BY <1>3, <1>4
  <2>. QED
    BY <1>1, <2>1
<1>. QED
  BY <1>3, <1>4, <1>5

LEMMA AtomicWriteKeeps ==
  ASSUME Named, C!ConfigInv, NEW c \in Commands, C!AtomicWrite(c)
  PROVE  C!ConfigInv'
<1>. DEFINE x == IF run[c].kind = "set" THEN "done" ELSE "password"
<1>1. /\ run[c].at = "write" /\ C!Running(c) /\ UNCHANGED <<auth, supported, rolled>>
      /\ configFiles' = configFiles \union {"config"} /\ text' = run[c].held \union {c} /\ last' = c
      /\ C!GoesOn(c, x) /\ x \in C!Places /\ x \in {"done", "password"}
  BY DEF C!AtomicWrite, C!Running, C!Where, C!Over, C!Places
<1>. HIDE DEF x
<1>2. C!TypeOK /\ C!LegacyIsCarried /\ C!FoundIsThere /\ C!PasswordIsThere
  BY DEF C!ConfigInv
<1>3. /\ run' \in [Commands -> C!Runs]
      /\ run'[c].at = x /\ run'[c].kind = run[c].kind /\ run'[c].pass = run[c].pass
      /\ run'[c].held = run[c].held /\ run'[c].password = run[c].password
      /\ run'[c].found = run[c].found /\ run'[c].shared = run[c].shared
      /\ \A d \in Commands : d # c =>
            /\ run'[d].at = run[d].at /\ run'[d].kind = run[d].kind /\ run'[d].pass = run[d].pass
            /\ run'[d].held = run[d].held /\ run'[d].password = run[d].password
            /\ run'[d].found = run[d].found /\ (C!Running(d) => run'[d].shared)
            /\ ~run'[d].shared => ~run[d].shared
  BY <1>1, <1>2, OneWrites
<1>4. run[c].held \in SUBSET C!Marks
  <2>1. run[c] \in C!Runs
    BY <1>2 DEF C!TypeOK
  <2>. QED
    BY <2>1 DEF C!Runs
<1>5. C!TypeOK'
  BY <1>1, <1>2, <1>3, <1>4 DEF C!TypeOK, C!Marks
<1>6. C!LegacyIsCarried'
  <2>. SUFFICES ASSUME ~rolled', C!HadLegacy' PROVE C!LegacyIsCarried'
    BY DEF C!LegacyIsCarried
  <2>1. ~rolled /\ C!HadLegacy
    BY <1>1 DEF C!HadLegacy
  <2>2. "legacy" \in run[c].held
    BY <1>1, <1>2, <2>1 DEF C!LegacyIsCarried, C!Where
  <2>3. ASSUME NEW d \in Commands, run'[d].at = "write" PROVE "legacy" \in run'[d].held
    BY <1>1, <1>2, <1>3, <2>1, <2>3 DEF C!LegacyIsCarried, C!Where
  <2>. QED
    BY <1>1, <2>2, <2>3 DEF C!LegacyIsCarried, C!Where
<1>7. C!FoundIsThere'
  <2>1. ASSUME ~rolled, ~run[c].shared PROVE run[c].found.text \subseteq run[c].held
    BY <1>1, <1>2, <2>1 DEF C!FoundIsThere, C!Where
  <2>2. ASSUME NEW d \in Commands, d # c, run'[d].at \notin C!Over \union {"idle"} PROVE run'[d].shared
    BY <1>3, <2>2 DEF C!Running
  <2>3. run'[c].at # "idle" /\ run'[c].at # "write"
    BY <1>1, <1>3
  <2>. QED
    BY <1>1, <1>3, <2>1, <2>2, <2>3 DEF C!FoundIsThere, C!Running, C!Where
<1>8. C!PasswordIsThere'
  <2>1. ASSUME NEW d \in Commands, ~run'[d].shared, run'[d].found.auth \in Commands, run'[d].at \notin C!Over \union {"idle"}
        PROVE  auth' \in {run'[d].found.auth, "torn"}
    <3>1. d = c
      BY <1>3, <2>1 DEF C!Running
    <3>. QED
      BY <1>1, <1>2, <1>3, <2>1, <3>1 DEF C!PasswordIsThere
  <2>2. ASSUME NEW d \in Commands
        PROVE  /\ run'[d].pass = 1 => run'[d].password = C!NoOne
               /\ ~run'[d].shared /\ run'[d].found.auth \in Commands /\ run'[d].pass = 2 /\ run'[d].kind # "set"
                     => run'[d].password = run'[d].found.auth
    BY <1>2, <1>3, <2>2 DEF C!PasswordIsThere
  <2>. QED
    BY <2>1, <2>2 DEF C!PasswordIsThere, C!Running
<1>. QED
  BY <1>5, <1>6, <1>7, <1>8 DEF C!ConfigInv

LEMMA WritesAuthKeeps ==
  ASSUME Named, C!ConfigInv, NEW c \in Commands, C!WritesAuth(c)
  PROVE  C!ConfigInv'
<1>1. /\ run[c].at = "password" /\ C!Running(c) /\ UNCHANGED <<configFiles, text, supported, last, rolled>>
      /\ auth' = run[c].password /\ C!GoesOn(c, "done") /\ "done" \in C!Places
  BY DEF C!WritesAuth, C!Running, C!Where, C!Over, C!Places, C!Rest
<1>2. C!TypeOK /\ C!LegacyIsCarried /\ C!FoundIsThere /\ C!PasswordIsThere
  BY DEF C!ConfigInv
<1>3. /\ run' \in [Commands -> C!Runs]
      /\ run'[c].at = "done" /\ run'[c].kind = run[c].kind /\ run'[c].pass = run[c].pass
      /\ run'[c].held = run[c].held /\ run'[c].password = run[c].password
      /\ run'[c].found = run[c].found /\ run'[c].shared = run[c].shared
      /\ \A d \in Commands : d # c =>
            /\ run'[d].at = run[d].at /\ run'[d].kind = run[d].kind /\ run'[d].pass = run[d].pass
            /\ run'[d].held = run[d].held /\ run'[d].password = run[d].password
            /\ run'[d].found = run[d].found /\ (C!Running(d) => run'[d].shared)
            /\ ~run'[d].shared => ~run[d].shared
  BY <1>1, <1>2, OneWrites
<1>4. run[c].password \in Commands \union {C!NoOne}
  <2>1. run[c] \in C!Runs
    BY <1>2 DEF C!TypeOK
  <2>. QED
    BY <2>1 DEF C!Runs
<1>5. C!TypeOK'
  BY <1>1, <1>2, <1>3, <1>4 DEF C!TypeOK
<1>6. C!LegacyIsCarried'
  <2>1. C!HadLegacy' <=> C!HadLegacy
    BY <1>1 DEF C!HadLegacy
  <2>2. ASSUME NEW d \in Commands
        PROVE  (run'[d].at = run[d].at /\ run'[d].held = run[d].held) \/ run'[d].at = "done"
    BY <1>3
  <2>. QED
    BY <1>1, <1>2, <2>1, <2>2 DEF C!LegacyIsCarried, C!Where
<1>7. C!FoundIsThere'
  <2>1. ASSUME NEW d \in Commands, run'[d].at \notin C!Over \union {"idle"} PROVE run'[d].shared
    <3>1. d # c
      BY <1>3, <2>1 DEF C!Over
    <3>. QED
      BY <1>3, <2>1, <3>1 DEF C!Running
  <2>2. ASSUME ~rolled', last' # C!NoOne
        PROVE  /\ "config" \in configFiles' /\ ~C!Where(last, "idle")'
               /\ ~run'[last'].shared => {last'} \union run'[last'].found.text \subseteq text'
    <3>1. /\ ~rolled /\ last \in Commands /\ "config" \in configFiles /\ ~C!Where(last, "idle")
          /\ ~run[last].shared => {last} \union run[last].found.text \subseteq text
      BY <1>1, <1>2, <2>2 DEF C!FoundIsThere, C!TypeOK
    <3>2. /\ run'[last].found = run[last].found /\ (~run'[last].shared => ~run[last].shared)
          /\ run'[last].at # "idle"
      BY <1>3, <3>1 DEF C!Where
    <3>. QED
      BY <1>1, <3>1, <3>2 DEF C!Where
  <2>. QED
    BY <1>1, <1>2, <2>1, <2>2 DEF C!FoundIsThere, C!Running
<1>8. C!PasswordIsThere'
  <2>1. ASSUME NEW d \in Commands, run'[d].at \notin C!Over \union {"idle"} PROVE run'[d].shared
    <3>1. d # c
      BY <1>3, <2>1 DEF C!Over
    <3>. QED
      BY <1>3, <2>1, <3>1 DEF C!Running
  <2>2. ASSUME NEW d \in Commands
        PROVE  /\ run'[d].pass = 1 => run'[d].password = C!NoOne
               /\ ~run'[d].shared /\ run'[d].found.auth \in Commands /\ run'[d].pass = 2 /\ run'[d].kind # "set"
                     => run'[d].password = run'[d].found.auth
    BY <1>2, <1>3, <2>2 DEF C!PasswordIsThere
  <2>. QED
    BY <2>1, <2>2 DEF C!PasswordIsThere, C!Running
<1>. QED
  BY <1>5, <1>6, <1>7, <1>8 DEF C!ConfigInv

\* The record of a command that starts.
LEMMA Started ==
  ASSUME NEW i \in C!Runs, i.pass = 1, i.password = C!NoOne, ~i.shared, NEW kind \in C!AllKinds, "config" \in C!Places,
         text \in SUBSET C!Marks, auth \in Commands \union {C!NoOne, "torn"}
  PROVE  LET r == [i EXCEPT !.kind = kind, !.at = "config", !.found = [text |-> text, auth |-> auth]]
         IN  /\ r \in C!Runs /\ r.at = "config" /\ r.pass = 1 /\ r.password = C!NoOne /\ ~r.shared
             /\ r.found.text = text /\ r.found.auth = auth
  BY DEF C!Runs

LEMMA StartsKeeps ==
  ASSUME Named, \A c \in Commands : Kinds[c] \subseteq C!AllKinds,
         C!ConfigInv, NEW c \in Commands, NEW kind \in Kinds[c], C!Starts(c, kind)
  PROVE  C!ConfigInv'
<1>. DEFINE r == [C!Idle EXCEPT !.kind = kind, !.at = "config", !.found = [text |-> text, auth |-> auth]]
<1>1. /\ run[c].at = "idle" /\ UNCHANGED <<configFiles, text, auth, supported, last, rolled>>
      /\ run' = [run EXCEPT ![c] = r]
  BY DEF C!Starts, C!Where, C!Disk, C!Rest
<1>2. C!TypeOK /\ C!LegacyIsCarried /\ C!FoundIsThere /\ C!PasswordIsThere
  BY DEF C!ConfigInv
<1>3. /\ r \in C!Runs /\ r.at = "config" /\ r.pass = 1 /\ r.password = C!NoOne /\ ~r.shared
      /\ r.found.text = text /\ r.found.auth = auth
  <2>1. kind \in C!AllKinds /\ "config" \in C!Places
    BY DEF C!Places, C!Reading
  <2>2. C!Idle \in C!Runs /\ C!Idle.pass = 1 /\ C!Idle.password = C!NoOne /\ ~C!Idle.shared
    BY DEF C!Idle, C!Runs, C!AllKinds, C!Places, C!NoOne
  <2>3. text \in SUBSET C!Marks /\ auth \in Commands \union {C!NoOne, "torn"}
    BY <1>2 DEF C!TypeOK
  <2>. QED
    BY <2>1, <2>2, <2>3, Started
<1>. HIDE DEF r
<1>4. /\ run' \in [Commands -> C!Runs] /\ run'[c] = r
      /\ \A d \in Commands : d # c => run'[d] = run[d]
  BY <1>1, <1>2, <1>3 DEF C!TypeOK
<1>5. C!TypeOK'
  BY <1>1, <1>2, <1>4 DEF C!TypeOK
<1>6. C!LegacyIsCarried'
  <2>1. C!HadLegacy' <=> C!HadLegacy
    BY <1>1 DEF C!HadLegacy
  <2>2. ASSUME NEW d \in Commands
        PROVE  run'[d] = run[d] \/ run'[d].at = "config"
    BY <1>3, <1>4
  <2>. QED
    BY <1>1, <1>2, <2>1, <2>2 DEF C!LegacyIsCarried, C!Where
<1>7. C!FoundIsThere'
  <2>1. ASSUME ~rolled', NEW d \in Commands, run'[d].at \notin C!Over \union {"idle"}, ~run'[d].shared
        PROVE  run'[d].found.text \subseteq text' /\ (C!Where(d, "write")' => run'[d].found.text \subseteq run'[d].held)
    <3>1. CASE d = c
      BY <1>1, <1>3, <1>4, <3>1 DEF C!Where
    <3>2. CASE d # c
      BY <1>1, <1>2, <1>4, <2>1, <3>2 DEF C!FoundIsThere, C!Where, C!Running
    <3>. QED
      BY <3>1, <3>2
  <2>2. ASSUME ~rolled', last' # C!NoOne
        PROVE  /\ "config" \in configFiles' /\ ~C!Where(last, "idle")'
               /\ ~run'[last'].shared => {last'} \union run'[last'].found.text \subseteq text'
    <3>1. /\ ~rolled /\ last \in Commands /\ "config" \in configFiles /\ ~C!Where(last, "idle")
          /\ ~run[last].shared => {last} \union run[last].found.text \subseteq text
      BY <1>1, <1>2, <2>2 DEF C!FoundIsThere, C!TypeOK
    <3>2. run'[last] = run[last]
      BY <1>1, <1>4, <3>1 DEF C!Where
    <3>. QED
      BY <1>1, <3>1, <3>2 DEF C!Where
  <2>. QED
    BY <1>1, <1>2, <2>1, <2>2 DEF C!FoundIsThere, C!Running
<1>8. C!PasswordIsThere'
  <2>1. ASSUME NEW d \in Commands, ~run'[d].shared, run'[d].found.auth \in Commands, run'[d].at \notin C!Over \union {"idle"}
        PROVE  auth' \in {run'[d].found.auth, "torn"}
    <3>1. CASE d = c
      BY <1>1, <1>3, <1>4, <3>1
    <3>2. CASE d # c
      BY <1>1, <1>2, <1>4, <2>1, <3>2 DEF C!PasswordIsThere, C!Running
    <3>. QED
      BY <3>1, <3>2
  <2>2. ASSUME NEW d \in Commands
        PROVE  /\ run'[d].pass = 1 => run'[d].password = C!NoOne
               /\ ~run'[d].shared /\ run'[d].found.auth \in Commands /\ run'[d].pass = 2 /\ run'[d].kind # "set"
                     => run'[d].password = run'[d].found.auth
    BY <1>2, <1>3, <1>4, <2>2 DEF C!PasswordIsThere
  <2>. QED
    BY <2>1, <2>2 DEF C!PasswordIsThere, C!Running
<1>. QED
  BY <1>5, <1>6, <1>7, <1>8 DEF C!ConfigInv


LEMMA CommandKeeps ==
  ASSUME Named, \A c \in Commands : Kinds[c] \subseteq C!AllKinds,
         C!ConfigInv, NEW c \in Commands, C!Command(c)
  PROVE  C!ConfigInv'
<1>1. ASSUME NEW kind \in Kinds[c], C!Starts(c, kind) PROVE C!ConfigInv'
  BY <1>1, StartsKeeps
<1>2. CASE C!ConfigAsked(c)
  BY <1>2, ConfigAskedKeeps
<1>3. CASE C!LegacyAsked(c)
  BY <1>3, LegacyAskedKeeps
<1>4. CASE C!BackupAsked(c)
  BY <1>4, BackupAskedKeeps
<1>5. CASE C!Migrates(c)
  BY <1>5, MigratesKeeps
<1>6. CASE C!Link(c)
  BY <1>6, LinkKeeps
<1>7. CASE C!BacksUp(c)
  BY <1>7, BacksUpKeeps
<1>8. CASE C!BackupFails(c)
  BY <1>8, BackupFailsKeeps
<1>9. CASE C!RollsBack(c)
  BY <1>9, RollsBackKeeps
<1>10. CASE C!Exists(c)
  BY <1>10, ExistsKeeps
<1>11. CASE C!Reads(c)
  BY <1>11, ReadsKeeps
<1>12. CASE C!Edit(c)
  BY <1>12, EditKeeps
<1>13. CASE C!AtomicWrite(c)
  BY <1>13, AtomicWriteKeeps
<1>14. CASE C!Truncates(c)
  BY <1>14, TruncatesKeeps
<1>15. CASE C!WritesAuth(c)
  BY <1>15, WritesAuthKeeps
<1>16. CASE C!Crash(c)
  BY <1>16, CrashKeeps
<1>. QED
  BY <1>1, <1>2, <1>3, <1>4, <1>5, <1>6, <1>7, <1>8, <1>9, <1>10, <1>11, <1>12, <1>13, <1>14, <1>15, <1>16
  DEF C!Command

LEMMA ConfigBegins ==
  ASSUME Named, C!Init
  PROVE  C!ConfigInv
<1>1. C!Idle \in C!Runs /\ C!Idle.at = "idle" /\ C!Idle.pass = 1 /\ C!Idle.password = C!NoOne
      /\ C!Idle.found.auth = C!NoOne
  BY DEF C!Idle, C!Runs, C!AllKinds, C!Places, C!NoOne
<1>2. /\ configFiles \in {{}, {"legacy"}, {"legacy", "backup"}, {"config"}} /\ text = {} /\ auth = C!NoOne
      /\ run \in [Commands -> C!Runs] /\ \A c \in Commands : run[c] = C!Idle
      /\ last = C!NoOne
  BY <1>1 DEF C!Init
<1>3. C!TypeOK
  BY <1>2 DEF C!TypeOK, C!Marks
<1>4. C!LegacyIsCarried
  <2>1. \A c \in Commands : run[c].at = "idle"
    BY <1>1, <1>2
  <2>2. C!HadLegacy => "config" \notin configFiles /\ "legacy" \in configFiles
    BY <1>2 DEF C!HadLegacy
  <2>. QED
    BY <2>1, <2>2 DEF C!LegacyIsCarried, C!Where
<1>5. C!FoundIsThere
  BY <1>1, <1>2 DEF C!FoundIsThere, C!Running
<1>6. C!PasswordIsThere
  BY <1>1, <1>2 DEF C!PasswordIsThere, C!Running, Named
<1>. QED
  BY <1>3, <1>4, <1>5, <1>6 DEF C!ConfigInv

\* Whatever commands run at once, fail and are killed: what the legacy configuration said and
\* what a command found are in the files until another writes (config-migration.ts,
\* user-config.ts).
THEOREM ConfigIsCarried ==
  ASSUME Named, \A c \in Commands : Kinds[c] \subseteq C!AllKinds
  PROVE  C!Spec => []C!ConfigInv
<1>1. C!Init => C!ConfigInv
  BY ConfigBegins
<1>2. C!ConfigInv /\ [C!Next]_(C!vars) => C!ConfigInv'
  <2>1. ASSUME C!ConfigInv, NEW c \in Commands, C!Command(c) PROVE C!ConfigInv'
    BY <2>1, CommandKeeps
  <2>2. ASSUME C!ConfigInv, UNCHANGED C!vars PROVE C!ConfigInv'
    <3>1. C!TypeOK /\ C!LegacyIsCarried /\ C!FoundIsThere /\ C!PasswordIsThere
      BY <2>2 DEF C!ConfigInv
    <3>2. UNCHANGED <<configFiles, text, auth, supported, run, last, rolled>>
      BY <2>2 DEF C!vars
    <3>3. C!TypeOK'
      BY <3>1, <3>2 DEF C!TypeOK
    <3>4. C!LegacyIsCarried'
      BY <3>1, <3>2 DEF C!LegacyIsCarried, C!HadLegacy, C!Where
    <3>5. C!FoundIsThere'
      BY <3>1, <3>2 DEF C!FoundIsThere, C!Running, C!Where
    <3>6. C!PasswordIsThere'
      BY <3>1, <3>2 DEF C!PasswordIsThere, C!Running
    <3>. QED
      BY <3>3, <3>4, <3>5, <3>6 DEF C!ConfigInv
  <2>. QED
    BY <2>1, <2>2 DEF C!Next
<1>. QED
  BY <1>1, <1>2, PTL DEF C!Spec

\* No command loses what the migrated configuration said, an edit made before it, or the
\* password that was there (user-config.ts: setDevspaceConfigValues, config-migration.ts).
THEOREM CommandsKeepConfig ==
  ASSUME Named, \A c \in Commands : Kinds[c] \subseteq C!AllKinds
  PROVE  C!Spec => []C!ConfigIsKept
<1>1. C!ConfigInv => C!ConfigIsKept
  <2>. SUFFICES ASSUME C!ConfigInv PROVE C!ConfigIsKept
    OBVIOUS
  <2>1. C!LegacyIsCarried /\ C!FoundIsThere /\ C!PasswordIsThere
    BY DEF C!ConfigInv
  <2>2. C!MigratedIsKept
    BY <2>1 DEF C!LegacyIsCarried, C!HadLegacy, C!MigratedIsKept
  <2>3. C!EditsAddUp
    BY <2>1 DEF C!FoundIsThere, C!EditsAddUp
  <2>4. C!OnePassword
    BY <2>1 DEF C!PasswordIsThere, C!OnePassword, C!Written
  <2>. QED
    BY <2>2, <2>3, <2>4 DEF C!ConfigIsKept
<1>. QED
  BY <1>1, ConfigIsCarried, PTL

(***************************************************************************)
(* download_artifact (Artifacts): what a download reports is the whole     *)
(* file, and it leaves everything else alone.  `linked' and `sources' are  *)
(* the component's `names' and `read'.                                     *)
(***************************************************************************)
\* A path that is accepted names one file of the directory.
OneDirectory == \A path \in Paths : D!Acceptable(path) => D!Normal(path) \in D!Singles

Working == D!Over \union D!Fetches \union D!Prepares \union D!Holding

LEMMA DownloadIsTyped ==
  ASSUME D!TypeOK, NEW d \in Downloads
  PROVE  /\ dl[d] \in Working
         /\ dl[d].step = "fetch" => dl[d] \in D!Fetches
         /\ dl[d].step \in {"prepare", "create"} => dl[d] \in D!Prepares
         /\ D!Holds(d) => dl[d] \in D!Holding
<1>1. dl[d] \in Working
  BY DEF D!TypeOK, Working
<1>. QED
  BY <1>1 DEF Working, D!Over, D!Fetches, D!Prepares, D!Holding, D!Holds

LEMMA HoldingIsTyped ==
  ASSUME NEW t \in D!Holding
  PROVE  t.name \in D!Singles /\ t.said \in D!Sizes /\ t.file \in Nat /\ t.size \in Nat
BY DEF D!Holding

\* A download goes on with its file.
LEMMA StepsOn ==
  ASSUME D!TypeOK, NEW d \in Downloads, D!Holds(d), NEW s \in {"stream", "publish", "check", "done"}, D!Steps(d, s)
  PROVE  \E t \in D!Holding : /\ dl' = [dl EXCEPT ![d] = t] /\ t.step = s /\ t.name = dl[d].name
                              /\ t.said = dl[d].said /\ t.file = dl[d].file /\ t.size = dl[d].size
<1>. DEFINE t == [dl[d] EXCEPT !.step = s]
<1>1. dl[d] \in D!Holding
  BY DownloadIsTyped
<1>2. /\ t \in D!Holding /\ t.step = s /\ t.name = dl[d].name
      /\ t.said = dl[d].said /\ t.file = dl[d].file /\ t.size = dl[d].size
  BY <1>1 DEF D!Holding
<1>3. dl' = [dl EXCEPT ![d] = t]
  BY DEF D!Steps
<1>. HIDE DEF t
<1>. QED
  BY <1>2, <1>3

\* One download steps, and what it does to files and partials it does to its own, but for old ones.
LEMMA DownloadSteps ==
  ASSUME D!DownloadInv, NEW d \in Downloads, NEW t \in Working, dl' = [dl EXCEPT ![d] = t],
         files' \in Seq(D!Files), linked' \in [FileNames -> Nat], partials' \in [Downloads -> Nat], left' \in D!Lefts,
         others' = others,
         \A i \in DOMAIN files : i \in DOMAIN files' /\ files'[i].by = files[i].by
                                 /\ (files[i].by # d => files'[i] = files[i]),
         t.step \in {"stream", "publish", "check", "done"} =>
            /\ t.file \in DOMAIN files' /\ files'[t.file].by = d /\ files'[t.file].chunks = t.size
            /\ t.step # "stream" => t.said \in {Unsaid, t.size},
         t.step = "fetch" => t.host \in Trusted,
         sources' \subseteq Trusted,
         \A p \in Downloads \ {d} : partials'[p] # 0 => partials'[p] = partials[p],
         \A p \in Downloads : partials'[p] # 0 /\ p \in left.any => p \in left'.any,
         partials'[d] # 0 => t.step \in {"stream", "publish", "check"} \/ d \in left'.any
  PROVE  D!DownloadInv'
<1>1. /\ D!TypeOK /\ D!FilesAreOwn /\ D!OnlyTrustedAreAsked /\ D!PartialsAreRemoved
  BY DEF D!DownloadInv
<1>2. /\ dl' \in [Downloads -> Working] /\ dl'[d] = t /\ \A p \in Downloads : p # d => dl'[p] = dl[p]
  BY <1>1 DEF D!TypeOK, Working
<1>3. D!TypeOK'
  BY <1>1, <1>2 DEF D!TypeOK, Working
<1>4. D!FilesAreOwn'
  BY <1>1, <1>2 DEF D!FilesAreOwn, D!Holds
<1>5. D!OnlyTrustedAreAsked' /\ D!OnlyTrustedAreRead'
  BY <1>1, <1>2 DEF D!OnlyTrustedAreAsked, D!OnlyTrustedAreRead
<1>6. D!PartialsAreRemoved'
  BY <1>1, <1>2 DEF D!PartialsAreRemoved, D!AllPartials
<1>. QED
  BY <1>3, <1>4, <1>5, <1>6 DEF D!DownloadInv

\* Something else happens, and no download steps, or it is cut.
LEMMA OthersStep ==
  ASSUME D!DownloadInv, files' \in Seq(D!Files), \A i \in DOMAIN files : i \in DOMAIN files' /\ files'[i] = files[i],
         linked' \in [FileNames -> Nat], partials' \in [Downloads -> Nat], others' \in Nat, left' \in D!Lefts,
         UNCHANGED sources,
         dl' \in [Downloads -> Working],
         \A p \in Downloads : dl'[p] = dl[p] \/ dl'[p].step = "none",
         \A p \in Downloads : partials'[p] # 0 => partials[p] # 0,
         \A p \in Downloads : partials'[p] # 0 => p \in left'.any \/ (dl'[p] = dl[p] /\ p \notin left.any)
  PROVE  D!DownloadInv'
<1>1. /\ D!TypeOK /\ D!FilesAreOwn /\ D!OnlyTrustedAreAsked /\ D!PartialsAreRemoved /\ D!OnlyTrustedAreRead
  BY DEF D!DownloadInv
<1>2. D!TypeOK'
  BY <1>1 DEF D!TypeOK, Working
<1>3. D!FilesAreOwn'
  BY <1>1 DEF D!FilesAreOwn, D!Holds
<1>4. D!OnlyTrustedAreAsked' /\ D!OnlyTrustedAreRead'
  BY <1>1 DEF D!OnlyTrustedAreAsked, D!OnlyTrustedAreRead
<1>5. D!PartialsAreRemoved'
  BY <1>1 DEF D!PartialsAreRemoved, D!AllPartials
<1>. QED
  BY <1>2, <1>3, <1>4, <1>5 DEF D!DownloadInv

\* A step of a download that gives up no partial but its own, and that to end, spares others.
LEMMA StepSpares ==
  ASSUME NEW d \in Downloads, \A n \in FileNames : linked[n] # 0 => linked'[n] = linked[n],
         \A p \in Downloads \ {d} : partials'[p] = partials[p] \/ p \in left.old,
         \/ partials'[d] # 0 \/ dl'[d].step # dl[d].step \/ partials'[d] = partials[d] \/ d \in left.old
  PROVE  D!SparesOthers
BY DEF D!SparesOthers, D!OverwritesNothing, D!KeepsPartials

LEMMA DownloadAsks ==
  ASSUME OneDirectory, D!DownloadInv, NEW d \in Downloads, NEW path \in Paths, NEW host \in Hosts, D!Ask(d, path, host)
  PROVE  D!DownloadInv' /\ D!SparesOthers
<1>. DEFINE ok == D!Acceptable(path) /\ host \in Trusted
            t == IF ok THEN [step |-> "fetch", name |-> D!Normal(path), host |-> host, hops |-> 0]
                 ELSE [step |-> "failed"]
<1>1. /\ dl' = [dl EXCEPT ![d] = t] /\ dl[d].step \in {"none", "failed"} /\ d \notin left.any
      /\ UNCHANGED <<files, linked, partials, left, sources, others>>
  BY DEF D!Ask
<1>2. /\ D!TypeOK /\ D!PartialsAreRemoved /\ D!OnlyTrustedAreRead
  BY DEF D!DownloadInv
<1>3. t \in Working /\ t.step \in {"fetch", "failed"} /\ (t.step = "fetch" => t.host \in Trusted)
  <2>1. CASE ok
    <3>1. D!Normal(path) \in D!Singles
      BY <2>1 DEF OneDirectory
    <3>. QED
      BY <2>1, <3>1 DEF Working, D!Fetches
  <2>2. CASE ~ ok
    BY <2>2 DEF Working, D!Over
  <2>. QED
    BY <2>1, <2>2
<1>. HIDE DEF t
<1>4. partials[d] = 0
  BY <1>1, <1>2 DEF D!PartialsAreRemoved, D!AllPartials
<1>5. D!DownloadInv'
  BY <1>1, <1>2, <1>3, <1>4, DownloadSteps DEF D!TypeOK, D!OnlyTrustedAreRead
<1>6. D!SparesOthers
  BY <1>1, StepSpares
<1>. QED
  BY <1>5, <1>6

LEMMA DownloadIsRedirected ==
  ASSUME D!DownloadInv, NEW d \in Downloads, NEW host \in Hosts, D!Redirect(d, host)
  PROVE  D!DownloadInv' /\ D!SparesOthers
<1>. DEFINE ok == ~(dl[d].hops = OPENAI_FILE_REDIRECT_LIMIT \/ host \notin Trusted)
            t == IF ok THEN [step |-> "fetch", name |-> dl[d].name, host |-> host, hops |-> dl[d].hops + 1]
                 ELSE [step |-> "failed"]
<1>1. /\ D!TypeOK /\ D!PartialsAreRemoved /\ D!OnlyTrustedAreRead
  BY DEF D!DownloadInv
<1>2. /\ dl' = [dl EXCEPT ![d] = t] /\ dl[d].step = "fetch"
      /\ UNCHANGED <<files, linked, partials, left, sources, others>>
  BY <1>1 DEF D!Redirect, D!TypeOK
<1>3. t \in Working /\ t.step \in {"fetch", "failed"} /\ (t.step = "fetch" => t.host \in Trusted)
  <2>1. CASE ok
    <3>1. dl[d].name \in D!Singles /\ dl[d].hops \in Nat
      BY <1>1, <1>2, DownloadIsTyped DEF D!Fetches
    <3>. QED
      BY <2>1, <3>1 DEF Working, D!Fetches
  <2>2. CASE ~ ok
    BY <2>2 DEF Working, D!Over
  <2>. QED
    BY <2>1, <2>2
<1>. HIDE DEF t
<1>4. partials[d] # 0 => d \in left.any
  BY <1>1, <1>2 DEF D!PartialsAreRemoved, D!AllPartials
<1>5. D!DownloadInv'
  BY <1>1, <1>2, <1>3, <1>4, DownloadSteps DEF D!TypeOK, D!OnlyTrustedAreRead
<1>6. D!SparesOthers
  BY <1>2, StepSpares
<1>. QED
  BY <1>5, <1>6

LEMMA DownloadIsAnswered ==
  ASSUME D!DownloadInv, NEW d \in Downloads, NEW size \in {Unsaid} \union 0..(MaxChunks + 1),
         NEW referred \in {Unsaid} \union 0..(MaxChunks + 1), D!Respond(d, size, referred)
  PROVE  D!DownloadInv' /\ D!SparesOthers
<1>. DEFINE said == IF size # Unsaid THEN size ELSE referred
            bad == \/ size # Unsaid /\ referred # Unsaid /\ size # referred
                   \/ said # Unsaid /\ said > MaxChunks
            t == IF bad THEN [step |-> "failed"] ELSE [step |-> "prepare", name |-> dl[d].name, said |-> said]
<1>1. /\ D!TypeOK /\ D!PartialsAreRemoved /\ D!OnlyTrustedAreRead /\ D!OnlyTrustedAreAsked
  BY DEF D!DownloadInv
<1>2. /\ dl' = [dl EXCEPT ![d] = t] /\ dl[d].step = "fetch" /\ sources' = sources \union {dl[d].host}
      /\ UNCHANGED <<files, linked, partials, left, others>>
  BY <1>1 DEF D!Respond, D!TypeOK
<1>3. said \in D!Sizes
  BY DEF D!Sizes
<1>4. t \in Working /\ t.step \in {"prepare", "failed"}
  <2>. HIDE DEF said, bad
  <2>1. dl[d].name \in D!Singles
    BY <1>1, <1>2, DownloadIsTyped DEF D!Fetches
  <2>. QED
    BY <1>3, <2>1 DEF Working, D!Over, D!Prepares
<1>. HIDE DEF t
<1>5. partials[d] # 0 => d \in left.any
  BY <1>1, <1>2 DEF D!PartialsAreRemoved, D!AllPartials
<1>6. sources' \subseteq Trusted
  BY <1>1, <1>2 DEF D!OnlyTrustedAreRead, D!OnlyTrustedAreAsked
<1>7. D!DownloadInv'
  BY <1>1, <1>2, <1>4, <1>5, <1>6, DownloadSteps DEF D!TypeOK
<1>8. D!SparesOthers
  BY <1>2, StepSpares
<1>. QED
  BY <1>7, <1>8

LEMMA PartialsAreCleaned ==
  ASSUME D!DownloadInv, NEW d \in Downloads, NEW seen \in SUBSET Downloads, D!Cleanup(d, seen)
  PROVE  D!DownloadInv' /\ D!SparesOthers
<1>. DEFINE t == [dl[d] EXCEPT !.step = "create"]
<1>1. /\ D!TypeOK /\ D!PartialsAreRemoved /\ D!OnlyTrustedAreRead
  BY DEF D!DownloadInv
<1>2. /\ dl' = [dl EXCEPT ![d] = t] /\ dl[d].step = "prepare"
      /\ partials' = [p \in Downloads |-> IF p \in seen \intersect left.old THEN 0 ELSE partials[p]]
      /\ left' = [any |-> left.any \ (seen \intersect left.old), old |-> left.old \ seen]
      /\ UNCHANGED <<files, linked, sources, others>>
  BY DEF D!Cleanup, D!Steps
<1>3. t \in Working /\ t.step = "create"
  <2>1. dl[d] \in D!Prepares
    BY <1>1, <1>2, DownloadIsTyped
  <2>2. t \in D!Prepares /\ t.step = "create"
    BY <2>1 DEF D!Prepares
  <2>. QED
    BY <2>2 DEF Working
<1>. HIDE DEF t
<1>4. partials[d] # 0 => d \in left.any
  BY <1>1, <1>2 DEF D!PartialsAreRemoved, D!AllPartials
<1>5. /\ partials' \in [Downloads -> Nat]
      /\ \A p \in Downloads : partials'[p] # 0 => partials'[p] = partials[p] /\ p \notin seen \intersect left.old
      /\ \A p \in Downloads : partials'[p] = partials[p] \/ p \in left.old
      /\ left'.any = left.any \ (seen \intersect left.old) /\ left' \in D!Lefts
  BY <1>1, <1>2 DEF D!TypeOK, D!Lefts
<1>6. D!DownloadInv'
  BY <1>1, <1>2, <1>3, <1>4, <1>5, DownloadSteps DEF D!TypeOK, D!OnlyTrustedAreRead
<1>7. D!SparesOthers
  BY <1>2, <1>5, StepSpares
<1>. QED
  BY <1>6, <1>7

\* A partial that cannot be unlinked is left behind.
LEMMA PartialIsUnlinked ==
  ASSUME D!TypeOK, NEW d \in Downloads, D!Unlinks(d)
  PROVE  /\ partials' \in [Downloads -> Nat] /\ left' \in D!Lefts
         /\ \A p \in Downloads : p # d => partials'[p] = partials[p]
         /\ \A p \in Downloads : p \in left.any => p \in left'.any
         /\ partials'[d] # 0 => d \in left'.any
<1>1. partials \in [Downloads -> Nat] /\ left \in D!Lefts
  BY DEF D!TypeOK
<1>2. CASE partials' = [partials EXCEPT ![d] = 0] /\ left' = left
  BY <1>1, <1>2
<1>3. CASE partials' = partials /\ left' = [left EXCEPT !.any = left.any \union {d}]
  BY <1>1, <1>3 DEF D!Lefts
<1>. QED
  BY <1>2, <1>3 DEF D!Unlinks

\* A download fails: its partial is unlinked, or left behind.
LEMMA DownloadFails ==
  ASSUME D!DownloadInv, NEW d \in Downloads, dl[d].step # "failed", D!Fails(d),
         UNCHANGED <<files, linked, sources, others>>
  PROVE  D!DownloadInv' /\ D!SparesOthers
<1>. DEFINE t == [step |-> "failed"]
<1>1. D!TypeOK /\ D!OnlyTrustedAreRead
  BY DEF D!DownloadInv
<1>2. dl' = [dl EXCEPT ![d] = t] /\ D!Unlinks(d)
  BY DEF D!Fails
<1>3. t \in Working /\ t.step = "failed"
  BY DEF Working, D!Over
<1>. HIDE DEF t
<1>4. /\ partials' \in [Downloads -> Nat] /\ left' \in D!Lefts /\ dl'[d] = t
      /\ \A p \in Downloads : p # d => partials'[p] = partials[p]
      /\ \A p \in Downloads : p \in left.any => p \in left'.any
      /\ partials'[d] # 0 => d \in left'.any
  BY <1>1, <1>2, PartialIsUnlinked DEF D!TypeOK
<1>5. D!DownloadInv'
  BY <1>1, <1>2, <1>3, <1>4, DownloadSteps DEF D!TypeOK, D!OnlyTrustedAreRead
<1>6. D!SparesOthers
  BY <1>3, <1>4, StepSpares
<1>. QED
  BY <1>5, <1>6

LEMMA PartialIsCreated ==
  ASSUME D!DownloadInv, NEW d \in Downloads, D!Create(d)
  PROVE  D!DownloadInv' /\ D!SparesOthers
<1>. DEFINE f == Len(files) + 1
            e == [by |-> d, chunks |-> 0]
            t == [step |-> "stream", name |-> dl[d].name, said |-> dl[d].said, file |-> f, size |-> 0]
<1>1. D!TypeOK /\ D!OnlyTrustedAreRead
  BY DEF D!DownloadInv
<1>2. /\ dl[d].step = "create" /\ files' = Append(files, e) /\ partials' = [partials EXCEPT ![d] = f]
      /\ dl' = [dl EXCEPT ![d] = t] /\ UNCHANGED <<linked, left, sources, others>>
  BY <1>1 DEF D!Create, D!TypeOK
<1>3. files \in Seq(D!Files) /\ f \in Nat \ {0}
  BY <1>1 DEF D!TypeOK
<1>4. e \in D!Files /\ e.by = d /\ e.chunks = 0
  BY DEF D!Files
<1>5. t \in D!Holding /\ t.step = "stream" /\ t.file = f /\ t.size = 0
  <2>1. dl[d].name \in D!Singles /\ dl[d].said \in D!Sizes
    BY <1>1, <1>2, DownloadIsTyped DEF D!Prepares
  <2>. QED
    BY <1>3, <2>1 DEF D!Holding
<1>. HIDE DEF e, t
<1>6. /\ files' \in Seq(D!Files) /\ f \in DOMAIN files' /\ files'[f] = e
      /\ \A i \in DOMAIN files : i \in DOMAIN files' /\ files'[i] = files[i]
  BY <1>2, <1>3, <1>4, AppendedIsLast
<1>. HIDE DEF f
<1>7. /\ partials' \in [Downloads -> Nat] /\ partials'[d] # 0
      /\ \A p \in Downloads : p # d => partials'[p] = partials[p]
  BY <1>1, <1>2, <1>3 DEF D!TypeOK
<1>8. t \in Working
  BY <1>5 DEF Working
<1>9. D!DownloadInv'
  BY <1>1, <1>2, <1>4, <1>5, <1>6, <1>7, <1>8, DownloadSteps DEF D!TypeOK, D!OnlyTrustedAreRead
<1>10. D!SparesOthers
  BY <1>2, <1>7, StepSpares
<1>. QED
  BY <1>9, <1>10

\* A file that is written stays a file of who made it.
LEMMA ChunkIsWritten ==
  ASSUME NEW S, NEW s \in Seq(D!Files), NEW i \in DOMAIN s
  PROVE  LET e == [s[i] EXCEPT !.chunks = s[i].chunks + 1] IN
         /\ [s EXCEPT ![i].chunks = s[i].chunks + 1] = [s EXCEPT ![i] = e]
         /\ e \in D!Files /\ e.by = s[i].by /\ e.chunks = s[i].chunks + 1
<1>1. s[i] \in D!Files
  OBVIOUS
<1>. QED
  BY <1>1 DEF D!Files

LEMMA HoldingGrows ==
  ASSUME NEW u \in D!Holding
  PROVE  LET t == [u EXCEPT !.size = u.size + 1] IN
         t \in D!Holding /\ t.step = u.step /\ t.file = u.file /\ t.size = u.size + 1
BY DEF D!Holding

LEMMA ChunkComes ==
  ASSUME D!DownloadInv, NEW d \in Downloads, D!Chunk(d), dl[d].size # MaxChunks
  PROVE  D!DownloadInv' /\ D!SparesOthers
<1>. DEFINE f == dl[d].file
            e == [files[f] EXCEPT !.chunks = files[f].chunks + 1]
            t == [dl[d] EXCEPT !.size = dl[d].size + 1]
<1>1. D!TypeOK /\ D!OnlyTrustedAreRead /\ D!FilesAreOwn /\ D!PartialsAreRemoved
  BY DEF D!DownloadInv
<1>2. /\ dl[d].step = "stream" /\ files' = [files EXCEPT ![f].chunks = files[f].chunks + 1]
      /\ dl' = [dl EXCEPT ![d] = t]
      /\ UNCHANGED <<linked, partials, left, sources, others>>
  <2>1. files \in Seq(D!Files) /\ dl \in [Downloads -> Working]
    BY <1>1 DEF D!TypeOK, Working
  <2>. QED
    BY <2>1 DEF D!Chunk
<1>3. /\ f \in DOMAIN files /\ files \in Seq(D!Files) /\ files[f].by = d /\ files[f].chunks = dl[d].size
      /\ dl[d] \in D!Holding
  BY <1>1, <1>2, DownloadIsTyped DEF D!FilesAreOwn, D!TypeOK, D!Holds
<1>4. files' = [files EXCEPT ![f] = e] /\ e \in D!Files /\ e.by = d /\ e.chunks = dl[d].size + 1
  BY <1>2, <1>3, ChunkIsWritten
<1>5. t \in D!Holding /\ t.step = "stream" /\ t.file = f /\ t.size = dl[d].size + 1
  BY <1>2, <1>3, HoldingGrows
<1>. HIDE DEF e, t
<1>6. /\ files' \in Seq(D!Files) /\ f \in DOMAIN files' /\ files'[f] = e
      /\ \A i \in DOMAIN files : i \in DOMAIN files' /\ (i # f => files'[i] = files[i])
  BY <1>3, <1>4
<1>7. t \in Working
  BY <1>5 DEF Working
<1>8. \A i \in DOMAIN files : /\ i \in DOMAIN files' /\ files'[i].by = files[i].by
                              /\ files[i].by # d => files'[i] = files[i]
  BY <1>3, <1>4, <1>6
<1>9. partials[d] # 0 => t.step \in {"stream", "publish", "check"}
  BY <1>5
<1>10. /\ t.file \in DOMAIN files' /\ files'[t.file].by = d /\ files'[t.file].chunks = t.size
  BY <1>4, <1>5, <1>6
<1>11. D!DownloadInv'
  BY <1>1, <1>2, <1>5, <1>6, <1>7, <1>8, <1>9, <1>10, DownloadSteps DEF D!TypeOK, D!OnlyTrustedAreRead
<1>12. D!SparesOthers
  BY <1>2, StepSpares
<1>. QED
  BY <1>11, <1>12

\* A download goes on, or is done, with what it verified.
LEMMA DownloadGoesOn ==
  ASSUME D!DownloadInv, NEW d \in Downloads, D!Holds(d), dl[d].step # "done", NEW s \in {"publish", "check", "done"}, D!Steps(d, s),
         dl[d].said \in {Unsaid, dl[d].size}, UNCHANGED <<files, sources, others>>,
         linked' \in [FileNames -> Nat], \A n \in FileNames : linked[n] # 0 => linked'[n] = linked[n],
         s = "done" => D!Unlinks(d), s # "done" => UNCHANGED <<partials, left>>
  PROVE  D!DownloadInv' /\ D!SparesOthers
<1>1. D!TypeOK /\ D!OnlyTrustedAreRead /\ D!FilesAreOwn /\ D!PartialsAreRemoved
  BY DEF D!DownloadInv
<1>2. PICK t \in D!Holding : /\ dl' = [dl EXCEPT ![d] = t] /\ t.step = s /\ t.name = dl[d].name
                             /\ t.said = dl[d].said /\ t.file = dl[d].file /\ t.size = dl[d].size
  BY <1>1, StepsOn
<1>3. t \in Working /\ dl'[d] = t
  BY <1>1, <1>2 DEF Working, D!TypeOK
<1>4. /\ partials' \in [Downloads -> Nat] /\ left' \in D!Lefts
      /\ \A p \in Downloads : p # d => partials'[p] = partials[p]
      /\ \A p \in Downloads : p \in left.any => p \in left'.any
      /\ partials'[d] # 0 => s # "done" \/ d \in left'.any
  BY <1>1, PartialIsUnlinked DEF D!TypeOK
<1>5. t.file \in DOMAIN files /\ files[t.file].by = d /\ files[t.file].chunks = t.size
  BY <1>1, <1>2 DEF D!FilesAreOwn
<1>6. D!DownloadInv'
  BY <1>1, <1>2, <1>3, <1>4, <1>5, DownloadSteps DEF D!TypeOK, D!OnlyTrustedAreRead
<1>7. dl'[d].step # dl[d].step \/ partials'[d] = partials[d]
  BY <1>2, <1>3
<1>8. D!SparesOthers
  BY <1>4, <1>7, StepSpares
<1>. QED
  BY <1>6, <1>8

LEMMA StreamIsVerified ==
  ASSUME D!DownloadInv, NEW d \in Downloads, D!StreamEnds(d)
  PROVE  D!DownloadInv' /\ D!SparesOthers
<1>1. D!TypeOK
  BY DEF D!DownloadInv
<1>2. dl[d].step = "stream" /\ UNCHANGED <<files, linked, sources, others>>
  BY DEF D!StreamEnds
<1>3. CASE dl[d].said \in {Unsaid, dl[d].size} /\ partials[d] = dl[d].file
  <2>1. D!Steps(d, "publish") /\ UNCHANGED <<partials, left>>
    BY <1>3 DEF D!StreamEnds, D!Goes
  <2>2. D!Holds(d) /\ linked' \in [FileNames -> Nat]
    BY <1>1, <1>2 DEF D!Holds, D!TypeOK
  <2>. QED
    BY <1>2, <1>3, <2>1, <2>2, DownloadGoesOn
<1>4. CASE ~ (dl[d].said \in {Unsaid, dl[d].size} /\ partials[d] = dl[d].file)
  <2>1. D!Fails(d)
    BY <1>4 DEF D!StreamEnds
  <2>. QED
    BY <1>2, <2>1, DownloadFails
<1>. QED
  BY <1>3, <1>4

LEMMA FileIsPublished ==
  ASSUME D!DownloadInv, NEW d \in Downloads, D!Publish(d)
  PROVE  D!DownloadInv' /\ D!SparesOthers
<1>. DEFINE n == dl[d].name[1]
<1>1. D!TypeOK /\ D!FilesAreOwn
  BY DEF D!DownloadInv
<1>2. dl[d].step = "publish" /\ UNCHANGED <<files, sources, others>>
  BY DEF D!Publish
<1>3. CASE linked[n] # 0 \/ partials[d] = 0
  <2>1. D!Fails(d) /\ UNCHANGED linked
    BY <1>3 DEF D!Publish
  <2>. QED
    BY <1>2, <2>1, DownloadFails
<1>4. CASE ~ (linked[n] # 0 \/ partials[d] = 0)
  <2>1. linked' = [linked EXCEPT ![n] = partials[d]] /\ D!Steps(d, "check") /\ UNCHANGED <<partials, left>>
    BY <1>4 DEF D!Publish, D!Goes
  <2>2. linked' \in [FileNames -> Nat] /\ \A m \in FileNames : linked[m] # 0 => linked'[m] = linked[m]
    BY <1>1, <1>4, <2>1 DEF D!TypeOK
  <2>3. dl[d].said \in {Unsaid, dl[d].size} /\ D!Holds(d)
    BY <1>1, <1>2 DEF D!FilesAreOwn, D!Holds
  <2>. QED
    BY <1>2, <2>1, <2>2, <2>3, DownloadGoesOn
<1>. QED
  BY <1>3, <1>4

LEMMA FileIsChecked ==
  ASSUME D!DownloadInv, NEW d \in Downloads, D!Check(d)
  PROVE  D!DownloadInv' /\ D!SparesOthers
<1>1. D!TypeOK /\ D!FilesAreOwn
  BY DEF D!DownloadInv
<1>2. dl[d].step = "check" /\ UNCHANGED <<files, linked, sources, others>>
  BY DEF D!Check
<1>3. CASE linked[dl[d].name[1]] = dl[d].file
  <2>1. D!Steps(d, "done") /\ D!Unlinks(d)
    BY <1>3 DEF D!Check
  <2>2. dl[d].said \in {Unsaid, dl[d].size} /\ D!Holds(d) /\ linked' \in [FileNames -> Nat]
    BY <1>1, <1>2 DEF D!FilesAreOwn, D!Holds, D!TypeOK
  <2>. QED
    BY <1>2, <2>1, <2>2, DownloadGoesOn
<1>4. CASE linked[dl[d].name[1]] # dl[d].file
  <2>1. D!Fails(d)
    BY <1>4 DEF D!Check
  <2>. QED
    BY <1>2, <2>1, DownloadFails
<1>. QED
  BY <1>3, <1>4

\* What the rest does: the server is cut, a day passes, other programs write and remove.
LEMMA ServerCrashes ==
  ASSUME D!DownloadInv, D!Crash \/ D!DayPasses
  PROVE  D!DownloadInv' /\ D!SparesOthers
<1>1. D!TypeOK /\ D!PartialsAreRemoved
  BY DEF D!DownloadInv
<1>2. /\ files \in Seq(D!Files) /\ linked \in [FileNames -> Nat] /\ partials \in [Downloads -> Nat]
      /\ dl \in [Downloads -> Working] /\ others \in Nat /\ left \in D!Lefts
  BY <1>1 DEF D!TypeOK, Working
<1>3. UNCHANGED <<files, linked, partials, sources, others>>
  BY DEF D!Crash, D!DayPasses
<1>6. D!SparesOthers
  BY <1>3 DEF D!SparesOthers, D!OverwritesNothing, D!KeepsPartials
<1>4. CASE D!Crash
  <2>1. /\ left' = [left EXCEPT !.any = left.any \union D!AllPartials]
        /\ dl' = [p \in Downloads |-> IF dl[p].step = "done" THEN dl[p] ELSE D!NoDownload]
    BY <1>2, <1>4 DEF D!Crash, D!Lefts
  <2>2. left' \in D!Lefts /\ left'.any = left.any \union D!AllPartials
    BY <1>2, <2>1 DEF D!Lefts, D!AllPartials
  <2>3. D!NoDownload \in Working /\ D!NoDownload.step = "none"
    BY DEF D!NoDownload, Working, D!Over
  <2>4. dl' \in [Downloads -> Working] /\ \A p \in Downloads : dl'[p] = dl[p] \/ dl'[p].step = "none"
    BY <1>2, <2>1, <2>3
  <2>5. \A p \in Downloads : partials'[p] # 0 => p \in left'.any
    BY <1>3, <2>2 DEF D!AllPartials
  <2>7. /\ \A i \in DOMAIN files : i \in DOMAIN files' /\ files'[i] = files[i]
        /\ \A p \in Downloads : dl'[p] = dl[p] \/ dl'[p].step = "none"
        /\ \A p \in Downloads : partials'[p] # 0 => partials[p] # 0
        /\ \A p \in Downloads : partials'[p] # 0 => p \in left'.any \/ (dl'[p] = dl[p] /\ p \notin left.any)
    BY <1>2, <1>3, <2>2, <2>4, <2>5
  <2>8. /\ files' \in Seq(D!Files) /\ linked' \in [FileNames -> Nat] /\ partials' \in [Downloads -> Nat]
        /\ dl' \in [Downloads -> Working] /\ others' \in Nat /\ left' \in D!Lefts /\ sources' = sources
    BY <1>2, <1>3, <2>2, <2>4, <2>5
  <2>. QED
    BY <1>6, <2>7, <2>8, OthersStep
<1>5. CASE D!DayPasses
  <2>1. left' = [left EXCEPT !.old = left.any] /\ dl' = dl
    BY <1>5 DEF D!DayPasses
  <2>2. left' \in D!Lefts /\ left'.any = left.any
    BY <1>2, <2>1 DEF D!Lefts
  <2>7. /\ \A i \in DOMAIN files : i \in DOMAIN files' /\ files'[i] = files[i]
        /\ \A p \in Downloads : dl'[p] = dl[p] \/ dl'[p].step = "none"
        /\ \A p \in Downloads : partials'[p] # 0 => partials[p] # 0
        /\ \A p \in Downloads : partials'[p] # 0 => p \in left'.any \/ (dl'[p] = dl[p] /\ p \notin left.any)
    BY <1>2, <1>3, <2>1, <2>2
  <2>8. /\ files' \in Seq(D!Files) /\ linked' \in [FileNames -> Nat] /\ partials' \in [Downloads -> Nat]
        /\ dl' \in [Downloads -> Working] /\ others' \in Nat /\ left' \in D!Lefts /\ sources' = sources
    BY <1>2, <1>3, <2>1, <2>2
  <2>. QED
    BY <1>6, <2>7, <2>8, OthersStep
<1>. QED
  BY <1>4, <1>5

LEMMA OthersDo ==
  ASSUME D!DownloadInv, D!OthersWrite \/ D!OthersRemove
  PROVE  D!DownloadInv' /\ D!SparesOthers
<1>1. D!TypeOK /\ D!PartialsAreRemoved
  BY DEF D!DownloadInv
<1>2. /\ files \in Seq(D!Files) /\ linked \in [FileNames -> Nat] /\ partials \in [Downloads -> Nat]
      /\ dl \in [Downloads -> Working] /\ others \in Nat /\ left \in D!Lefts
  BY <1>1 DEF D!TypeOK, Working
<1>3. others' = others + 1 /\ UNCHANGED <<dl, sources>>
  BY DEF D!OthersWrite, D!OthersRemove, D!Other
<1>6. D!SparesOthers
  BY <1>2, <1>3 DEF D!SparesOthers, D!OverwritesNothing, D!KeepsPartials
<1>4. CASE D!OthersWrite
  <2>. DEFINE f == Len(files) + 1
              e == [by |-> "others", chunks |-> 1]
  <2>1. files' = Append(files, e) /\ UNCHANGED left
    BY <1>4 DEF D!OthersWrite
  <2>2. e \in D!Files /\ f \in Nat
    BY <1>2 DEF D!Files
  <2>. HIDE DEF e
  <2>3. files' \in Seq(D!Files) /\ \A i \in DOMAIN files : i \in DOMAIN files' /\ files'[i] = files[i]
    BY <1>2, <2>1, <2>2, AppendedIsLast
  <2>4. \/ \E n \in FileNames : linked' = [linked EXCEPT ![n] = f] /\ partials' = partials
        \/ \E d \in Downloads : partials[d] # 0 /\ partials' = [partials EXCEPT ![d] = f] /\ linked' = linked
    BY <1>4 DEF D!OthersWrite, D!AllPartials
  <2>. HIDE DEF f
  <2>5. /\ linked' \in [FileNames -> Nat] /\ partials' \in [Downloads -> Nat]
        /\ \A p \in Downloads : partials'[p] # 0 => partials[p] # 0
    BY <1>2, <2>2, <2>4
  <2>7. /\ \A i \in DOMAIN files : i \in DOMAIN files' /\ files'[i] = files[i]
        /\ \A p \in Downloads : dl'[p] = dl[p] \/ dl'[p].step = "none"
        /\ \A p \in Downloads : partials'[p] # 0 => partials[p] # 0
        /\ \A p \in Downloads : partials'[p] # 0 => p \in left'.any \/ (dl'[p] = dl[p] /\ p \notin left.any)
    BY <1>2, <1>3, <2>1, <2>3, <2>5
  <2>8. /\ files' \in Seq(D!Files) /\ linked' \in [FileNames -> Nat] /\ partials' \in [Downloads -> Nat]
        /\ dl' \in [Downloads -> Working] /\ others' \in Nat /\ left' \in D!Lefts /\ sources' = sources
    BY <1>2, <1>3, <2>1, <2>3, <2>5
  <2>. QED
    BY <1>6, <2>7, <2>8, OthersStep
<1>5. CASE D!OthersRemove
  <2>1. files' = files
    BY <1>5 DEF D!OthersRemove
  <2>2. \/ \E n \in FileNames : linked' = [linked EXCEPT ![n] = 0] /\ partials' = partials /\ left' = left
        \/ \E d \in Downloads : /\ partials' = [partials EXCEPT ![d] = 0] /\ linked' = linked
                                /\ left' = [any |-> left.any \ {d}, old |-> left.old \ {d}]
    BY <1>5 DEF D!OthersRemove, D!AllPartials
  <2>3. /\ linked' \in [FileNames -> Nat] /\ partials' \in [Downloads -> Nat] /\ left' \in D!Lefts
        /\ \A p \in Downloads : partials'[p] # 0 => partials[p] # 0 /\ (p \in left'.any <=> p \in left.any)
    <3>1. CASE \E n \in FileNames : linked' = [linked EXCEPT ![n] = 0] /\ partials' = partials /\ left' = left
      BY <1>2, <3>1
    <3>2. CASE \E d \in Downloads : /\ partials' = [partials EXCEPT ![d] = 0] /\ linked' = linked
                                    /\ left' = [any |-> left.any \ {d}, old |-> left.old \ {d}]
      BY <1>2, <3>2 DEF D!Lefts
    <3>. QED
      BY <2>2, <3>1, <3>2
  <2>7. /\ \A i \in DOMAIN files : i \in DOMAIN files' /\ files'[i] = files[i]
        /\ \A p \in Downloads : dl'[p] = dl[p] \/ dl'[p].step = "none"
        /\ \A p \in Downloads : partials'[p] # 0 => partials[p] # 0
        /\ \A p \in Downloads : partials'[p] # 0 => p \in left'.any \/ (dl'[p] = dl[p] /\ p \notin left.any)
    BY <1>2, <1>3, <2>1, <2>3
  <2>8. /\ files' \in Seq(D!Files) /\ linked' \in [FileNames -> Nat] /\ partials' \in [Downloads -> Nat]
        /\ dl' \in [Downloads -> Working] /\ others' \in Nat /\ left' \in D!Lefts /\ sources' = sources
    BY <1>2, <1>3, <2>1, <2>3
  <2>. QED
    BY <1>6, <2>7, <2>8, OthersStep
<1>. QED
  BY <1>4, <1>5

LEMMA DownloadsBegin == D!Init => D!DownloadInv
<1>. SUFFICES ASSUME D!Init PROVE D!DownloadInv
  OBVIOUS
<1>. DEFINE l == [any |-> {}, old |-> {}]
<1>1. /\ files = <<>> /\ linked = [n \in FileNames |-> 0] /\ partials = [d \in Downloads |-> 0]
      /\ left = l /\ dl = [d \in Downloads |-> D!NoDownload] /\ sources = {} /\ others = 0
  BY DEF D!Init
<1>2. l \in D!Lefts /\ D!NoDownload \in D!Over /\ D!NoDownload.step = "none"
  BY DEF D!Lefts, D!NoDownload, D!Over
<1>. HIDE DEF l
<1>3. D!TypeOK
  BY <1>1, <1>2 DEF D!TypeOK
<1>. QED
  BY <1>1, <1>2, <1>3 DEF D!DownloadInv, D!FilesAreOwn, D!Holds, D!OnlyTrustedAreAsked, D!PartialsAreRemoved,
     D!AllPartials, D!OnlyTrustedAreRead

LEMMA EveryDownloadStep ==
  ASSUME OneDirectory, D!DownloadInv, [D!Next]_(D!vars)
  PROVE  D!DownloadInv' /\ (D!SparesOthers \/ UNCHANGED D!vars)
<1>1. CASE UNCHANGED D!vars
  BY <1>1 DEF D!vars, D!DownloadInv, D!TypeOK, D!FilesAreOwn, D!Holds, D!OnlyTrustedAreAsked, D!PartialsAreRemoved,
     D!AllPartials, D!OnlyTrustedAreRead
<1>2. ASSUME NEW d \in Downloads, NEW path \in Paths, NEW host \in Hosts, D!Ask(d, path, host)
      PROVE  D!DownloadInv' /\ D!SparesOthers
  BY <1>2, DownloadAsks
<1>3. ASSUME NEW d \in Downloads, NEW host \in Hosts, D!Redirect(d, host)
      PROVE  D!DownloadInv' /\ D!SparesOthers
  BY <1>3, DownloadIsRedirected
<1>4. ASSUME NEW d \in Downloads, NEW size \in {Unsaid} \union 0..(MaxChunks + 1),
             NEW referred \in {Unsaid} \union 0..(MaxChunks + 1), D!Respond(d, size, referred)
      PROVE  D!DownloadInv' /\ D!SparesOthers
  BY <1>4, DownloadIsAnswered
<1>5. ASSUME NEW d \in Downloads, NEW seen \in SUBSET Downloads, D!Cleanup(d, seen)
      PROVE  D!DownloadInv' /\ D!SparesOthers
  BY <1>5, PartialsAreCleaned
<1>6. ASSUME NEW d \in Downloads, D!Chunk(d)
      PROVE  D!DownloadInv' /\ D!SparesOthers
  <2>1. CASE dl[d].size = MaxChunks
    <3>1. D!Fails(d) /\ dl[d].step = "stream" /\ UNCHANGED <<files, linked, sources, others>>
      BY <1>6, <2>1 DEF D!Chunk
    <3>. QED
      BY <3>1, DownloadFails
  <2>. QED
    BY <1>6, <2>1, ChunkComes
<1>7. ASSUME NEW d \in Downloads, D!StreamFails(d)
      PROVE  D!DownloadInv' /\ D!SparesOthers
  <2>1. D!Fails(d) /\ dl[d].step # "failed" /\ UNCHANGED <<files, linked, sources, others>>
    BY <1>7 DEF D!StreamFails
  <2>. QED
    BY <2>1, DownloadFails
<1>. QED
  BY <1>1, <1>2, <1>3, <1>4, <1>5, <1>6, <1>7, PartialIsCreated, StreamIsVerified, FileIsPublished,
     FileIsChecked, ServerCrashes, OthersDo DEF D!Next

\* What a download reports is whole.
LEMMA ReportsAreWhole == D!DownloadInv => D!IsWhole
<1>. SUFFICES ASSUME D!DownloadInv PROVE D!IsWhole
  OBVIOUS
<1>1. D!TypeOK /\ D!FilesAreOwn /\ D!PartialsAreRemoved /\ D!OnlyTrustedAreRead
  BY DEF D!DownloadInv
<1>2. ASSUME NEW d \in Downloads, dl[d].step = "done"
      PROVE  Len(dl[d].name) = 1
  <2>1. dl[d].name \in D!Singles
    BY <1>1, <1>2, DownloadIsTyped, HoldingIsTyped DEF D!Holds
  <2>. QED
    BY <2>1 DEF D!Singles
<1>3. D!ReportsAreOfWholeFiles
  BY <1>1, <1>2 DEF D!ReportsAreOfWholeFiles, D!FilesAreOwn, D!Holds
<1>. QED
  BY <1>1, <1>3 DEF D!IsWhole

\* Every download writes to a file of its own making, verified before it is published, and a partial that is not
\* of one that goes on was left by a crash or an unlink that failed, whatever other downloads, other programs and
\* crashes do (artifact-tools.ts, incoming-artifacts.ts).
THEOREM DownloadsAreSound == ASSUME OneDirectory PROVE D!Spec => []D!DownloadInv
<1>1. D!DownloadInv /\ [D!Next]_(D!vars) => D!DownloadInv'
  BY EveryDownloadStep
<1>. QED
  BY DownloadsBegin, <1>1, PTL DEF D!Spec

\* What a download reports is the whole file it announced, taken from trusted hosts only; no download takes a
\* name that is taken or gives one up, and none removes the partial of another that goes on.
THEOREM DownloadedIsWhole == ASSUME OneDirectory PROVE D!Spec => D!DownloadsAreWhole
<1>1. D!DownloadInv /\ [D!Next]_(D!vars) => [D!SparesOthers]_(D!vars)
  BY EveryDownloadStep
<1>2. D!Spec => []D!DownloadInv
  BY DownloadsAreSound
<1>. QED
  BY ReportsAreWhole, <1>1, <1>2, PTL DEF D!Spec, D!DownloadsAreWhole

-------------------------------------------------------------------------------
(***************************************************************************)
(* Services: the part that moves behaves as its own specification says.    *)
(***************************************************************************)
\* Tokens of Services come from grants, one pair for each.
THEOREM ServicesGrantTokens == ASSUME TtlsAreNumbers PROVE ServicesSpec => []TokensAreGranted
<1>1. ServicesInit /\ part = "tokens" => K!Init
  BY DEF ServicesInit
<1>2. [ServicesNext]_servicesVars => ((part = "tokens")' <=> part = "tokens") /\ (part = "tokens" => [K!Next]_(K!vars))
  <2>. SUFFICES ASSUME [ServicesNext]_servicesVars PROVE part' = part /\ (part = "tokens" => [K!Next]_(K!vars))
    OBVIOUS
  <2>1. part' = part /\ ((part = "tokens" /\ K!Next) \/ part # "tokens" \/ UNCHANGED tokens)
    BY DEF ServicesNext, servicesVars
  <2>2. UNCHANGED tokens => UNCHANGED K!vars
    BY DEF tokens, K!vars
  <2>. QED
    BY <2>1, <2>2
<1>. QED
  BY <1>1, <1>2, TokensComeFromGrants, PTL DEF ServicesSpec, TokensAreGranted, K!Spec

\* The schema that Services commit is one of whole migrations.
THEOREM ServicesMigrateWhole == ASSUME Builds PROVE ServicesSpec => []MigrationsAreWhole
<1>1. ServicesInit /\ part = "schema" => M!Init
  BY DEF ServicesInit
<1>2. [ServicesNext]_servicesVars => ((part = "schema")' <=> part = "schema") /\ (part = "schema" => [M!Next]_(M!vars))
  <2>. SUFFICES ASSUME [ServicesNext]_servicesVars PROVE part' = part /\ (part = "schema" => [M!Next]_(M!vars))
    OBVIOUS
  <2>1. part' = part /\ ((part = "schema" /\ M!Next) \/ part # "schema" \/ UNCHANGED schema)
    BY DEF ServicesNext, servicesVars
  <2>2. UNCHANGED schema => UNCHANGED M!vars
    BY DEF schema, M!vars
  <2>. QED
    BY <2>1, <2>2
<1>. QED
  BY <1>1, <1>2, SchemasAreWhole, PTL DEF ServicesSpec, MigrationsAreWhole, M!Spec

\* Nothing that was configured is lost by a command of Services.
THEOREM ServicesKeepConfig == ASSUME Named, \A c \in Commands : Kinds[c] \subseteq C!AllKinds PROVE ServicesSpec => []ConfigIsKept
<1>1. ServicesInit /\ part = "config" => C!Init
  BY DEF ServicesInit
<1>2. [ServicesNext]_servicesVars => ((part = "config")' <=> part = "config") /\ (part = "config" => [C!Next]_(C!vars))
  <2>. SUFFICES ASSUME [ServicesNext]_servicesVars PROVE part' = part /\ (part = "config" => [C!Next]_(C!vars))
    OBVIOUS
  <2>1. part' = part /\ ((part = "config" /\ C!Next) \/ part # "config" \/ UNCHANGED configuration)
    BY DEF ServicesNext, servicesVars
  <2>2. UNCHANGED configuration => UNCHANGED C!vars
    BY DEF configuration, C!vars
  <2>. QED
    BY <2>1, <2>2
<1>. QED
  BY <1>1, <1>2, CommandsKeepConfig, PTL DEF ServicesSpec, ConfigIsKept, C!Spec

\* What a download of Services reports is the whole file, and it spares those of others.
THEOREM ServicesDownloadWhole == ASSUME OneDirectory PROVE ServicesSpec => DownloadsAreWhole
<1>1. ServicesInit /\ part = "artifacts" => D!Init
  BY DEF ServicesInit
<1>2. [ServicesNext]_servicesVars => /\ (part = "artifacts")' <=> part = "artifacts"
                                     /\ part = "artifacts" => [D!Next]_(D!vars)
  <2>. SUFFICES ASSUME [ServicesNext]_servicesVars
                PROVE  part' = part /\ (part = "artifacts" => [D!Next]_(D!vars))
    OBVIOUS
  <2>1. part' = part /\ ((part = "artifacts" /\ D!Next) \/ part # "artifacts" \/ UNCHANGED artifacts)
    BY DEF ServicesNext, servicesVars
  <2>2. UNCHANGED artifacts => UNCHANGED D!vars
    BY DEF artifacts, D!vars
  <2>. QED
    BY <2>1, <2>2
<1>3. D!Spec => []D!IsWhole /\ [][D!SparesOthers]_(D!vars)
  BY DownloadedIsWhole DEF D!DownloadsAreWhole
<1>4. [D!SparesOthers]_(D!vars) \/ part # "artifacts" => [part = "artifacts" => D!SparesOthers]_artifacts
  BY DEF artifacts, D!vars
<1>. QED
  BY <1>1, <1>2, <1>3, <1>4, PTL DEF ServicesSpec, DownloadsAreWhole, D!Spec
===============================================================================
