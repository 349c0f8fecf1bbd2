------------------------------ MODULE OAuthTokens ------------------------------
(***************************************************************************)
(* The authorization server: oauth-provider.ts and oauth-store.ts, with    *)
(* the order in which the token endpoint of the SDK calls them.  Several   *)
(* servers may share one state directory: clients and tokens are rows that *)
(* all of them see, authorization codes live in the memory of one server   *)
(* and go with it.                                                         *)
(*                                                                         *)
(* Token pairs are numbered in the order in which they are issued, codes   *)
(* in the order in which the owner approves them.                          *)
(***************************************************************************)
EXTENDS Naturals, Sequences, FiniteSets

CONSTANTS
    Servers,
    Clients,        \* programs that may register
    HostAllowed,    \* those whose redirect_uris are all on an allowed host
    Supported,      \* config.oauth.scopes
    Resources,
    Accepts,        \* per server: the resources its configuration accepts
    Unsaid,         \* a scope parameter that is left out
    Requests,       \* token requests
    MaxCodes, MaxPairs, MaxRevoked, MaxTime,    \* bounds
    CodeTtl, AccessTtl, RefreshTtl

VARIABLES
    up,         \* servers that run
    now,
    clients,    \* oauth_clients
    page,       \* the page in the owner's browser: what it says and what it sends back
    approved,   \* history: what the owner approved, with the server and the end of the code
    codes,      \* codes in memory
    pairs,      \* history: the records of the pairs issued, what each was issued for, and the
                \* code at the origin of its refreshes
    access,     \* oauth_access_tokens: pairs whose row is there
    refresh,    \* oauth_refresh_tokens
    revoked,    \* history: rows that were there when they were revoked, <<pair, kind>>
    request     \* per token request: what it has read

vars == <<up, now, clients, page, approved, codes, pairs, access, refresh, revoked, request>>

NoRequest == [step |-> "none"]
NoPage == [says |-> {}]
Scopes == SUBSET Supported \ {{}}
Grant(kind, n) == [kind |-> kind, of |-> n]

Init ==
    /\ up = {} /\ now = 0 /\ clients = {} /\ page = NoPage /\ approved = <<>> /\ codes = {}
    /\ pairs = <<>> /\ access = {} /\ refresh = {} /\ revoked = {}
    /\ request = [q \in Requests |-> NoRequest]

\* new SqliteOAuthStore(): rows that expired are deleted when a server starts.
Start(s) ==
    /\ s \notin up /\ up' = up \union {s}
    /\ access' = {n \in access : pairs[n].accessEnds >= now}
    /\ refresh' = {n \in refresh : pairs[n].refreshEnds >= now}
    /\ UNCHANGED <<now, clients, page, approved, codes, pairs, revoked, request>>

Stop(s) ==
    /\ s \in up /\ up' = up \ {s}
    /\ codes' = {k \in codes : approved[k].server # s}
    /\ request' = [q \in Requests |->
          IF request[q].step # "none" /\ request[q].server = s THEN NoRequest ELSE request[q]]
    /\ UNCHANGED <<now, clients, page, approved, pairs, access, refresh, revoked>>

Register(s, c) ==
    /\ s \in up /\ c \in HostAllowed \ clients /\ clients' = clients \union {c}
    /\ UNCHANGED <<up, now, page, approved, codes, pairs, access, refresh, revoked, request>>

(***************************************************************************)
(* authorize(): a GET shows a page whose hidden fields repeat the request; *)
(* the POST of that page checks them again, and the password.              *)
(***************************************************************************)
MayAsk(s, c, scopes, resource) ==
    /\ s \in up /\ c \in clients /\ resource \in Accepts[s]
    /\ scopes # Unsaid => scopes \subseteq Supported

ShowForm(s, c, scopes, resource) ==
    /\ MayAsk(s, c, scopes, resource) /\ Len(approved) < MaxCodes
    /\ page' = [client |-> c, resource |-> resource, scope |-> scopes,
                says |-> IF scopes = Unsaid THEN Supported ELSE scopes]
    /\ UNCHANGED <<up, now, clients, approved, codes, pairs, access, refresh, revoked, request>>

Approve(s) ==
    /\ page # NoPage /\ MayAsk(s, page.client, page.scope, page.resource)
    /\ Len(approved) < MaxCodes
    /\ page' = NoPage
    /\ approved' = Append(approved, [shown |-> page, server |-> s, client |-> page.client,
                             scope |-> page.scope, resource |-> page.resource,
                             ends |-> now + CodeTtl])
    /\ codes' = codes \union {Len(approved) + 1}
    /\ UNCHANGED <<up, now, clients, pairs, access, refresh, revoked, request>>

(***************************************************************************)
(* issueTokens() and saveTokenPair(): one transaction stores both rows,    *)
(* and only if it deletes the refresh token it consumes.                   *)
(***************************************************************************)
SaveTokenPair(record, consumed) ==
    /\ Len(pairs) < MaxPairs
    /\ IF consumed # {} /\ ~ consumed \subseteq refresh
       THEN UNCHANGED <<pairs, access, refresh>>
       ELSE /\ pairs' = Append(pairs, record)
            /\ access' = access \union {Len(pairs) + 1}
            /\ refresh' = (refresh \ consumed) \union {Len(pairs) + 1}

Record(from, origin, client, scopes, resource) ==
    [from |-> from, origin |-> origin, client |-> client, scopes |-> scopes, resource |-> resource,
     accessEnds |-> now + AccessTtl, refreshEnds |-> now + RefreshTtl]

(***************************************************************************)
(* exchangeAuthorizationCode(): the SDK asks for the challenge first and   *)
(* verifies it; the code is looked up again, and deleted, after that.      *)
(***************************************************************************)
ValidCodeRecord(s, c, k) ==
    /\ s \in up /\ c \in clients
    /\ k \in codes /\ approved[k].server = s /\ approved[k].client = c /\ approved[k].ends >= now

ChallengeForAuthorizationCode(q, s, c, k) ==
    /\ request[q] = NoRequest /\ ValidCodeRecord(s, c, k)
    /\ request' = [request EXCEPT ![q] = [step |-> "code", server |-> s, client |-> c, code |-> k]]
    /\ UNCHANGED <<up, now, clients, page, approved, codes, pairs, access, refresh, revoked>>

ExchangeFoundCode(q) ==  \* mutant: the code that the challenge found is used
    LET r == request[q] IN
    /\ r.step = "code" /\ request' = [request EXCEPT ![q] = NoRequest]
    /\ codes' = codes \ {r.code}
    /\ SaveTokenPair(Record(Grant("code", r.code), r.code, r.client,
            IF approved[r.code].scope = Unsaid THEN Supported ELSE approved[r.code].scope,
            approved[r.code].resource), {})
    /\ UNCHANGED <<up, now, clients, page, approved, revoked>>

ExchangeAuthorizationCode(q) ==
    LET r == request[q] IN
    /\ r.step = "code" /\ request' = [request EXCEPT ![q] = NoRequest]
    /\ IF ValidCodeRecord(r.server, r.client, r.code)
       THEN /\ codes' = codes \ {r.code}
            /\ SaveTokenPair(Record(Grant("code", r.code), r.code, r.client,
                    IF approved[r.code].scope = Unsaid THEN Supported ELSE approved[r.code].scope,
                    approved[r.code].resource), {})
       ELSE UNCHANGED <<codes, pairs, access, refresh>>
    /\ UNCHANGED <<up, now, clients, page, approved, revoked>>

(***************************************************************************)
(* exchangeRefreshToken(): the row is read and checked, then the pair is   *)
(* saved; another server may come between.                                 *)
(***************************************************************************)
ReadRefreshForAnyScope(q, s, c, n, scopes) ==  \* mutant: any supported scope may be asked for
    /\ request[q] = NoRequest /\ s \in up /\ c \in clients
    /\ n \in refresh /\ pairs[n].client = c /\ pairs[n].refreshEnds >= now
    /\ pairs[n].resource \in Accepts[s]
    /\ scopes # Unsaid => scopes \subseteq Supported
    /\ request' = [request EXCEPT ![q] = [step |-> "refresh", server |-> s, client |-> c,
          from |-> n, scopes |-> IF scopes = Unsaid THEN pairs[n].scopes ELSE scopes]]
    /\ UNCHANGED <<up, now, clients, page, approved, codes, pairs, access, refresh, revoked>>

ReadRefreshToken(q, s, c, n, scopes) ==
    /\ request[q] = NoRequest /\ s \in up /\ c \in clients
    /\ n \in refresh /\ pairs[n].client = c /\ pairs[n].refreshEnds >= now
    /\ pairs[n].resource \in Accepts[s]
    /\ scopes # Unsaid => scopes \subseteq pairs[n].scopes
    /\ request' = [request EXCEPT ![q] = [step |-> "refresh", server |-> s, client |-> c,
          from |-> n, scopes |-> IF scopes = Unsaid THEN pairs[n].scopes ELSE scopes]]
    /\ UNCHANGED <<up, now, clients, page, approved, codes, pairs, access, refresh, revoked>>

ExchangeRefreshToken(q) ==
    LET r == request[q] IN
    /\ r.step = "refresh" /\ request' = [request EXCEPT ![q] = NoRequest]
    /\ SaveTokenPair(Record(Grant("refresh", r.from), pairs[r.from].origin, r.client, r.scopes,
                            pairs[r.from].resource), {r.from})
    /\ UNCHANGED <<up, now, clients, page, approved, codes, revoked>>

\* revokeToken(): of the token that is named, not of its pair.
Revoke(s, n, kind) ==
    /\ s \in up /\ n \in DOMAIN pairs /\ Cardinality(revoked) < MaxRevoked
    /\ n \in (IF kind = "access" THEN access ELSE refresh)
    /\ access' = IF kind = "access" THEN access \ {n} ELSE access
    /\ refresh' = IF kind = "refresh" THEN refresh \ {n} ELSE refresh
    /\ revoked' = revoked \union {<<n, kind>>}
    /\ UNCHANGED <<up, now, clients, page, approved, codes, pairs, request>>

Tick == now < MaxTime /\ now' = now + 1
        /\ UNCHANGED <<up, clients, page, approved, codes, pairs, access, refresh, revoked, request>>

Next ==
    \/ \E s \in Servers :
          \/ Start(s) \/ Stop(s) \/ Approve(s)
          \/ \E c \in Clients :
                \/ Register(s, c)
                \/ \E scopes \in Scopes \union {Unsaid}, r \in Resources : ShowForm(s, c, scopes, r)
                \/ \E q \in Requests, k \in codes : ChallengeForAuthorizationCode(q, s, c, k)
                \/ \E q \in Requests, n \in refresh, scopes \in Scopes \union {Unsaid} :
                      ReadRefreshToken(q, s, c, n, scopes)
          \/ \E n \in DOMAIN pairs, kind \in {"access", "refresh"} : Revoke(s, n, kind)
    \/ \E q \in Requests : ExchangeAuthorizationCode(q) \/ ExchangeRefreshToken(q)
    \/ Tick

Spec == Init /\ [][Next]_vars

-------------------------------------------------------------------------------
\* The state is of the shape the code gives it.
Pages == [client: HostAllowed, resource: Resources, scope: Scopes \union {Unsaid},
          says: SUBSET Supported]
Approvals == [shown: Pages, server: Servers, client: HostAllowed, scope: Scopes \union {Unsaid},
              resource: Resources, ends: Nat]
Pairs == [from: [kind: {"code", "refresh"}, of: Nat], origin: Nat, client: HostAllowed,
          scopes: SUBSET Supported, resource: Resources, accessEnds: Nat, refreshEnds: Nat]
Exchanges == [step: {"code"}, server: Servers, client: HostAllowed, code: Nat]
Refreshes == [step: {"refresh"}, server: Servers, client: HostAllowed, from: Nat,
              scopes: SUBSET Supported]

TypeOK ==
    /\ up \subseteq Servers /\ now \in Nat /\ clients \subseteq HostAllowed
    /\ page \in Pages \union {NoPage}
    /\ approved \in Seq(Approvals) /\ codes \subseteq DOMAIN approved
    /\ pairs \in Seq(Pairs) /\ access \subseteq DOMAIN pairs /\ refresh \subseteq DOMAIN pairs
    /\ revoked \subseteq (DOMAIN pairs) \X {"access", "refresh"}
    /\ request \in [Requests -> Exchanges \union Refreshes \union {NoRequest}]

\* A code and a refresh token are worth one pair, whichever requests and
\* servers race for them, and a refresh token that was revoked before it was
\* used is worth none.
GrantsAreSpentOnce ==
    \A i, j \in DOMAIN pairs :
        /\ pairs[i].from = pairs[j].from => i = j
        /\ pairs[j].from = Grant("refresh", i) => <<i, "refresh">> \notin revoked

\* What the owner saw bounds every token, through any number of refreshes,
\* restarts and servers: it is for the client and the resource of the page
\* that was approved, with no scope the page did not name.
NothingBeyondApproval ==
    \A n \in DOMAIN pairs :
        LET shown == approved[pairs[n].origin].shown IN
        /\ pairs[n].client = shown.client /\ pairs[n].client \in HostAllowed
        /\ pairs[n].resource = shown.resource
        /\ pairs[n].scopes \subseteq shown.says

\* A token pair comes from one grant that was still good, and gives what the owner approved.
TokensAreGranted == GrantsAreSpentOnce /\ NothingBeyondApproval

(***************************************************************************)
(* What the promises rest on.  They are kept by every step, together.      *)
(***************************************************************************)
\* A code and a refresh token that can still be used have not been used.
UnusedIsUnspent ==
    \A n \in DOMAIN pairs :
        /\ pairs[n].from.kind = "code" => pairs[n].from.of \in DOMAIN approved \ codes
        /\ pairs[n].from.kind = "refresh" => pairs[n].from.of \in DOMAIN pairs \ refresh
RevokedIsGone == \A n \in DOMAIN pairs : <<n, "refresh">> \in revoked => n \notin refresh

\* A page says which scopes it asks for, and an approval repeats its page.
PageIsHonest(p) == p.says = IF p.scope = Unsaid THEN Supported ELSE p.scope
ApprovalsAreOfPages ==
    /\ page # NoPage => PageIsHonest(page)
    /\ \A k \in DOMAIN approved :
          /\ PageIsHonest(approved[k].shown)
          /\ approved[k].client = approved[k].shown.client
          /\ approved[k].scope = approved[k].shown.scope
          /\ approved[k].resource = approved[k].shown.resource

\* A pair descends from an approval, and a request from the pair or code it has read.
PairsDescend == \A n \in DOMAIN pairs : pairs[n].origin \in DOMAIN approved
RequestsAreBounded ==
    \A q \in Requests :
        /\ request[q].step = "code" =>
              /\ request[q].code \in DOMAIN approved
              /\ approved[request[q].code].client = request[q].client
        /\ request[q].step = "refresh" =>
              /\ request[q].from \in DOMAIN pairs
              /\ pairs[request[q].from].client = request[q].client
              /\ request[q].scopes \subseteq pairs[request[q].from].scopes

GrantInv ==
    /\ UnusedIsUnspent /\ RevokedIsGone /\ ApprovalsAreOfPages /\ PairsDescend
    /\ RequestsAreBounded /\ TokensAreGranted
===============================================================================
