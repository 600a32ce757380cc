------------------------------- MODULE Access -------------------------------
(***************************************************************************)
(* Tokens of machines: the API clients of a tenant (services/core oauth,   *)
(* api-clients, tenants) and the service token that a service keeps        *)
(* (packages/ts-common service-token).  Time is a counter of ticks; a      *)
(* token is its client and the tick it was signed at.                      *)
(***************************************************************************)
EXTENDS Integers, FiniteSets

CONSTANTS Clients, Requests, Callers,
          ClientTTL,   \* CLIENT_TOKEN_TTL
          ServiceTTL,  \* SERVICE_TOKEN_TTL
          Tolerance,   \* clockTolerance of a verifier
          Skew,        \* refreshSkewMs
          Latency,     \* bound: ticks an answer with a service token travels
          FailureWindow, MaxFailures,
          MaxClock, MaxOps,  \* bounds: ticks and requests in a behaviour
          None

AccessAssumption ==
    /\ {ClientTTL, ServiceTTL, Tolerance, Skew, Latency, FailureWindow} \subseteq Nat
    /\ {MaxClock, MaxOps, MaxFailures} \subseteq Nat /\ MaxFailures > 0
    /\ Latency <= Skew + Tolerance /\ Latency < ServiceTTL + Tolerance
    /\ None \notin Int /\ IsFiniteSet(Requests)

VARIABLES clock,
          revokedAt,   \* api_clients.revoked_at
          suspendedAt, \* since when the tenant is suspended
          failures,    \* OAuthService.failures
          tokens,      \* client tokens signed; late (ghost): the client was stopped after it was read
          events,      \* system.api_client.revoked published: client and revoked_at
          req,         \* requests being served by core
          cached,      \* ServiceTokenClient.token
          inflight,    \* ServiceTokenClient.inflight: when core signed, and who waits
          ops,
          expired      \* ghost: a caller was handed a token no verifier takes

vars == <<clock, revokedAt, suspendedAt, failures, tokens, events, req, cached, inflight, ops, expired>>
core == <<revokedAt, suspendedAt, failures, tokens, events, req>>
service == <<cached, inflight, expired>>

Time == 0..MaxClock
Idle == [at |-> "idle"]

\* What clientToken and revoke hold: when the request began (now), the secret's
\* correctness, whether the row that was read lets the client in, and (ghost)
\* whether the client was stopped by then.
Req == [at : {"read", "check", "sign", "publish"}, client : Clients, now : Time,
        right : BOOLEAN, usable : BOOLEAN, stopped : BOOLEAN]

\* Every variable has its shape.
TypeOK ==
    /\ clock \in Time /\ ops \in 0..MaxOps
    /\ revokedAt \in [Clients -> Time \cup {None}]
    /\ suspendedAt \in Time \cup {None}
    /\ failures \in [Clients -> [count : 0..(MaxFailures + Cardinality(Requests)),
                                 resetAt : 0..(MaxClock + FailureWindow)]]
    /\ tokens \subseteq [client : Clients, iat : Time, late : BOOLEAN]
    /\ events \subseteq Clients \X Time
    /\ req \in [Requests -> {Idle} \cup Req]
    /\ cached \in [iat : Time, expiresAt : 0..(MaxClock + ServiceTTL)] \cup {None}
    /\ inflight \in [iat : Time \cup {None}, waiting : SUBSET Callers] \cup {None}
    /\ expired \in BOOLEAN

Init ==
    /\ clock = 0 /\ ops = 0
    /\ revokedAt = [c \in Clients |-> None]
    /\ suspendedAt = None
    /\ failures = [c \in Clients |-> [count |-> 0, resetAt |-> 0]]
    /\ tokens = {} /\ events = {}
    /\ req = [r \in Requests |-> Idle]
    /\ cached = None /\ inflight = None /\ expired = FALSE

-----------------------------------------------------------------------------
(* Client tokens *)

At(r, stage) == req[r] # Idle /\ req[r].at = stage

Begin(r, stage, c, right) ==
    /\ req[r] = Idle /\ ops < MaxOps /\ ops' = ops + 1
    /\ req' = [req EXCEPT ![r] = [at |-> stage, client |-> c, now |-> clock, right |-> right,
                                   usable |-> FALSE, stopped |-> FALSE]]

End(r) == req' = [req EXCEPT ![r] = Idle]

Blocked(c) == failures[c].resetAt > clock /\ failures[c].count >= MaxFailures

\* clientToken: 429, or look the client up.
AskToken(r, c) ==
    /\ ~Blocked(c)
    /\ \E right \in BOOLEAN : Begin(r, "read", c, right)
    /\ UNCHANGED <<clock, revokedAt, suspendedAt, failures, tokens, events, service>>

\* The client is revoked, or its tenant suspended.
Stopped(c) == revokedAt[c] # None \/ suspendedAt # None

Usable(c) == revokedAt[c] = None /\ suspendedAt = None

\* findUnique, before the secret is verified.
ReadClient(r) ==
    /\ At(r, "read")
    /\ req' = [req EXCEPT ![r].at = "check", ![r].usable = Usable(req[r].client),
                            ![r].stopped = Stopped(req[r].client)]
    /\ UNCHANGED <<clock, revokedAt, suspendedAt, failures, tokens, events, service, ops>>

\* recordFailure: a new window, or one more in the window that was open when the request began.
Failed(c, now) == IF failures[c].resetAt <= now THEN [count |-> 1, resetAt |-> now + FailureWindow]
                  ELSE [failures[c] EXCEPT !.count = @ + 1]

\* The secret was verified; the row is the one read before. (A scope that was not
\* granted ends the request and changes nothing, as Fail does.)
CheckSecret(r) ==
    LET q == req[r] IN
    /\ At(r, "check")
    /\ IF q.right /\ q.usable THEN req' = [req EXCEPT ![r].at = "sign"] ELSE End(r)
    /\ failures' = CASE ~q.right -> [failures EXCEPT ![q.client] = Failed(q.client, q.now)]
                     [] q.right /\ q.usable -> [failures EXCEPT ![q.client] = [count |-> 0, resetAt |-> 0]]
                     [] OTHER -> failures
    /\ UNCHANGED <<clock, revokedAt, suspendedAt, tokens, events, service, ops>>

\* lastUsedAt is written, then the token is signed.
Sign(r) ==
    LET c == req[r].client IN
    /\ At(r, "sign")
    /\ tokens' = tokens \cup {[client |-> c, iat |-> clock, late |-> Stopped(c) /\ ~req[r].stopped]}
    /\ End(r)
    /\ UNCHANGED <<clock, revokedAt, suspendedAt, failures, events, service, ops>>

\* The request dies with its connection or its process.
Fail(r) == req[r] # Idle /\ End(r)
           /\ UNCHANGED <<clock, revokedAt, suspendedAt, failures, tokens, events, service, ops>>

\* failures lives in the process.
Restart == /\ failures' = [c \in Clients |-> [count |-> 0, resetAt |-> 0]]
           /\ req' = [r \in Requests |-> Idle]
           /\ UNCHANGED <<clock, revokedAt, suspendedAt, tokens, events, service, ops>>

-----------------------------------------------------------------------------
(* Revocation and suspension *)

\* updateMany where revokedAt is null.
RevokedAt(c) == IF revokedAt[c] = None THEN clock ELSE revokedAt[c]

Revoke(r, c) ==
    /\ Begin(r, "publish", c, TRUE)
    /\ revokedAt' = [revokedAt EXCEPT ![c] = RevokedAt(c)]
    /\ UNCHANGED <<clock, suspendedAt, failures, tokens, events, service>>

\* The event, or an error: the caller tries again.
PublishRevoked(r) ==
    LET c == req[r].client IN
    /\ At(r, "publish")
    /\ events' = events \cup {<<c, revokedAt[c]>>}
    /\ End(r)
    /\ UNCHANGED <<clock, revokedAt, suspendedAt, failures, tokens, service, ops>>

\* Faulty variant of Window: without the tolerance of the verifiers.
WindowTight == ClientTTL

\* REVOCATION_WINDOW_MS
Window == ClientTTL + Tolerance

\* GET /internal/v1/revocations
Listed(c) == revokedAt[c] # None /\ revokedAt[c] > clock - Window

\* TenantsService.update
SetTenantStatus ==
    /\ ops < MaxOps /\ ops' = ops + 1
    /\ suspendedAt' = IF suspendedAt = None THEN clock ELSE None
    /\ UNCHANGED <<clock, revokedAt, failures, tokens, events, req, service>>

-----------------------------------------------------------------------------
(* ServiceTokenClient *)

\* A verifier takes a token signed at iat.
Valid(iat, ttl) == clock < iat + ttl + Tolerance

\* Faulty variant of Fresh: the token is used until the moment it expires, and then some.
FreshForLong == cached # None /\ clock < cached.expiresAt + Skew

Fresh == cached # None /\ clock < cached.expiresAt - Skew

\* getToken
GetToken(k) ==
    /\ \/ /\ Fresh
          /\ expired' = (expired \/ ~Valid(cached.iat, ServiceTTL))
          /\ UNCHANGED inflight
       \/ /\ ~Fresh
          /\ inflight' = IF inflight = None THEN [iat |-> None, waiting |-> {k}]
                         ELSE [inflight EXCEPT !.waiting = @ \cup {k}]
          /\ UNCHANGED expired
    /\ UNCHANGED <<clock, core, cached, ops>>

\* serviceToken in core signs.
SignService ==
    /\ inflight # None /\ inflight.iat = None
    /\ inflight' = [inflight EXCEPT !.iat = clock]
    /\ UNCHANGED <<clock, core, cached, expired, ops>>

\* The answer: expiresAt counts from its arrival.
Answered ==
    /\ inflight # None /\ inflight.iat # None
    /\ cached' = [iat |-> inflight.iat, expiresAt |-> clock + ServiceTTL]
    /\ expired' = (expired \/ ~Valid(inflight.iat, ServiceTTL))
    /\ inflight' = None
    /\ UNCHANGED <<clock, core, ops>>

\* An error for everybody who waits; the next caller asks again.
FetchFails ==
    /\ inflight # None /\ inflight' = None
    /\ UNCHANGED <<clock, core, cached, expired, ops>>

\* An answer on its way does not travel longer than Latency.
Tick ==
    /\ clock < MaxClock /\ clock' = clock + 1
    /\ inflight # None /\ inflight.iat # None => clock < inflight.iat + Latency
    /\ UNCHANGED <<core, service, ops>>

Next ==
    \/ \E r \in Requests : \/ \E c \in Clients : AskToken(r, c) \/ Revoke(r, c)
                           \/ ReadClient(r) \/ CheckSecret(r) \/ Sign(r) \/ PublishRevoked(r) \/ Fail(r)
    \/ Restart \/ SetTenantStatus
    \/ \E k \in Callers : GetToken(k)
    \/ SignService \/ Answered \/ FetchFails
    \/ Tick

Spec == Init /\ [][Next]_vars
-----------------------------------------------------------------------------
(* Properties *)

\* A token that is still valid has a client verifiers can let in: once the client is
\* revoked, one that looks at the list refuses its tokens for as long as they are valid, to
\* the tick (oauth.service.ts:131), and once its tenant was suspended for a whole window no
\* valid token is left, since no other check stops it (tenants.service.ts:116).  The exception
\* is a token signed after the stop, by a request that had read the client before it
\* (oauth.service.ts:98).
StoppedClientsStayOut ==
    \A x \in tokens : Valid(x.iat, ClientTTL) /\ ~x.late =>
        /\ revokedAt[x.client] # None => Listed(x.client)
        /\ suspendedAt # None => clock < suspendedAt + Window

\* A caller is never handed a service token that verifiers refuse, although
\* expiresAt counts from the arrival of the answer (service-token.ts:43).
HandedTokensWork == ~expired
=============================================================================
