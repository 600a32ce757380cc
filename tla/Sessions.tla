------------------------------ MODULE Sessions ------------------------------
(***************************************************************************)
(* The sessions of one account: services/core auth (login, MFA, refresh    *)
(* tokens, lockout) and the session routes of apps/admin-web.              *)
(*                                                                         *)
(* Every handler runs its database statements one at a time, interleaved   *)
(* with the other handlers; `at' names the next statement.  A browser has  *)
(* one cookie jar for all its tabs, read when a request starts and written *)
(* when its answer arrives.                                                *)
(***************************************************************************)
EXTENDS Integers, FiniteSets

CONSTANTS Browsers, Requests, Tokens, Families, Codes, Secrets,
          MaxFailures, \* MAX_FAILURES
          MaxOps,      \* bound: requests in a behaviour
          None

ASSUME SessionsAssumption ==
    /\ MaxFailures \in Nat \ {0} /\ MaxOps \in Nat
    /\ None \notin Tokens \cup Families \cup Codes \cup Secrets
    /\ IsFiniteSet(Requests)

VARIABLES token,  \* identity.refresh_tokens; family None: not issued yet
          user,   \* identity.users: the account
          code,   \* identity.mfa_recovery_codes
          jar,    \* the cookies of a browser
          req,    \* the requests being served
          ops,    \* requests begun
          guesses,   \* ghost: wrong secrets tried since the last lock or sign-in
          opened,    \* ghost: the sessions each recovery code opened
          closed,    \* ghost: families revoked while nobody was issuing into them
          loggedOut, \* ghost: families whose logout was asked for
          confirmed, \* ghost: the secret a code was last checked against
          mishap,    \* ghost: a lost answer, a failed request or two refreshes of one token
          tangled    \* ghost: two changes of the MFA settings overlapped

ghosts == <<guesses, opened, closed, loggedOut, confirmed, mishap, tangled>>
vars == <<token, user, code, jar, req, ops, ghosts>>

Idle == [at |-> "idle"]

\* What a handler holds: the token it presented or issued, the family it acts on,
\* the recovery code or TOTP secret it was given, and the answer it will send.
Req == [op : {"login", "mfa", "refresh", "logout", "enroll", "confirm", "disable"},
        at : {"fail", "lock", "spend", "claim", "load", "issue", "revoke", "write", "reply"},
        browser : Browsers, token : Tokens \cup {None}, family : Families \cup {None},
        code : Codes \cup {None}, secret : Secrets \cup {None},
        reply : {"none", "tokens", "mfa", "clear", "error"}]

Settings == {"enroll", "confirm", "disable"}
MostGuesses == MaxFailures + Cardinality(Requests)   \* bound: the counter stops there

TokenTypeOK == token \in [Tokens -> [family : Families \cup {None}, rotated : BOOLEAN,
                                     revoked : BOOLEAN, expired : BOOLEAN]]

ReqTypeOK == req \in [Requests -> {Idle} \cup Req]

UserTypeOK == user \in [active : BOOLEAN, failed : Nat, locked : BOOLEAN,
                        enabled : BOOLEAN, secret : Secrets \cup {None}]

\* Every record and ghost of the model has its shape.
TypeOK ==
    /\ TokenTypeOK /\ ReqTypeOK /\ UserTypeOK
    /\ code \in [Codes -> {"free", "unused", "used", "deleted"}]
    /\ jar \in [Browsers -> [access : {"none", "valid", "expired"},
                             refresh : Tokens \cup {None}, mfa : BOOLEAN]]
    /\ ops \in 0..MaxOps
    /\ guesses \in 0..MostGuesses
    /\ opened \in [Codes -> Nat]
    /\ closed \subseteq Families /\ loggedOut \subseteq Families
    /\ confirmed \in Secrets \cup {None}
    /\ mishap \in BOOLEAN /\ tangled \in BOOLEAN

EmptyJar == [access |-> "none", refresh |-> None, mfa |-> FALSE]

\* Nobody is signed in; MFA is off, or on with one unused recovery code.
Init ==
    /\ token = [t \in Tokens |-> [family |-> None, rotated |-> FALSE,
                                  revoked |-> FALSE, expired |-> FALSE]]
    /\ \E s \in Secrets \cup {None} :
          /\ user = [active |-> TRUE, failed |-> 0, locked |-> FALSE,
                     enabled |-> s # None, secret |-> s]
          /\ confirmed = s
          /\ IF s = None THEN code = [c \in Codes |-> "free"]
             ELSE \E new \in Codes : code = [c \in Codes |-> IF c = new THEN "unused" ELSE "free"]
    /\ jar = [b \in Browsers |-> EmptyJar]
    /\ req = [r \in Requests |-> Idle]
    /\ ops = 0
    /\ guesses = 0
    /\ opened = [c \in Codes |-> 0]
    /\ closed = {} /\ loggedOut = {}
    /\ mishap = FALSE /\ tangled = FALSE

-----------------------------------------------------------------------------

Issued(t) == token[t].family # None

\* rotatedAt and revokedAt are null.
Live(t) == Issued(t) /\ ~token[t].rotated /\ ~token[t].revoked

At(r, stage) == req[r] # Idle /\ req[r].at = stage

\* A request that will create a token, or may: past the claim, before the insert.
Issuing(r) == At(r, "load") \/ At(r, "issue")

InFlight(op) == {r \in Requests : req[r] # Idle /\ req[r].op \in op}

\* randomUUID
FreshFamilies == {f \in Families : /\ \A t \in Tokens : token[t].family # f
                                   /\ \A r \in Requests : req[r] # Idle => req[r].family # f}

FreshSecrets == {s \in Secrets : /\ s # user.secret /\ s # confirmed
                                 /\ \A r \in Requests : req[r] # Idle => req[r].secret # s}

Begin(r) == req[r] = Idle /\ ops < MaxOps /\ ops' = ops + 1

Start(r, b, op, stage, t, f, c, s) ==
    /\ Begin(r)
    /\ req' = [req EXCEPT ![r] =
                 [op |-> op, at |-> stage, browser |-> b, token |-> t, family |-> f,
                  code |-> c, secret |-> s, reply |-> "none"]]

Goto(r, stage) == req' = [req EXCEPT ![r].at = stage]

Answer(r, reply) == req' = [req EXCEPT ![r].at = "reply", ![r].reply = reply]

StartAnswered(r, b, op, reply) ==
    /\ Begin(r)
    /\ req' = [req EXCEPT ![r] =
                 [op |-> op, at |-> "reply", browser |-> b, token |-> None, family |-> None,
                  code |-> None, secret |-> None, reply |-> reply]]

Guess == guesses' = IF ~mishap /\ guesses < MostGuesses THEN guesses + 1 ELSE guesses

-----------------------------------------------------------------------------
(* Login: the account is read once; the password is checked against it. *)

MayTry == ~user.locked

LoginWrong(r, b) ==
    /\ MayTry
    /\ Start(r, b, "login", "fail", None, None, None, None)
    /\ Guess
    /\ UNCHANGED <<token, user, code, jar, opened, closed, loggedOut, confirmed, mishap, tangled>>

LoginRight(r, b) ==
    /\ MayTry /\ user.active
    /\ \/ user.enabled /\ StartAnswered(r, b, "login", "mfa")
       \/ ~user.enabled /\ \E f \in FreshFamilies : Start(r, b, "login", "issue", None, f, None, None)
    /\ UNCHANGED <<token, user, code, jar, ghosts>>

\* verifyMfa with a TOTP code (right or wrong) or a recovery code.
VerifyMfa(r, b) ==
    /\ jar[b].mfa
    /\ user.enabled /\ user.secret # None /\ MayTry /\ user.active
    /\ \/ /\ \E f \in FreshFamilies : Start(r, b, "mfa", "issue", None, f, None, None)
          /\ UNCHANGED guesses
       \/ Start(r, b, "mfa", "fail", None, None, None, None) /\ Guess
       \/ /\ \E c \in Codes, f \in FreshFamilies :
                code[c] # "free" /\ Start(r, b, "mfa", "spend", None, f, c, None)
          /\ UNCHANGED guesses
    /\ UNCHANGED <<token, user, code, jar, opened, closed, loggedOut, confirmed, mishap, tangled>>

\* Faulty variant of Spendable: used codes pass.
SpendableAgain(c) == code[c] \in {"unused", "used"}

Spendable(c) == code[c] = "unused"

\* The update of a recovery code that was not used: count = 1 or the code is wrong.
SpendCode(r) ==
    /\ At(r, "spend")
    /\ \/ /\ Spendable(req[r].code)
          /\ code' = [code EXCEPT ![req[r].code] = "used"]
          /\ Goto(r, "issue") /\ UNCHANGED guesses
       \/ /\ ~Spendable(req[r].code)
          /\ req' = [req EXCEPT ![r].at = "fail", ![r].family = None]
          /\ Guess /\ UNCHANGED code
    /\ UNCHANGED <<token, user, jar, opened, closed, loggedOut, confirmed, mishap, tangled>>

\* Faulty variant of Threshold: one failure too late.
ThresholdLate == MaxFailures + 1

Threshold == MaxFailures

\* recordFailure: the increment, then the lock if it was one too many.
RecordFailure(r) ==
    /\ At(r, "fail")
    /\ user' = [user EXCEPT !.failed = @ + 1]
    /\ IF user.failed + 1 < Threshold THEN Answer(r, "error") ELSE Goto(r, "lock")
    /\ UNCHANGED <<token, code, jar, ghosts>>

Lock(r) ==
    /\ At(r, "lock")
    /\ user' = [user EXCEPT !.failed = 0, !.locked = TRUE]
    /\ guesses' = 0
    /\ Answer(r, "error")
    /\ UNCHANGED <<token, code, jar, opened, closed, loggedOut, confirmed, mishap, tangled>>

\* issue: the new token and the reset of the failures, in one transaction.
Issue(r) ==
    /\ At(r, "issue")
    /\ \E t \in Tokens :
          /\ ~Issued(t)
          /\ token' = [token EXCEPT ![t].family = req[r].family]
          /\ req' = [req EXCEPT ![r].at = "reply", ![r].reply = "tokens", ![r].token = t]
    /\ user' = [user EXCEPT !.failed = 0, !.locked = FALSE]
    /\ guesses' = 0
    /\ opened' = IF req[r].code = None THEN opened ELSE [opened EXCEPT ![req[r].code] = @ + 1]
    /\ UNCHANGED <<code, jar, closed, loggedOut, confirmed, mishap, tangled>>

-----------------------------------------------------------------------------
(* Refresh and logout *)

\* The middleware sends a page with an expired access token to the refresh route,
\* which presents the cookie's token: unknown or expired, it is refused at once.
Refresh(r, b) ==
    LET t == jar[b].refresh IN
    /\ jar[b].access = "expired"
    /\ \/ /\ t # None /\ ~token[t].expired
          /\ Start(r, b, "refresh", "claim", t, token[t].family, None, None)
          /\ mishap' = (mishap \/ \E q \in InFlight({"refresh"}) : req[q].token = t \/ req[q].family = token[t].family)
       \/ /\ t = None \/ token[t].expired
          /\ StartAnswered(r, b, "refresh", "clear")
          /\ UNCHANGED mishap
    /\ UNCHANGED <<token, user, code, jar, guesses, opened, closed, loggedOut, confirmed, tangled>>

\* Faulty variant of Claimable: rotated tokens still pass.
ClaimableTwice(t) == Issued(t) /\ ~token[t].revoked

Claimable(t) == Live(t)

\* The conditional update: one of several refreshes finds the token, the others
\* go on to revoke the family.
Claim(r) ==
    /\ At(r, "claim")
    /\ \/ /\ Claimable(req[r].token)
          /\ token' = [token EXCEPT ![req[r].token].rotated = TRUE]
          /\ Goto(r, "load")
       \/ /\ ~Claimable(req[r].token)
          /\ Goto(r, "revoke") /\ UNCHANGED token
    /\ UNCHANGED <<user, code, jar, ghosts>>

\* checkActive after the claim.
LoadUser(r) ==
    /\ At(r, "load")
    /\ IF user.active THEN Goto(r, "issue") ELSE Answer(r, "clear")
    /\ UNCHANGED <<token, user, code, jar, ghosts>>

\* Faulty variant of Family: only the token that was presented.
FamilyOfOne(r) == {req[r].token}

Family(r) == {t \in Tokens : token[t].family = req[r].family}

\* revokeFamily, of a reused token or of a logout.
RevokeFamily(r) ==
    /\ At(r, "revoke")
    /\ token' = [t \in Tokens |-> IF t \in Family(r)
                                  THEN [token[t] EXCEPT !.revoked = TRUE] ELSE token[t]]
    /\ closed' = IF \E q \in Requests : Issuing(q) /\ req[q].family = req[r].family
                 THEN closed ELSE closed \cup {req[r].family}
    /\ Answer(r, "clear")
    /\ UNCHANGED <<user, code, jar, guesses, opened, loggedOut, confirmed, mishap, tangled>>

\* The logout route calls core only with a refresh cookie, and core serves it only
\* with a valid access token; the cookies go either way.
Logout(r, b) ==
    LET t == jar[b].refresh IN
    /\ jar[b] # EmptyJar
    /\ \/ /\ t # None /\ jar[b].access = "valid"
          /\ Start(r, b, "logout", "revoke", t, token[t].family, None, None)
          /\ loggedOut' = loggedOut \cup {token[t].family}
       \/ /\ t = None \/ jar[b].access # "valid"
          /\ StartAnswered(r, b, "logout", "clear")
          /\ UNCHANGED loggedOut
    /\ UNCHANGED <<token, user, code, jar, guesses, opened, closed, confirmed, mishap, tangled>>

-----------------------------------------------------------------------------
(* MFA settings: read the account, check the code, then write. *)

\* Faulty variant of MayEnroll: an enabled secret is replaced.
MayEnrollAgain == TRUE

MayEnroll == ~user.enabled

StartSetting(r, b, op, s) ==
    /\ jar[b].access = "valid"
    /\ Start(r, b, op, "write", None, None, None, s)
    /\ tangled' = (tangled \/ InFlight(Settings) # {})
    /\ UNCHANGED <<token, user, code, jar, guesses, opened, closed, loggedOut, confirmed, mishap>>

EnrollMfa(r, b) == MayEnroll /\ \E s \in FreshSecrets : StartSetting(r, b, "enroll", s)

ConfirmMfa(r, b) == ~user.enabled /\ user.secret # None /\ StartSetting(r, b, "confirm", user.secret)

DisableMfa(r, b) == user.enabled /\ user.secret # None /\ StartSetting(r, b, "disable", user.secret)

Settled(r) == /\ Answer(r, "error")
              /\ UNCHANGED <<token, jar, guesses, opened, closed, loggedOut, mishap, tangled>>

WriteEnroll(r) ==
    /\ At(r, "write") /\ req[r].op = "enroll"
    /\ user' = [user EXCEPT !.secret = req[r].secret]
    /\ UNCHANGED <<code, confirmed>>
    /\ Settled(r)

\* The transaction that replaces the recovery codes and turns MFA on.
WriteConfirm(r) ==
    /\ At(r, "write") /\ req[r].op = "confirm"
    /\ \E new \in Codes :
          /\ code[new] = "free"
          /\ code' = [c \in Codes |-> IF c = new THEN "unused"
                                      ELSE IF code[c] = "free" THEN "free" ELSE "deleted"]
    /\ user' = [user EXCEPT !.enabled = TRUE]
    /\ confirmed' = req[r].secret
    /\ Settled(r)

WriteDisable(r) ==
    /\ At(r, "write") /\ req[r].op = "disable"
    /\ code' = [c \in Codes |-> IF code[c] = "free" THEN "free" ELSE "deleted"]
    /\ user' = [user EXCEPT !.enabled = FALSE, !.secret = None]
    /\ UNCHANGED confirmed
    /\ Settled(r)

-----------------------------------------------------------------------------
(* Answers, time and failures *)

\* Faulty variant of AfterTokens: the refresh cookie keeps the old token.
AfterTokensStale(b, t) == [access |-> "valid", refresh |-> IF jar[b].refresh = None THEN t ELSE jar[b].refresh,
                           mfa |-> FALSE]

\* setTokens
AfterTokens(b, t) == [access |-> "valid", refresh |-> t, mfa |-> FALSE]

\* clearSession
Cleared == EmptyJar

\* The answer reaches the browser: setTokens, setMfaToken or clearSession.
Reply(r) ==
    LET q == req[r]
        b == q.browser
    IN /\ At(r, "reply")
       /\ jar' = CASE q.reply = "tokens" -> [jar EXCEPT ![b] = AfterTokens(b, q.token)]
                   [] q.reply = "mfa" -> [jar EXCEPT ![b].mfa = TRUE]
                   [] q.reply = "clear" -> [jar EXCEPT ![b] = Cleared]
                   [] OTHER -> jar
       /\ req' = [req EXCEPT ![r] = Idle]
       /\ UNCHANGED <<token, user, code, ghosts>>

\* The connection breaks, a server stops, or (refresh only) a statement fails and
\* the route takes the error for a rejected token.
Fail(r) ==
    /\ req[r] # Idle
    /\ \/ req' = [req EXCEPT ![r] = Idle]
       \/ req[r].op = "refresh" /\ ~At(r, "reply") /\ Answer(r, "clear")
    /\ mishap' = TRUE
    /\ guesses' = 0
    /\ UNCHANGED <<token, user, code, jar, opened, closed, loggedOut, confirmed, tangled>>

\* ACCESS_TTL (or, on a page, 30 seconds before) and MFA_TTL.
ExpireCookies(b) ==
    /\ \/ jar[b].access = "valid" /\ jar' = [jar EXCEPT ![b].access = "expired"]
       \/ jar[b].mfa /\ jar' = [jar EXCEPT ![b].mfa = FALSE]
    /\ UNCHANGED <<token, user, code, req, ghosts>>

\* REFRESH_TTL_MS
ExpireToken(t) ==
    /\ Live(t) /\ ~token[t].expired
    /\ token' = [token EXCEPT ![t].expired = TRUE]
    /\ UNCHANGED <<user, code, jar, req, ghosts>>

\* LOCK_MS
Unlock ==
    /\ user.locked
    /\ user' = [user EXCEPT !.locked = FALSE]
    /\ UNCHANGED <<token, code, jar, req, ghosts>>

\* checkActive: the account or its tenant is stopped or started again (see Members);
\* UsersService.update also clears the failures of an account it activates.
SetActive ==
    /\ \/ user' = [user EXCEPT !.active = ~@] /\ UNCHANGED guesses
       \/ user' = [user EXCEPT !.active = TRUE, !.failed = 0, !.locked = FALSE] /\ guesses' = 0
    /\ UNCHANGED <<token, code, jar, req, opened, closed, loggedOut, confirmed, mishap, tangled>>

Serve(r) ==
    \/ SpendCode(r) \/ RecordFailure(r) \/ Lock(r) \/ Issue(r)
    \/ Claim(r) \/ LoadUser(r) \/ RevokeFamily(r)
    \/ WriteEnroll(r) \/ WriteConfirm(r) \/ WriteDisable(r)
    \/ Reply(r) \/ Fail(r)

Ask(r, b) ==
    \/ LoginWrong(r, b) \/ LoginRight(r, b) \/ VerifyMfa(r, b)
    \/ Refresh(r, b) \/ Logout(r, b)
    \/ EnrollMfa(r, b) \/ ConfirmMfa(r, b) \/ DisableMfa(r, b)

Next ==
    \/ \E r \in Requests : Serve(r) /\ UNCHANGED ops
    \/ \E r \in Requests, b \in Browsers : Ask(r, b)
    \/ /\ \/ \E b \in Browsers : ExpireCookies(b)
          \/ \E t \in Tokens : ExpireToken(t)
          \/ Unlock \/ SetActive
       /\ UNCHANGED ops

Spec == Init /\ [][Next]_vars
-----------------------------------------------------------------------------
(* Properties *)

\* A family never has two tokens that would refresh, nor one besides a refresh
\* that is about to create the next: whatever the interleaving of refreshes,
\* logouts and failures, each rotation (auth.service.ts:162) has one winner.
OneLiveTokenPerFamily ==
    /\ \A t, u \in Tokens :
          Live(t) /\ Live(u) /\ token[t].family = token[u].family => t = u
    /\ \A q, r \in Requests :
          Issuing(q) /\ Issuing(r) /\ req[q].family = req[r].family => q = r
    /\ \A t \in Tokens, r \in Requests :
          Live(t) /\ Issuing(r) => token[t].family # req[r].family

\* A session that was revoked (logout, or a reused token) while no refresh of it
\* was past its claim stays revoked.  A refresh between its claim and issue is not
\* stopped: its token outlives the revocation (auth.service.ts:303).
RevokedStaysRevoked ==
    \A f \in closed : /\ \A t \in Tokens : Live(t) => token[t].family # f
                      /\ \A r \in Requests : Issuing(r) => req[r].family # f

\* A recovery code opens one session at most (auth.service.ts:142).
CodeOpensOnce == \A c \in Codes : opened[c] <= 1

\* However many requests check guesses in parallel, the account is locked after
\* MaxFailures of them and those in flight (auth.service.ts:279), until the lock
\* ends or somebody signs in or refreshes.  A request that dies before its
\* increment takes its guess with it.
GuessesAreBounded == ~mishap => guesses < MostGuesses

\* MFA that is on has the secret the user proved to hold, and codes to go with it,
\* unless two changes of the settings overlapped: then a confirmation can turn on
\* a secret that enrollMfa replaced, or that disableMfa removed
\* (auth.service.ts:184-225), which locks the user out.
MfaIsConfirmed ==
    ~tangled /\ user.enabled => /\ user.secret # None
                                /\ user.secret = confirmed
                                /\ \E c \in Codes : code[c] \in {"unused", "used"}

\* The console never ends a session of its own: a family is revoked only after a
\* logout, a lost answer, a failed request or two tabs refreshing at once
\* (middleware.ts:31).
OnlyMishapsEndSessions ==
    ~mishap => \A t \in Tokens : token[t].revoked => token[t].family \in loggedOut
=============================================================================
