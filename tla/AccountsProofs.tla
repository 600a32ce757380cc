--------------------------- MODULE AccountsProofs --------------------------
(***************************************************************************)
(* Theorems about Sessions, Access and Members, for any number of users,   *)
(* clients, browsers, requests, tokens and roles: what an account, an API  *)
(* client and a service can get into, and who administers a tenant.        *)
(***************************************************************************)
EXTENDS Sessions, MCAccounts, FiniteSetTheorems, TLAPS

-----------------------------------------------------------------------------
(* Sessions *)

\* A handler that will insert a token if nothing stops it: it holds its family.
Pending(r) == At(r, "spend") \/ Issuing(r)

\* What cookies and answers carry are tokens that were issued.
CookiesInv ==
    /\ \A b \in Browsers : jar[b].refresh # None => Issued(jar[b].refresh)
    /\ \A r \in Requests : At(r, "reply") /\ req[r].reply = "tokens"
                              => req[r].token \in Tokens /\ Issued(req[r].token)

\* A refresh or logout acts on the family of the token it presented; a sign-in
\* holds a family no token has before it spends its code.
FamiliesInv ==
    /\ \A r \in Requests : At(r, "claim") \/ At(r, "revoke")
          => /\ req[r].token \in Tokens /\ Issued(req[r].token)
             /\ req[r].family = token[req[r].token].family
    /\ \A r \in Requests : Pending(r) => req[r].family \in Families
    /\ \A r \in Requests : At(r, "spend") => \A t \in Tokens : token[t].family # req[r].family

\* OneLiveTokenPerFamily, with every handler that holds a family.
OneHolder ==
    /\ \A t, u \in Tokens :
          Live(t) /\ Live(u) /\ token[t].family = token[u].family => t = u
    /\ \A q, r \in Requests :
          Pending(q) /\ Pending(r) /\ req[q].family = req[r].family => q = r
    /\ \A t \in Tokens, r \in Requests :
          Live(t) /\ Pending(r) => token[t].family # req[r].family

\* A closed family has tokens, none of them live, and nobody is about to add one.
ClosedInv ==
    \A f \in closed : /\ \E t \in Tokens : token[t].family = f
                      /\ \A t \in Tokens : Live(t) => token[t].family # f
                      /\ \A r \in Requests : Pending(r) => req[r].family # f

SInv == TypeOK /\ CookiesInv /\ FamiliesInv /\ OneHolder /\ ClosedInv

-----------------------------------------------------------------------------
(* Types *)

LEMMA BoundIsNat == MostGuesses \in Nat
<1>1. Cardinality(Requests) \in Nat
  BY SessionsAssumption, FS_CardinalityType
<1> QED BY <1>1, SessionsAssumption DEF MostGuesses

\* The actions that begin a request build a request of the right shape.
LEMMA StartTypes ==
  ASSUME TypeOK, NEW r \in Requests, NEW b \in Browsers,
         NEW op \in {"login", "mfa", "refresh", "logout", "enroll", "confirm", "disable"},
         NEW stage \in {"fail", "spend", "claim", "issue", "revoke", "write"},
         NEW t \in Tokens \cup {None}, NEW f \in Families \cup {None},
         NEW c \in Codes \cup {None}, NEW s \in Secrets \cup {None},
         Start(r, b, op, stage, t, f, c, s)
  PROVE  ReqTypeOK' /\ ops' \in 0..MaxOps
<1> DEFINE new == [op |-> op, at |-> stage, browser |-> b, token |-> t, family |-> f,
                   code |-> c, secret |-> s, reply |-> "none"]
<1>1. new \in Req
  BY DEF Req
<1>2. req' = [req EXCEPT ![r] = new] /\ ops < MaxOps /\ ops' = ops + 1
  BY DEF Start, Begin
<1>3. req \in [Requests -> {Idle} \cup Req] /\ ops \in 0..MaxOps
  BY DEF TypeOK, ReqTypeOK
<1> HIDE DEF new
<1> QED BY <1>1, <1>2, <1>3, SessionsAssumption DEF ReqTypeOK

LEMMA StartAnsweredTypes ==
  ASSUME TypeOK, NEW r \in Requests, NEW b \in Browsers,
         NEW op \in {"login", "refresh", "logout"}, NEW reply \in {"mfa", "clear"},
         StartAnswered(r, b, op, reply)
  PROVE  ReqTypeOK' /\ ops' \in 0..MaxOps
<1> DEFINE new == [op |-> op, at |-> "reply", browser |-> b, token |-> None, family |-> None,
                   code |-> None, secret |-> None, reply |-> reply]
<1>1. new \in Req
  BY DEF Req
<1>2. req' = [req EXCEPT ![r] = new] /\ ops < MaxOps /\ ops' = ops + 1
  BY DEF StartAnswered, Begin
<1>3. req \in [Requests -> {Idle} \cup Req] /\ ops \in 0..MaxOps
  BY DEF TypeOK, ReqTypeOK
<1> HIDE DEF new
<1> QED BY <1>1, <1>2, <1>3, SessionsAssumption DEF ReqTypeOK

\* A step of a handler keeps the shape of its request.
LEMMA GotoTypes ==
  ASSUME ReqTypeOK, NEW r \in Requests, req[r] # Idle,
         NEW stage \in {"fail", "lock", "claim", "load", "issue", "revoke"}, Goto(r, stage)
  PROVE  ReqTypeOK'
<1>1. [req[r] EXCEPT !.at = stage] \in Req
  BY DEF Req, ReqTypeOK
<1> QED BY <1>1 DEF ReqTypeOK, Goto

LEMMA AnswerTypes ==
  ASSUME ReqTypeOK, NEW r \in Requests, req[r] # Idle,
         NEW reply \in {"clear", "error"}, Answer(r, reply)
  PROVE  ReqTypeOK'
<1> DEFINE there == [req[r] EXCEPT !.at = "reply"]
<1>0. there \in Req
  BY DEF Req, ReqTypeOK
<1> HIDE DEF there
<1>01. [there EXCEPT !.reply = reply] \in Req
  BY <1>0 DEF Req
<1>1. [req[r] EXCEPT !.at = "reply", !.reply = reply] \in Req
  BY <1>01 DEF there
<1>2. req' = [req EXCEPT ![r] = [req[r] EXCEPT !.at = "reply", !.reply = reply]]
  BY DEF Answer, ReqTypeOK
<1> QED BY <1>1, <1>2 DEF ReqTypeOK

\* The shape of a request that is being served.
LEMMA ReqShape ==
  ASSUME ReqTypeOK, NEW r \in Requests, req[r] # Idle
  PROVE  /\ req[r] \in Req
         /\ req[r].browser \in Browsers
         /\ req[r].token \in Tokens \cup {None}
         /\ req[r].family \in Families \cup {None}
         /\ req[r].code \in Codes \cup {None}
         /\ req[r].secret \in Secrets \cup {None}
BY DEF ReqTypeOK, Req

\* What Goto and Answer leave of a request.
LEMMA GotoFields ==
  ASSUME ReqTypeOK, NEW r \in Requests, req[r] # Idle, NEW stage, Goto(r, stage)
  PROVE  /\ \A q \in Requests \ {r} : req'[q] = req[q]
         /\ req'[r].at = stage /\ req'[r].token = req[r].token
         /\ req'[r].family = req[r].family /\ req'[r].reply = req[r].reply
         /\ req'[r].code = req[r].code
<1>1. req[r] \in Req
  BY ReqShape
<1>2. req' = [req EXCEPT ![r] = [req[r] EXCEPT !.at = stage]]
  BY DEF Goto
<1>3. req'[r] = [req[r] EXCEPT !.at = stage] /\ \A q \in Requests \ {r} : req'[q] = req[q]
  BY <1>2 DEF ReqTypeOK
<1> QED BY <1>1, <1>3 DEF Req

LEMMA AnswerFields ==
  ASSUME ReqTypeOK, NEW r \in Requests, req[r] # Idle, NEW reply, Answer(r, reply)
  PROVE  /\ \A q \in Requests \ {r} : req'[q] = req[q]
         /\ req'[r].at = "reply" /\ req'[r].reply = reply
<1>1. req[r] \in Req
  BY ReqShape
<1>2. req' = [req EXCEPT ![r] = [[req[r] EXCEPT !.at = "reply"] EXCEPT !.reply = reply]]
  BY DEF Answer, ReqTypeOK
<1>3. /\ req'[r] = [[req[r] EXCEPT !.at = "reply"] EXCEPT !.reply = reply]
      /\ \A q \in Requests \ {r} : req'[q] = req[q]
  BY <1>2 DEF ReqTypeOK
<1> DEFINE there == [req[r] EXCEPT !.at = "reply"]
<1>4. there.at = "reply" /\ DOMAIN there = DOMAIN req[r]
  BY <1>1 DEF Req
<1> HIDE DEF there
<1>5. [there EXCEPT !.reply = reply].at = "reply" /\ [there EXCEPT !.reply = reply].reply = reply
  BY <1>1, <1>4 DEF Req
<1> QED BY <1>3, <1>5 DEF there

LEMMA GuessTypes ==
  ASSUME guesses \in 0..MostGuesses, Guess
  PROVE  guesses' \in 0..MostGuesses
BY BoundIsNat DEF Guess

LEMMA InitTypes == Init => TypeOK
<1> SUFFICES ASSUME Init PROVE TypeOK
  OBVIOUS
<1>1. TokenTypeOK /\ UserTypeOK
  BY DEF Init, TokenTypeOK, UserTypeOK
<1>2. ReqTypeOK
  BY DEF Init, ReqTypeOK
<1>3. code \in [Codes -> {"free", "unused", "used", "deleted"}]
  BY DEF Init
<1>4. jar \in [Browsers -> [access : {"none", "valid", "expired"},
                            refresh : Tokens \cup {None}, mfa : BOOLEAN]]
  BY DEF Init, EmptyJar
<1>5. ops \in 0..MaxOps /\ guesses \in 0..MostGuesses
  BY BoundIsNat, SessionsAssumption DEF Init
<1> QED BY <1>1, <1>2, <1>3, <1>4, <1>5 DEF Init, TypeOK

LEMMA AskTypes ==
  ASSUME TypeOK, CookiesInv, NEW r \in Requests, NEW b \in Browsers, Ask(r, b)
  PROVE  TypeOK'
<1> USE DEF TypeOK
<1>0. jar[b].refresh \in Tokens \cup {None} /\ user.secret \in Secrets \cup {None}
  BY DEF UserTypeOK
<1>00. \A t \in Tokens : token[t].family \in Families \cup {None}
  BY DEF TokenTypeOK
<1>1. CASE LoginWrong(r, b)
  <2>1. ReqTypeOK' /\ ops' \in 0..MaxOps
    BY <1>1, StartTypes DEF LoginWrong
  <2>2. guesses' \in 0..MostGuesses
    BY <1>1, GuessTypes DEF LoginWrong
  <2> QED BY <1>1, <2>1, <2>2 DEF LoginWrong, TokenTypeOK, UserTypeOK
<1>2. CASE LoginRight(r, b)
  <2>1. ReqTypeOK' /\ ops' \in 0..MaxOps
    BY <1>2, StartTypes, StartAnsweredTypes DEF LoginRight, FreshFamilies
  <2> QED BY <1>2, <2>1 DEF LoginRight, TokenTypeOK, UserTypeOK, ghosts
<1>3. CASE VerifyMfa(r, b)
  <2>1. ReqTypeOK' /\ ops' \in 0..MaxOps
    BY <1>3, StartTypes DEF VerifyMfa, FreshFamilies
  <2>2. guesses' \in 0..MostGuesses
    BY <1>3, GuessTypes DEF VerifyMfa
  <2> QED BY <1>3, <2>1, <2>2 DEF VerifyMfa, TokenTypeOK, UserTypeOK
<1>4. CASE Refresh(r, b)
  <2>1. ReqTypeOK' /\ ops' \in 0..MaxOps
    BY <1>0, <1>00, <1>4, StartTypes, StartAnsweredTypes DEF Refresh
  <2> QED BY <1>4, <2>1 DEF Refresh, TokenTypeOK, UserTypeOK
<1>5. CASE Logout(r, b)
  <2>1. ReqTypeOK' /\ ops' \in 0..MaxOps
    BY <1>0, <1>00, <1>5, StartTypes, StartAnsweredTypes DEF Logout
  <2>2. jar[b].refresh # None => token[jar[b].refresh].family \in Families
    BY <1>0, <1>00 DEF CookiesInv, Issued
  <2> QED BY <1>5, <2>1, <2>2 DEF Logout, TokenTypeOK, UserTypeOK
<1>6. ASSUME \/ EnrollMfa(r, b) \/ ConfirmMfa(r, b) \/ DisableMfa(r, b)
      PROVE  TypeOK'
  <2>1. SUFFICES ASSUME NEW op \in Settings, NEW s \in Secrets \cup {None},
                        StartSetting(r, b, op, s)
                 PROVE  TypeOK'
    <3>1. CASE EnrollMfa(r, b)
      BY <3>1 DEF EnrollMfa, FreshSecrets, Settings
    <3>2. CASE ConfirmMfa(r, b)
      BY <1>0, <3>2 DEF ConfirmMfa, Settings
    <3>3. CASE DisableMfa(r, b)
      BY <1>0, <3>3 DEF DisableMfa, Settings
    <3> QED BY <1>6, <3>1, <3>2, <3>3
  <2>2. ReqTypeOK' /\ ops' \in 0..MaxOps
    <3>1. Start(r, b, op, "write", None, None, None, s)
      BY <2>1 DEF StartSetting
    <3>2. op \in {"login", "mfa", "refresh", "logout", "enroll", "confirm", "disable"}
      BY DEF Settings
    <3> HIDE DEF TypeOK
    <3> QED BY <3>1, <3>2, StartTypes
  <2>3. tangled' \in BOOLEAN
    BY <2>1 DEF StartSetting
  <2> QED BY <2>1, <2>2, <2>3 DEF StartSetting, TokenTypeOK, UserTypeOK
<1> QED BY <1>1, <1>2, <1>3, <1>4, <1>5, <1>6 DEF Ask

LEMMA ServeTypes ==
  ASSUME TypeOK, CookiesInv, FamiliesInv, NEW r \in Requests, Serve(r), UNCHANGED ops
  PROVE  TypeOK'
<1> USE DEF TypeOK
<1>0. ASSUME req[r] # Idle
      PROVE  /\ req[r] \in Req /\ req[r].browser \in Browsers
             /\ req[r].token \in Tokens \cup {None} /\ req[r].family \in Families \cup {None}
             /\ req[r].code \in Codes \cup {None} /\ req[r].secret \in Secrets \cup {None}
  BY <1>0, ReqShape
<1>1. CASE SpendCode(r)
  <2>1. req[r] # Idle /\ req[r] \in Req
    BY <1>0, <1>1 DEF SpendCode, At
  <2>2. ReqTypeOK'
    <3>1. CASE Goto(r, "issue")
      BY <2>1, <3>1, GotoTypes
    <3>2. CASE req' = [req EXCEPT ![r].at = "fail", ![r].family = None]
      <4> DEFINE there == [req[r] EXCEPT !.at = "fail"]
      <4>1. there \in Req
        BY <2>1 DEF Req
      <4> HIDE DEF there
      <4>2. [there EXCEPT !.family = None] \in Req
        BY <4>1 DEF Req
      <4>3. req' = [req EXCEPT ![r] = [there EXCEPT !.family = None]]
        BY <3>2 DEF there, ReqTypeOK
      <4> QED BY <4>2, <4>3 DEF ReqTypeOK
    <3> QED BY <1>1, <3>1, <3>2 DEF SpendCode
  <2>3. guesses' \in 0..MostGuesses
    BY <1>1, GuessTypes DEF SpendCode
  <2>4. code' \in [Codes -> {"free", "unused", "used", "deleted"}]
    BY <1>1 DEF SpendCode
  <2> QED BY <1>1, <2>2, <2>3, <2>4 DEF SpendCode, TokenTypeOK, UserTypeOK
<1>2. CASE RecordFailure(r)
  <2>1. ReqTypeOK'
    BY <1>2, GotoTypes, AnswerTypes DEF RecordFailure, At
  <2>2. UserTypeOK'
    BY <1>2 DEF RecordFailure, UserTypeOK
  <2> QED BY <1>2, <2>1, <2>2 DEF RecordFailure, TokenTypeOK, ghosts
<1>3. CASE Lock(r)
  <2>1. ReqTypeOK'
    BY <1>3, AnswerTypes DEF Lock, At
  <2>2. UserTypeOK'
    BY <1>3 DEF Lock, UserTypeOK
  <2> QED BY <1>3, <2>1, <2>2, BoundIsNat DEF Lock, TokenTypeOK
<1>4. CASE Issue(r)
  <2>0. req[r] # Idle /\ req[r] \in Req /\ req[r].family \in Families \cup {None}
        /\ req[r].code \in Codes \cup {None}
    BY <1>0, <1>4 DEF Issue, At
  <2>1. PICK t \in Tokens :
           /\ token' = [token EXCEPT ![t].family = req[r].family]
           /\ req' = [req EXCEPT ![r].at = "reply", ![r].reply = "tokens", ![r].token = t]
    BY <1>4 DEF Issue
  <2>2. ReqTypeOK'
    <3> DEFINE one == [req[r] EXCEPT !.at = "reply"]
    <3>1. one \in Req
      BY <2>0 DEF Req
    <3> HIDE DEF one
    <3> DEFINE two == [one EXCEPT !.reply = "tokens"]
    <3>2. two \in Req
      BY <3>1 DEF Req
    <3> HIDE DEF two
    <3>3. [two EXCEPT !.token = t] \in Req
      BY <3>2 DEF Req
    <3>4. req' = [req EXCEPT ![r] = [two EXCEPT !.token = t]]
      BY <2>1 DEF one, two, ReqTypeOK
    <3> QED BY <3>3, <3>4 DEF ReqTypeOK
  <2>3. TokenTypeOK'
    BY <2>0, <2>1 DEF TokenTypeOK
  <2>4. UserTypeOK'
    BY <1>4 DEF Issue, UserTypeOK
  <2>5. opened' \in [Codes -> Nat]
    BY <1>4, <2>0 DEF Issue
  <2> QED BY <1>4, <2>2, <2>3, <2>4, <2>5, BoundIsNat DEF Issue
<1>5. CASE Claim(r)
  <2>1. ReqTypeOK'
    BY <1>5, GotoTypes DEF Claim, At
  <2>2. TokenTypeOK'
    <3>1. req[r].token \in Tokens
      BY <1>5 DEF Claim, FamiliesInv
    <3>2. token' = token \/ token' = [token EXCEPT ![req[r].token].rotated = TRUE]
      BY <1>5 DEF Claim
    <3>3. token[req[r].token] \in [family : Families \cup {None}, rotated : BOOLEAN,
                                   revoked : BOOLEAN, expired : BOOLEAN]
      BY <3>1 DEF TokenTypeOK
    <3>4. [token[req[r].token] EXCEPT !.rotated = TRUE]
             \in [family : Families \cup {None}, rotated : BOOLEAN,
                  revoked : BOOLEAN, expired : BOOLEAN]
      BY <3>3
    <3> QED BY <3>1, <3>2, <3>4 DEF TokenTypeOK
  <2> QED BY <1>5, <2>1, <2>2 DEF Claim, UserTypeOK, ghosts
<1>6. CASE LoadUser(r)
  <2>1. ReqTypeOK'
    BY <1>6, GotoTypes, AnswerTypes DEF LoadUser, At
  <2> QED BY <1>6, <2>1 DEF LoadUser, TokenTypeOK, UserTypeOK, ghosts
<1>7. CASE RevokeFamily(r)
  <2>1. ReqTypeOK'
    BY <1>7, AnswerTypes DEF RevokeFamily, At
  <2>2. TokenTypeOK'
    <3>1. \A t \in Tokens : [token[t] EXCEPT !.revoked = TRUE]
             \in [family : Families \cup {None}, rotated : BOOLEAN,
                  revoked : BOOLEAN, expired : BOOLEAN]
      BY DEF TokenTypeOK
    <3> QED BY <1>7, <3>1 DEF RevokeFamily, TokenTypeOK
  <2>3. req[r].family \in Families
    BY <1>0, <1>7 DEF RevokeFamily, At, FamiliesInv, Issued
  <2> QED BY <1>7, <2>1, <2>2, <2>3 DEF RevokeFamily, UserTypeOK
<1>8. CASE WriteEnroll(r) \/ WriteConfirm(r) \/ WriteDisable(r)
  <2>1. req[r] # Idle /\ req[r].secret \in Secrets \cup {None} /\ Settled(r)
    BY <1>0, <1>8 DEF WriteEnroll, WriteConfirm, WriteDisable, At
  <2>2. ReqTypeOK'
    BY <2>1, AnswerTypes DEF Settled
  <2>3. UserTypeOK' /\ confirmed' \in Secrets \cup {None}
    BY <1>8, <2>1 DEF WriteEnroll, WriteConfirm, WriteDisable, UserTypeOK
  <2>4. code' \in [Codes -> {"free", "unused", "used", "deleted"}]
    BY <1>8 DEF WriteEnroll, WriteConfirm, WriteDisable
  <2> QED BY <2>1, <2>2, <2>3, <2>4 DEF Settled, TokenTypeOK
<1>9. CASE Reply(r)
  <2>1. ReqTypeOK'
    BY <1>9 DEF Reply, ReqTypeOK
  <2>2. req[r].browser \in Browsers /\ req[r].token \in Tokens \cup {None}
    BY <1>0, <1>9 DEF Reply, At
  <2>3. jar' \in [Browsers -> [access : {"none", "valid", "expired"},
                               refresh : Tokens \cup {None}, mfa : BOOLEAN]]
    BY <1>9, <2>2 DEF Reply, AfterTokens, Cleared, EmptyJar
  <2> QED BY <1>9, <2>1, <2>3 DEF Reply, TokenTypeOK, UserTypeOK, ghosts
<1>10. CASE Fail(r)
  <2>1. ReqTypeOK'
    <3>1. CASE req' = [req EXCEPT ![r] = Idle]
      BY <3>1 DEF ReqTypeOK
    <3>2. CASE Answer(r, "clear")
      BY <1>10, <3>2, AnswerTypes DEF Fail
    <3> QED BY <1>10, <3>1, <3>2 DEF Fail
  <2> QED BY <1>10, <2>1, BoundIsNat DEF Fail, TokenTypeOK, UserTypeOK
<1> QED BY <1>1, <1>2, <1>3, <1>4, <1>5, <1>6, <1>7, <1>8, <1>9, <1>10 DEF Serve

\* Time passes, or an account is stopped or started.
LEMMA RestTypes ==
  ASSUME TypeOK, UNCHANGED ops,
         \/ \E b \in Browsers : ExpireCookies(b)
         \/ \E t \in Tokens : ExpireToken(t)
         \/ Unlock \/ SetActive
  PROVE  TypeOK'
<1> USE DEF TypeOK
<1>1. CASE \E b \in Browsers : ExpireCookies(b)
  <2>1. PICK b \in Browsers : ExpireCookies(b)
    BY <1>1
  <2>2. jar' \in [Browsers -> [access : {"none", "valid", "expired"},
                               refresh : Tokens \cup {None}, mfa : BOOLEAN]]
    <3>1. jar[b] \in [access : {"none", "valid", "expired"},
                      refresh : Tokens \cup {None}, mfa : BOOLEAN]
      OBVIOUS
    <3>2. /\ [jar[b] EXCEPT !.access = "expired"] \in [access : {"none", "valid", "expired"},
                                                       refresh : Tokens \cup {None}, mfa : BOOLEAN]
          /\ [jar[b] EXCEPT !.mfa = FALSE] \in [access : {"none", "valid", "expired"},
                                                refresh : Tokens \cup {None}, mfa : BOOLEAN]
      BY <3>1
    <3> QED BY <2>1, <3>2 DEF ExpireCookies
  <2>3. UNCHANGED <<token, user, code, req, ghosts>>
    BY <2>1 DEF ExpireCookies
  <2> QED BY <2>2, <2>3 DEF TokenTypeOK, UserTypeOK, ReqTypeOK, ghosts
<1>2. CASE \E t \in Tokens : ExpireToken(t)
  <2>1. PICK t \in Tokens : ExpireToken(t)
    BY <1>2
  <2>2. token[t] \in [family : Families \cup {None}, rotated : BOOLEAN,
                      revoked : BOOLEAN, expired : BOOLEAN]
    BY DEF TokenTypeOK
  <2>3. [token[t] EXCEPT !.expired = TRUE] \in [family : Families \cup {None}, rotated : BOOLEAN,
                                                revoked : BOOLEAN, expired : BOOLEAN]
    BY <2>2
  <2>4. TokenTypeOK'
    BY <2>1, <2>3 DEF ExpireToken, TokenTypeOK
  <2> QED BY <2>1, <2>4 DEF ExpireToken, UserTypeOK, ReqTypeOK, ghosts
<1>3. CASE Unlock
  BY <1>3 DEF Unlock, TokenTypeOK, UserTypeOK, ReqTypeOK, ghosts
<1>4. CASE SetActive
  <2>1. UserTypeOK'
    <3>1. [user EXCEPT !.active = ~@] \in [active : BOOLEAN, failed : Nat, locked : BOOLEAN,
                                           enabled : BOOLEAN, secret : Secrets \cup {None}]
      BY DEF UserTypeOK
    <3>2. [user EXCEPT !.active = TRUE, !.failed = 0, !.locked = FALSE]
             \in [active : BOOLEAN, failed : Nat, locked : BOOLEAN,
                  enabled : BOOLEAN, secret : Secrets \cup {None}]
      BY DEF UserTypeOK
    <3> QED BY <1>4, <3>1, <3>2 DEF SetActive, UserTypeOK
  <2> QED BY <1>4, <2>1, BoundIsNat DEF SetActive, TokenTypeOK, ReqTypeOK
<1> QED BY <1>1, <1>2, <1>3, <1>4

-----------------------------------------------------------------------------
(* Which steps touch the tokens of a family *)

LEMMA InitInv == Init => SInv
<1> SUFFICES ASSUME Init PROVE SInv
  OBVIOUS
<1>1. TypeOK
  BY InitTypes
<1>2. \A r \in Requests : req[r] = Idle
  BY DEF Init
<1>3. \A t \in Tokens : ~Live(t)
  BY DEF Init, Live, Issued
<1>4. CookiesInv
  BY <1>2 DEF Init, CookiesInv, EmptyJar, At
<1>5. FamiliesInv /\ OneHolder /\ ClosedInv
  BY <1>2, <1>3 DEF Init, FamiliesInv, OneHolder, ClosedInv, Pending, Issuing, At
<1> QED BY <1>1, <1>4, <1>5 DEF SInv

\* Steps that change neither tokens nor closed families, and of one request only:
\* it is answered, or fails, or does what keeps its token and family.
LEMMA QuietStep ==
  ASSUME SInv, TypeOK', NEW r \in Requests, UNCHANGED <<token, closed>>,
         \A q \in Requests \ {r} : req'[q] = req[q],
         \A b \in Browsers : jar'[b].refresh # None => Issued(jar'[b].refresh),
         At(r, "reply")' /\ req'[r].reply = "tokens"
            => req'[r].token \in Tokens /\ Issued(req'[r].token),
         At(r, "claim")' \/ At(r, "revoke")'
            => /\ req'[r].token \in Tokens /\ Issued(req'[r].token)
               /\ req'[r].family = token[req'[r].token].family,
         Pending(r)' => Pending(r) /\ req'[r].family = req[r].family,
         At(r, "spend")' => At(r, "spend")
  PROVE  SInv'
<1>0. \A q \in Requests \ {r}, stage \in {"spend", "claim", "load", "issue", "revoke", "reply"} :
         At(q, stage)' <=> At(q, stage)
  BY DEF At
<1>1. \A q \in Requests \ {r} : Pending(q)' <=> Pending(q)
  BY <1>0 DEF Pending, Issuing
<1>2. \A t \in Tokens : /\ Live(t)' <=> Live(t)
                        /\ Issued(t)' <=> Issued(t)
  BY DEF Live, Issued
<1>3. CookiesInv'
  BY <1>0, <1>2 DEF CookiesInv, SInv, Issued
<1>4. FamiliesInv'
  <2>1. \A q \in Requests : Pending(q)' => Pending(q) /\ req'[q].family = req[q].family
    BY <1>1
  <2>2. \A q \in Requests : At(q, "spend")' => At(q, "spend") /\ req'[q].family = req[q].family
    BY <1>0, <2>1 DEF Pending
  <2>3. \A q \in Requests : At(q, "claim")' \/ At(q, "revoke")'
          => /\ req'[q].token \in Tokens /\ Issued(req'[q].token)
             /\ req'[q].family = token[req'[q].token].family
    BY <1>0 DEF SInv, FamiliesInv
  <2> QED BY <2>1, <2>2, <2>3 DEF SInv, FamiliesInv, Issued
<1>5. OneHolder'
  BY <1>1, <1>2 DEF SInv, OneHolder
<1>6. ClosedInv'
  BY <1>1, <1>2 DEF SInv, ClosedInv
<1> QED BY <1>3, <1>4, <1>5, <1>6 DEF SInv

\* A sign-in takes a family nobody has.
LEMMA FreshStep ==
  ASSUME SInv, TypeOK', NEW r \in Requests, NEW b \in Browsers, NEW f \in FreshFamilies,
         NEW op, NEW stage \in {"issue", "spend"}, NEW c,
         Start(r, b, op, stage, None, f, c, None), UNCHANGED <<token, closed, jar>>
  PROVE  SInv'
<1>1. /\ f \in Families
      /\ \A t \in Tokens : token[t].family # f
      /\ \A q \in Requests : req[q] # Idle => req[q].family # f
  BY DEF FreshFamilies
<1>2. \A q \in Requests \ {r} : req'[q] = req[q]
  BY DEF Start, SInv, TypeOK, ReqTypeOK
<1>3. req'[r].at = stage /\ req'[r].family = f
  BY DEF Start, SInv, TypeOK, ReqTypeOK
<1>4. \A q \in Requests \ {r}, x \in {"spend", "claim", "load", "issue", "revoke", "reply"} :
         At(q, x)' <=> At(q, x)
  BY <1>2 DEF At
<1>5. \A q \in Requests \ {r} : /\ Pending(q)' <=> Pending(q)
                                /\ Pending(q) => req[q].family # f
  BY <1>1, <1>4 DEF Pending, Issuing, At
<1>6. \A t \in Tokens : (Live(t)' <=> Live(t)) /\ (Issued(t)' <=> Issued(t))
  BY DEF Live, Issued
<1>7. ~At(r, "claim")' /\ ~At(r, "revoke")' /\ ~At(r, "reply")'
  BY <1>3 DEF At
<1>8. CookiesInv'
  BY <1>2, <1>4, <1>6, <1>7 DEF CookiesInv, SInv, Issued
<1>9. FamiliesInv'
  BY <1>1, <1>2, <1>3, <1>4, <1>5, <1>6, <1>7 DEF FamiliesInv, SInv
<1>10. OneHolder'
  BY <1>1, <1>2, <1>3, <1>5, <1>6 DEF OneHolder, SInv
<1>11. ClosedInv'
  BY <1>1, <1>2, <1>3, <1>5, <1>6 DEF ClosedInv, SInv
<1> QED BY <1>8, <1>9, <1>10, <1>11 DEF SInv

\* No request moves, and no token changes for the families.
LEMMA IdleStep ==
  ASSUME SInv, TypeOK', UNCHANGED <<req, closed>>,
         \A b \in Browsers : jar'[b].refresh # None => Issued(jar'[b].refresh),
         \A t \in Tokens : /\ token'[t].family = token[t].family
                           /\ token'[t].rotated = token[t].rotated
                           /\ token'[t].revoked = token[t].revoked
  PROVE  SInv'
<1>1. \A t \in Tokens : (Live(t)' <=> Live(t)) /\ (Issued(t)' <=> Issued(t))
  BY DEF Live, Issued
<1>2. \A q \in Requests, x \in {"spend", "claim", "load", "issue", "revoke", "reply"} :
         At(q, x)' <=> At(q, x)
  BY DEF At
<1>3. \A q \in Requests : Pending(q)' <=> Pending(q)
  BY <1>2 DEF Pending, Issuing
<1>4. \A b \in Browsers : jar'[b].refresh \in Tokens \cup {None}
  BY DEF TypeOK
<1>5. CookiesInv'
  BY <1>1, <1>2, <1>4 DEF CookiesInv, SInv
<1>6. FamiliesInv' /\ OneHolder'
  BY <1>1, <1>2, <1>3 DEF FamiliesInv, OneHolder, SInv
<1>7. ClosedInv'
  BY <1>1, <1>3 DEF ClosedInv, SInv
<1> QED BY <1>5, <1>6, <1>7 DEF SInv

\* The winner of a claim takes the place of the token it rotated.
LEMMA ClaimInv ==
  ASSUME SInv, TypeOK', NEW r \in Requests, Claim(r)
  PROVE  SInv'
<1> DEFINE t0 == req[r].token
<1>0. At(r, "claim") /\ t0 \in Tokens /\ Issued(t0) /\ req[r].family = token[t0].family
  BY DEF Claim, SInv, FamiliesInv
<1>1. /\ \A q \in Requests \ {r} : req'[q] = req[q]
      /\ req'[r].token = t0 /\ req'[r].family = req[r].family /\ req'[r].reply = req[r].reply
      /\ UNCHANGED <<jar, closed>>
  <2>1. req[r] # Idle /\ ReqTypeOK /\ (Goto(r, "load") \/ Goto(r, "revoke"))
    BY <1>0 DEF At, SInv, TypeOK, Claim
  <2>2. /\ \A q \in Requests \ {r} : req'[q] = req[q]
        /\ req'[r].token = t0 /\ req'[r].family = req[r].family /\ req'[r].reply = req[r].reply
    BY <2>1, GotoFields
  <2> QED BY <2>2 DEF Claim, ghosts
<1>2. ~Pending(r)
  BY <1>0 DEF Pending, Issuing, At
<1>3. CASE ~Claimable(t0)
  <2>1. UNCHANGED token /\ req'[r].at = "revoke"
    <3>1. req[r] # Idle /\ ReqTypeOK /\ Goto(r, "revoke") /\ UNCHANGED token
      BY <1>0, <1>3 DEF At, SInv, TypeOK, Claim
    <3> QED BY <3>1, GotoFields
  <2>2. ~Pending(r)' /\ ~At(r, "reply")' /\ ~At(r, "spend")'
    BY <2>1 DEF Pending, Issuing, At
  <2>3. \A b \in Browsers : jar'[b].refresh # None => Issued(jar'[b].refresh)
    BY <1>1 DEF SInv, CookiesInv
  <2>4. UNCHANGED <<token, closed>>
    BY <1>1, <2>1
  <2> QED BY <1>0, <1>1, <2>2, <2>3, <2>4, QuietStep
<1>4. CASE Claimable(t0)
  <2>0. Live(t0)
    BY <1>4 DEF Claimable
  <2>1. token' = [token EXCEPT ![t0].rotated = TRUE] /\ req'[r].at = "load"
    <3>1. /\ req[r] # Idle /\ ReqTypeOK /\ Goto(r, "load")
          /\ token' = [token EXCEPT ![t0].rotated = TRUE]
      BY <1>0, <1>4 DEF At, SInv, TypeOK, Claim
    <3> QED BY <3>1, GotoFields
  <2>2. \A t \in Tokens : /\ token'[t].family = token[t].family
                          /\ Issued(t)' <=> Issued(t)
                          /\ Live(t)' <=> Live(t) /\ t # t0
    BY <1>0, <2>1 DEF Issued, Live, SInv, TypeOK, TokenTypeOK
  <2>3. \A q \in Requests \ {r}, x \in {"spend", "claim", "load", "issue", "revoke", "reply"} :
           At(q, x)' <=> At(q, x)
    BY <1>1 DEF At
  <2>4. \A q \in Requests \ {r} : Pending(q)' <=> Pending(q)
    BY <2>3 DEF Pending, Issuing
  <2>5. ~At(r, "claim")' /\ ~At(r, "revoke")' /\ ~At(r, "reply")' /\ ~At(r, "spend")'
    BY <2>1 DEF At
  <2>6. req[r].family \in Families
    BY <1>0 DEF SInv, TypeOK, TokenTypeOK, Issued
  <2>7. CookiesInv'
    <3>1. \A b \in Browsers : jar[b].refresh \in Tokens \cup {None}
      BY DEF SInv, TypeOK
    <3> QED BY <1>1, <2>2, <2>3, <2>5, <3>1 DEF CookiesInv, SInv
  <2>8. FamiliesInv'
    BY <1>1, <2>2, <2>3, <2>4, <2>5, <2>6 DEF FamiliesInv, SInv
  <2>9. OneHolder'
    BY <1>0, <1>1, <2>0, <2>2, <2>4 DEF OneHolder, SInv
  <2>10. ClosedInv'
    BY <1>0, <1>1, <2>0, <2>2, <2>4 DEF ClosedInv, SInv
  <2> QED BY <2>7, <2>8, <2>9, <2>10 DEF SInv
<1> QED BY <1>3, <1>4

\* The token that is inserted takes the place of its handler.
LEMMA IssueInv ==
  ASSUME SInv, TypeOK', NEW r \in Requests, Issue(r)
  PROVE  SInv'
<1>0. At(r, "issue") /\ Pending(r) /\ req[r] # Idle /\ req[r] \in Req
  BY ReqShape DEF Issue, Pending, Issuing, At, SInv, TypeOK
<1>1. PICK t0 \in Tokens :
         /\ ~Issued(t0)
         /\ token' = [token EXCEPT ![t0].family = req[r].family]
         /\ req' = [req EXCEPT ![r].at = "reply", ![r].reply = "tokens", ![r].token = t0]
  BY DEF Issue
<1>2. UNCHANGED <<jar, closed>> /\ req[r].family \in Families /\ req[r].family # None
  BY <1>0, SessionsAssumption DEF Issue, SInv, FamiliesInv
<1>3. \A q \in Requests \ {r} : req'[q] = req[q]
  BY <1>1 DEF SInv, TypeOK, ReqTypeOK
<1>4. req'[r].at = "reply" /\ req'[r].token = t0
  <2> DEFINE one == [req[r] EXCEPT !.at = "reply"]
  <2>1. one \in [op : {"login", "mfa", "refresh", "logout", "enroll", "confirm", "disable"},
                 at : {"reply"}, browser : Browsers, token : Tokens \cup {None},
                 family : Families \cup {None}, code : Codes \cup {None},
                 secret : Secrets \cup {None},
                 reply : {"none", "tokens", "mfa", "clear", "error"}]
    BY <1>0 DEF Req
  <2> HIDE DEF one
  <2>2. req'[r] = [[one EXCEPT !.reply = "tokens"] EXCEPT !.token = t0]
    BY <1>1 DEF one, SInv, TypeOK, ReqTypeOK
  <2> QED BY <2>1, <2>2
<1>5. /\ token'[t0].family = req[r].family
      /\ \A t \in Tokens \ {t0} : token'[t] = token[t]
  BY <1>1 DEF SInv, TypeOK, TokenTypeOK
<1>6. /\ \A t \in Tokens \ {t0} : /\ (Live(t)' <=> Live(t)) /\ (Issued(t)' <=> Issued(t))
                                  /\ token'[t].family = token[t].family
      /\ ~Live(t0) /\ Issued(t0)'
  BY <1>1, <1>2, <1>5 DEF Live, Issued
<1>7. \A q \in Requests \ {r}, x \in {"spend", "claim", "load", "issue", "revoke", "reply"} :
         At(q, x)' <=> At(q, x)
  BY <1>3 DEF At
<1>8. \A q \in Requests \ {r} : Pending(q)' <=> Pending(q)
  BY <1>7 DEF Pending, Issuing
<1>9. ~Pending(r)' /\ ~At(r, "claim")' /\ ~At(r, "revoke")' /\ ~At(r, "spend")'
  BY <1>4 DEF Pending, Issuing, At
<1>10. \A q \in Requests \ {r} : Pending(q) => req[q].family # req[r].family
  BY <1>0 DEF SInv, OneHolder
<1>11. CookiesInv'
  <2>1. \A b \in Browsers : jar[b].refresh \in Tokens \cup {None}
    BY DEF SInv, TypeOK
  <2>2. \A b \in Browsers : jar'[b].refresh # None => token'[jar'[b].refresh].family # None
    BY <1>2, <1>6, <2>1 DEF CookiesInv, SInv, Issued
  <2>3. \A q \in Requests \ {r} : At(q, "reply") /\ req[q].reply = "tokens"
                                      => req[q].token \in Tokens /\ token'[req[q].token].family # None
    BY <1>6 DEF CookiesInv, SInv, Issued
  <2>4. \A q \in Requests : At(q, "reply")' /\ req'[q].reply = "tokens"
                                      => req'[q].token \in Tokens /\ token'[req'[q].token].family # None
    BY <1>3, <1>4, <1>6, <1>7, <2>3 DEF Issued
  <2> QED BY <2>2, <2>4 DEF CookiesInv, Issued
<1>12. FamiliesInv'
  <2>1. \A q \in Requests \ {r} : At(q, "claim") \/ At(q, "revoke") => req[q].token # t0
    BY <1>1 DEF SInv, FamiliesInv
  <2>2. \A q \in Requests \ {r} : At(q, "spend") => Pending(q)
    BY DEF Pending
  <2> QED BY <1>3, <1>5, <1>6, <1>7, <1>8, <1>9, <1>10, <2>1, <2>2 DEF FamiliesInv, SInv
<1>13. OneHolder'
  <2>1. \A t \in Tokens \ {t0} : Live(t) => token[t].family # req[r].family
    BY <1>0 DEF SInv, OneHolder
  <2> QED BY <1>3, <1>5, <1>6, <1>8, <1>9, <1>10, <2>1 DEF OneHolder, SInv
<1>14. ClosedInv'
  <2>1. req[r].family \notin closed
    BY <1>0 DEF SInv, ClosedInv
  <2>2. token[t0].family = None
    BY <1>1 DEF Issued
  <2>3. \A f \in closed : f # None
    BY SessionsAssumption DEF SInv, TypeOK
  <2> QED BY <1>2, <1>3, <1>5, <1>6, <1>8, <1>9, <2>1, <2>2, <2>3 DEF ClosedInv, SInv
<1> QED BY <1>11, <1>12, <1>13, <1>14 DEF SInv

\* After a revocation no token of the family is live; it is closed if nobody
\* holds the family.
LEMMA RevokeInv ==
  ASSUME SInv, TypeOK', NEW r \in Requests, RevokeFamily(r)
  PROVE  SInv'
<1> DEFINE f0 == req[r].family
<1>0. /\ At(r, "revoke") /\ req[r] # Idle /\ ReqTypeOK /\ Answer(r, "clear")
      /\ req[r].token \in Tokens /\ token[req[r].token].family = f0 /\ UNCHANGED jar
  BY DEF RevokeFamily, At, SInv, TypeOK, FamiliesInv
<1>1. /\ \A q \in Requests \ {r} : req'[q] = req[q]
      /\ req'[r].at = "reply" /\ req'[r].reply = "clear"
  BY <1>0, AnswerFields
<1>2. \A t \in Tokens : /\ token'[t].family = token[t].family
                        /\ Issued(t)' <=> Issued(t)
                        /\ Live(t)' <=> Live(t) /\ token[t].family # f0
  <2>1. \A t \in Tokens : token'[t] = IF token[t].family = f0 THEN [token[t] EXCEPT !.revoked = TRUE]
                                      ELSE token[t]
    BY DEF RevokeFamily, Family
  <2>2. \A t \in Tokens : /\ token'[t].family = token[t].family
                          /\ token'[t].rotated = token[t].rotated
                          /\ token'[t].revoked <=> token[t].revoked \/ token[t].family = f0
    BY <2>1 DEF SInv, TypeOK, TokenTypeOK
  <2> QED BY <2>2 DEF Live, Issued
<1>3. \A q \in Requests \ {r}, x \in {"spend", "claim", "load", "issue", "revoke", "reply"} :
         At(q, x)' <=> At(q, x)
  BY <1>1 DEF At
<1>4. \A q \in Requests \ {r} : Pending(q)' <=> Pending(q)
  BY <1>3 DEF Pending, Issuing
<1>5. ~Pending(r)' /\ ~At(r, "claim")' /\ ~At(r, "revoke")' /\ ~At(r, "spend")'
  BY <1>1 DEF Pending, Issuing, At
<1>6. CookiesInv'
  <2>1. \A b \in Browsers : jar[b].refresh \in Tokens \cup {None}
    BY DEF SInv, TypeOK
  <2> QED BY <1>0, <1>1, <1>2, <1>3, <2>1 DEF CookiesInv, SInv
<1>7. FamiliesInv'
  BY <1>1, <1>2, <1>3, <1>4, <1>5 DEF FamiliesInv, SInv
<1>8. OneHolder'
  BY <1>1, <1>2, <1>4, <1>5 DEF OneHolder, SInv
<1>9. ClosedInv'
  <2>1. CASE closed' = closed
    BY <1>1, <1>2, <1>4, <1>5, <2>1 DEF ClosedInv, SInv
  <2>2. CASE /\ closed' = closed \cup {f0}
             /\ \A q \in Requests : Issuing(q) => req[q].family # f0
    <3>1. \A q \in Requests : Pending(q) => req[q].family # f0
      BY <1>0, <2>2 DEF Pending, SInv, FamiliesInv
    <3>2. \A q \in Requests : Pending(q)' => req'[q].family # f0
      BY <1>1, <1>4, <1>5, <3>1
    <3>3. /\ \E t \in Tokens : token'[t].family = f0
          /\ \A t \in Tokens : Live(t)' => token'[t].family # f0
      BY <1>0, <1>2
    <3>4. \A f \in closed : /\ \E t \in Tokens : token'[t].family = f
                            /\ \A t \in Tokens : Live(t)' => token'[t].family # f
                            /\ \A q \in Requests : Pending(q)' => req'[q].family # f
      BY <1>1, <1>2, <1>4, <1>5 DEF SInv, ClosedInv
    <3> QED BY <2>2, <3>2, <3>3, <3>4 DEF ClosedInv
  <2> QED BY <2>1, <2>2 DEF RevokeFamily
<1> QED BY <1>6, <1>7, <1>8, <1>9 DEF SInv

\* A request that begins without a fresh family.
LEMMA StartQuiet ==
  ASSUME SInv, TypeOK', NEW r \in Requests, NEW b, NEW op, NEW stage \in {"fail", "write"},
         NEW t, NEW f, NEW c, NEW s,
         Start(r, b, op, stage, t, f, c, s), UNCHANGED <<token, closed, jar>>
  PROVE  SInv'
<1>1. req'[r].at = stage /\ \A q \in Requests \ {r} : req'[q] = req[q]
  BY DEF Start, SInv, TypeOK, ReqTypeOK
<1>2. ~Pending(r)' /\ ~At(r, "claim")' /\ ~At(r, "revoke")' /\ ~At(r, "spend")' /\ ~At(r, "reply")'
  BY <1>1 DEF Pending, Issuing, At
<1>3. \A x \in Browsers : jar'[x].refresh # None => Issued(jar'[x].refresh)
  BY DEF SInv, CookiesInv
<1>4. UNCHANGED <<token, closed>>
  OBVIOUS
<1> QED BY <1>1, <1>2, <1>3, <1>4, QuietStep

LEMMA StartAnsweredQuiet ==
  ASSUME SInv, TypeOK', NEW r \in Requests, NEW b, NEW op, NEW reply \in {"mfa", "clear"},
         StartAnswered(r, b, op, reply), UNCHANGED <<token, closed, jar>>
  PROVE  SInv'
<1>1. /\ req'[r].at = "reply" /\ req'[r].reply = reply
      /\ \A q \in Requests \ {r} : req'[q] = req[q]
  BY DEF StartAnswered, SInv, TypeOK, ReqTypeOK
<1>2. ~Pending(r)' /\ ~At(r, "claim")' /\ ~At(r, "revoke")' /\ ~At(r, "spend")'
  BY <1>1 DEF Pending, Issuing, At
<1>3. \A x \in Browsers : jar'[x].refresh # None => Issued(jar'[x].refresh)
  BY DEF SInv, CookiesInv
<1>4. UNCHANGED <<token, closed>>
  OBVIOUS
<1> QED BY <1>1, <1>2, <1>3, <1>4, QuietStep

\* A refresh or a logout of the cookie's token.
LEMMA StartOfToken ==
  ASSUME SInv, TypeOK', NEW r \in Requests, NEW b \in Browsers, NEW op,
         NEW stage \in {"claim", "revoke"}, jar[b].refresh # None,
         Start(r, b, op, stage, jar[b].refresh, token[jar[b].refresh].family, None, None),
         UNCHANGED <<token, closed, jar>>
  PROVE  SInv'
<1>1. /\ req'[r].at = stage /\ req'[r].token = jar[b].refresh
      /\ req'[r].family = token[jar[b].refresh].family
      /\ \A q \in Requests \ {r} : req'[q] = req[q]
  BY DEF Start, SInv, TypeOK, ReqTypeOK
<1>2. ~Pending(r)' /\ ~At(r, "spend")' /\ ~At(r, "reply")'
  BY <1>1 DEF Pending, Issuing, At
<1>3. jar[b].refresh \in Tokens /\ Issued(jar[b].refresh)
  BY DEF SInv, TypeOK, CookiesInv
<1>4. \A x \in Browsers : jar'[x].refresh # None => Issued(jar'[x].refresh)
  BY DEF SInv, CookiesInv
<1>5. UNCHANGED <<token, closed>>
  OBVIOUS
<1> QED BY <1>1, <1>2, <1>3, <1>4, <1>5, QuietStep

LEMMA AskInv ==
  ASSUME SInv, NEW r \in Requests, NEW b \in Browsers, Ask(r, b)
  PROVE  SInv'
<1>0. TypeOK'
  BY AskTypes DEF SInv
<1>1. CASE LoginWrong(r, b)
  BY <1>0, <1>1, StartQuiet DEF LoginWrong
<1>2. CASE LoginRight(r, b)
  <2>1. UNCHANGED <<token, closed, jar>>
    BY <1>2 DEF LoginRight, ghosts
  <2> QED BY <1>0, <1>2, <2>1, StartAnsweredQuiet, FreshStep DEF LoginRight
<1>3. CASE VerifyMfa(r, b)
  <2>1. UNCHANGED <<token, closed, jar>>
    BY <1>3 DEF VerifyMfa
  <2>2. CASE Start(r, b, "mfa", "fail", None, None, None, None)
    BY <1>0, <2>1, <2>2, StartQuiet
  <2>3. CASE \E f \in FreshFamilies : Start(r, b, "mfa", "issue", None, f, None, None)
    BY <1>0, <2>1, <2>3, FreshStep
  <2>4. CASE \E c \in Codes, f \in FreshFamilies : Start(r, b, "mfa", "spend", None, f, c, None)
    BY <1>0, <2>1, <2>4, FreshStep
  <2> QED BY <1>3, <2>2, <2>3, <2>4 DEF VerifyMfa
<1>4. CASE Refresh(r, b)
  <2>1. UNCHANGED <<token, closed, jar>>
    BY <1>4 DEF Refresh
  <2> QED BY <1>0, <1>4, <2>1, StartAnsweredQuiet, StartOfToken DEF Refresh
<1>5. CASE Logout(r, b)
  <2>1. UNCHANGED <<token, closed, jar>>
    BY <1>5 DEF Logout
  <2> QED BY <1>0, <1>5, <2>1, StartAnsweredQuiet, StartOfToken DEF Logout
<1>6. ASSUME NEW op, NEW s, StartSetting(r, b, op, s)
      PROVE  SInv'
  BY <1>0, <1>6, StartQuiet DEF StartSetting
<1>7. CASE EnrollMfa(r, b) \/ ConfirmMfa(r, b) \/ DisableMfa(r, b)
  BY <1>6, <1>7 DEF EnrollMfa, ConfirmMfa, DisableMfa
<1> QED BY <1>1, <1>2, <1>3, <1>4, <1>5, <1>7 DEF Ask

LEMMA ServeInv ==
  ASSUME SInv, NEW r \in Requests, Serve(r), UNCHANGED ops
  PROVE  SInv'
<1>0. TypeOK' /\ ReqTypeOK
  BY ServeTypes DEF SInv, TypeOK
<1>j. \A x \in Browsers : jar[x].refresh # None => Issued(jar[x].refresh)
  BY DEF SInv, CookiesInv
<1>1. ASSUME req[r] # Idle, UNCHANGED <<token, closed, jar>>,
             \E reply \in {"clear", "error"} : Answer(r, reply)
      PROVE  SInv'
  <2>1. /\ \A q \in Requests \ {r} : req'[q] = req[q]
        /\ req'[r].at = "reply" /\ req'[r].reply # "tokens"
    BY <1>0, <1>1, AnswerFields
  <2>2. ~Pending(r)' /\ ~At(r, "claim")' /\ ~At(r, "revoke")' /\ ~At(r, "spend")'
    BY <2>1 DEF Pending, Issuing, At
  <2> QED BY <1>0, <1>1, <1>j, <2>1, <2>2, QuietStep
<1>2. ASSUME req[r] # Idle, UNCHANGED <<token, closed, jar>>,
             NEW stage \in {"lock", "issue"}, Goto(r, stage), stage = "issue" => Pending(r)
      PROVE  SInv'
  <2>1. /\ \A q \in Requests \ {r} : req'[q] = req[q]
        /\ req'[r].at \in {"lock", "issue"} /\ req'[r].family = req[r].family
        /\ req'[r].at = "issue" => Pending(r)
    BY <1>0, <1>2, GotoFields
  <2>2. /\ Pending(r)' => Pending(r)
        /\ ~At(r, "claim")' /\ ~At(r, "revoke")' /\ ~At(r, "spend")' /\ ~At(r, "reply")'
    BY <2>1 DEF Pending, Issuing, At
  <2> QED BY <1>0, <1>2, <1>j, <2>1, <2>2, QuietStep
<1>3. ASSUME req' = [req EXCEPT ![r] = Idle], UNCHANGED <<token, closed>>,
             \A x \in Browsers : jar'[x].refresh # None => Issued(jar'[x].refresh)
      PROVE  SInv'
  <2>1. req'[r] = Idle /\ \A q \in Requests \ {r} : req'[q] = req[q]
    BY <1>0, <1>3 DEF ReqTypeOK
  <2>2. ~Pending(r)' /\ ~At(r, "claim")' /\ ~At(r, "revoke")' /\ ~At(r, "spend")' /\ ~At(r, "reply")'
    BY <2>1 DEF Pending, Issuing, At
  <2> QED BY <1>0, <1>3, <2>1, <2>2, QuietStep
<1>4. CASE SpendCode(r)
  <2>1. req[r] # Idle /\ Pending(r) /\ UNCHANGED <<token, closed, jar>>
    BY <1>4 DEF SpendCode, At, Pending
  <2>2. CASE Goto(r, "issue")
    BY <1>2, <2>1, <2>2
  <2>3. CASE req' = [req EXCEPT ![r].at = "fail", ![r].family = None]
    <3>1. req[r] \in Req
      BY <1>0, <2>1, ReqShape
    <3> DEFINE there == [req[r] EXCEPT !.at = "fail"]
    <3>2. there.at = "fail" /\ there \in Req
      BY <3>1 DEF Req
    <3>3. req' = [req EXCEPT ![r] = [there EXCEPT !.family = None]]
      BY <1>0, <2>3 DEF ReqTypeOK
    <3> HIDE DEF there
    <3>4. [there EXCEPT !.family = None].at = "fail"
      BY <3>2 DEF Req
    <3>5. req'[r].at = "fail" /\ \A q \in Requests \ {r} : req'[q] = req[q]
      BY <1>0, <3>3, <3>4 DEF ReqTypeOK
    <3>6. ~Pending(r)' /\ ~At(r, "claim")' /\ ~At(r, "revoke")' /\ ~At(r, "spend")' /\ ~At(r, "reply")'
      BY <3>5 DEF Pending, Issuing, At
    <3> QED BY <1>0, <1>j, <2>1, <3>5, <3>6, QuietStep
  <2> QED BY <1>4, <2>2, <2>3 DEF SpendCode
<1>5. CASE RecordFailure(r) \/ Lock(r)
  <2>1. req[r] # Idle /\ UNCHANGED <<token, closed, jar>>
    BY <1>5 DEF RecordFailure, Lock, At, ghosts
  <2>2. Answer(r, "error") \/ Goto(r, "lock")
    BY <1>5 DEF RecordFailure, Lock
  <2>3. CASE Answer(r, "error")
    BY <1>1, <2>1, <2>3
  <2>4. CASE Goto(r, "lock")
    BY <1>2, <2>1, <2>4
  <2> QED BY <2>2, <2>3, <2>4
<1>6. CASE LoadUser(r)
  <2>1. req[r] # Idle /\ Pending(r) /\ UNCHANGED <<token, closed, jar>>
    BY <1>6 DEF LoadUser, At, Pending, Issuing, ghosts
  <2> QED BY <1>1, <1>2, <1>6, <2>1 DEF LoadUser
<1>7. CASE WriteEnroll(r) \/ WriteConfirm(r) \/ WriteDisable(r)
  <2>1. req[r] # Idle /\ Settled(r)
    BY <1>7 DEF WriteEnroll, WriteConfirm, WriteDisable, At
  <2> QED BY <1>1, <2>1 DEF Settled
<1>8. CASE Reply(r)
  <2>1. \A x \in Browsers : jar'[x].refresh # None => Issued(jar'[x].refresh)
    <3>1. At(r, "reply") /\ req[r].browser \in Browsers
      BY <1>0, <1>8, ReqShape DEF Reply, At
    <3>2. req[r].reply = "tokens" => Issued(req[r].token)
      BY <3>1 DEF SInv, CookiesInv
    <3> QED BY <1>8, <1>j, <3>1, <3>2 DEF Reply, AfterTokens, Cleared, EmptyJar, SInv, TypeOK
  <2> QED BY <1>3, <1>8, <2>1 DEF Reply, ghosts
<1>9. CASE Fail(r)
  BY <1>1, <1>3, <1>9, <1>j DEF Fail
<1>10. CASE Claim(r)
  BY <1>0, <1>10, ClaimInv
<1>11. CASE Issue(r)
  BY <1>0, <1>11, IssueInv
<1>12. CASE RevokeFamily(r)
  BY <1>0, <1>12, RevokeInv
<1> QED BY <1>4, <1>5, <1>6, <1>7, <1>8, <1>9, <1>10, <1>11, <1>12 DEF Serve

LEMMA RestInv ==
  ASSUME SInv, UNCHANGED ops,
         \/ \E b \in Browsers : ExpireCookies(b)
         \/ \E t \in Tokens : ExpireToken(t)
         \/ Unlock \/ SetActive
  PROVE  SInv'
<1>0. TypeOK'
  BY RestTypes DEF SInv
<1>j. \A x \in Browsers : jar[x].refresh # None => Issued(jar[x].refresh)
  BY DEF SInv, CookiesInv
<1>1. CASE \E b \in Browsers : ExpireCookies(b)
  <2>1. PICK b \in Browsers : ExpireCookies(b)
    BY <1>1
  <2>2. \A x \in Browsers : jar'[x].refresh = jar[x].refresh
    BY <2>1 DEF ExpireCookies, SInv, TypeOK
  <2>3. UNCHANGED <<token, req, closed>>
    BY <2>1 DEF ExpireCookies, ghosts
  <2> QED BY <1>0, <1>j, <2>2, <2>3, IdleStep
<1>2. CASE \E t \in Tokens : ExpireToken(t)
  <2>1. PICK t0 \in Tokens : ExpireToken(t0)
    BY <1>2
  <2>2. \A t \in Tokens : /\ token'[t].family = token[t].family
                          /\ token'[t].rotated = token[t].rotated
                          /\ token'[t].revoked = token[t].revoked
    BY <2>1 DEF ExpireToken, SInv, TypeOK, TokenTypeOK
  <2>3. UNCHANGED <<jar, req, closed>>
    BY <2>1 DEF ExpireToken, ghosts
  <2> QED BY <1>0, <1>j, <2>2, <2>3, IdleStep
<1>3. CASE Unlock \/ SetActive
  <2>1. UNCHANGED <<token, jar, req, closed>>
    BY <1>3 DEF Unlock, SetActive, ghosts
  <2> QED BY <1>0, <1>j, <2>1, IdleStep
<1> QED BY <1>1, <1>2, <1>3

\* The inductive invariant.
THEOREM SessionsInvariant == Spec => []SInv
<1>1. SInv /\ [Next]_vars => SInv'
  <2> SUFFICES ASSUME SInv, [Next]_vars PROVE SInv'
    OBVIOUS
  <2>1. CASE UNCHANGED vars
    <3>1. UNCHANGED <<token, jar, req, closed>> /\ TypeOK'
      BY <2>1 DEF vars, ghosts, SInv, TypeOK, TokenTypeOK, ReqTypeOK, UserTypeOK
    <3>2. \A x \in Browsers : jar[x].refresh # None => Issued(jar[x].refresh)
      BY DEF SInv, CookiesInv
    <3> QED BY <3>1, <3>2, IdleStep
  <2> QED BY <2>1, AskInv, ServeInv, RestInv DEF Next
<1> QED BY <1>1, InitInv, PTL DEF Spec

\* The shape of the state, for every value of the constants.
THEOREM SessionsTypes == Spec => []TypeOK
BY SessionsInvariant, PTL DEF SInv

\* A family never has two tokens that would refresh, nor one besides a refresh that
\* is about to insert the next, whatever requests interleave, fail or lose answers.
THEOREM OneLiveToken == Spec => []OneLiveTokenPerFamily
<1>1. SInv => OneLiveTokenPerFamily
  BY DEF SInv, OneHolder, OneLiveTokenPerFamily, Pending
<1> QED BY <1>1, SessionsInvariant, PTL

\* A session revoked while no refresh of it was past its claim never comes back.
THEOREM RevokedForGood == Spec => []RevokedStaysRevoked
<1>1. SInv => RevokedStaysRevoked
  BY DEF SInv, ClosedInv, RevokedStaysRevoked, Pending
<1> QED BY <1>1, SessionsInvariant, PTL

-----------------------------------------------------------------------------
(* Recovery codes *)

\* A code opens a session once: after it is used, or while the handler that used
\* it has not issued the session's token.
CodesInv ==
    \A c \in Codes :
       /\ opened[c] <= 1
       /\ code[c] \in {"free", "unused"} \/ opened[c] = 1
            => \A r \in Requests : At(r, "issue") => req[r].code # c
       /\ code[c] \in {"free", "unused"} => opened[c] = 0
       /\ \A q, r \in Requests : At(q, "issue") /\ req[q].code = c
                                 /\ At(r, "issue") /\ req[r].code = c => q = r

\* A handler given a code was given one the server made; a refresh has none.
CodeKnown ==
    \A r \in Requests : /\ At(r, "spend") => req[r].code \in Codes
                        /\ At(r, "claim") \/ At(r, "load") => req[r].code = None

\* Steps that leave the codes alone and let no handler with a code reach its issue.
LEMMA CodesQuiet ==
  ASSUME SInv, CodesInv, CodeKnown, NEW r \in Requests, UNCHANGED opened,
         \A c \in Codes : code'[c] \in {"free", "unused"} => code[c] \in {"free", "unused"},
         \A q \in Requests \ {r} : req'[q] = req[q],
         At(r, "issue")' => \/ req'[r].code = None
                            \/ At(r, "issue") /\ req'[r].code = req[r].code,
         At(r, "spend")' => req'[r].code \in Codes,
         At(r, "claim")' \/ At(r, "load")' => req'[r].code = None
  PROVE  CodesInv' /\ CodeKnown'
<1>1. \A q \in Requests \ {r}, x \in {"spend", "claim", "load", "issue"} : At(q, x)' <=> At(q, x)
  BY DEF At
<1>2. None \notin Codes
  BY SessionsAssumption
<1>3. \A q \in Requests, c \in Codes :
         At(q, "issue")' /\ req'[q].code = c => At(q, "issue") /\ req[q].code = c
  BY <1>1, <1>2
<1>4. CodesInv'
  <2> SUFFICES ASSUME NEW c \in Codes
               PROVE  /\ opened[c] <= 1
                      /\ code'[c] \in {"free", "unused"} \/ opened[c] = 1
                           => \A q \in Requests : At(q, "issue")' => req'[q].code # c
                      /\ code'[c] \in {"free", "unused"} => opened[c] = 0
                      /\ \A p, q \in Requests : At(p, "issue")' /\ req'[p].code = c
                                                /\ At(q, "issue")' /\ req'[q].code = c => p = q
    BY DEF CodesInv
  <2>1. opened[c] <= 1 /\ (code'[c] \in {"free", "unused"} => opened[c] = 0)
    BY DEF CodesInv
  <2>2. ASSUME code'[c] \in {"free", "unused"} \/ opened[c] = 1, NEW q \in Requests, At(q, "issue")'
        PROVE  req'[q].code # c
    <3>1. \A x \in Requests : At(x, "issue") => req[x].code # c
      BY <2>2 DEF CodesInv
    <3> QED BY <1>3, <2>2, <3>1
  <2>3. ASSUME NEW p \in Requests, NEW q \in Requests, At(p, "issue")' /\ At(q, "issue")',
               req'[p].code = c /\ req'[q].code = c
        PROVE  p = q
    <3>1. At(p, "issue") /\ At(q, "issue") /\ req[p].code = c /\ req[q].code = c
      BY <1>3, <2>3
    <3> QED BY <3>1 DEF CodesInv
  <2>4. code'[c] \in {"free", "unused"} \/ opened[c] = 1
           => \A q \in Requests : At(q, "issue")' => req'[q].code # c
    BY <2>2
  <2>5. \A p, q \in Requests : At(p, "issue")' /\ req'[p].code = c
                               /\ At(q, "issue")' /\ req'[q].code = c => p = q
    BY <2>3
  <2> QED BY <2>1, <2>4, <2>5
<1>5. CodeKnown'
  BY <1>1 DEF CodeKnown
<1> QED BY <1>4, <1>5

LEMMA CodesStart ==
  ASSUME SInv, CodesInv, CodeKnown, NEW r \in Requests, NEW b, NEW op, NEW stage,
         NEW t, NEW f, NEW c, NEW s, Start(r, b, op, stage, t, f, c, s),
         stage \in {"issue", "claim", "load"} => c = None, stage = "spend" => c \in Codes,
         UNCHANGED <<opened, code>>
  PROVE  CodesInv' /\ CodeKnown'
<1>1. req'[r].at = stage /\ req'[r].code = c /\ \A q \in Requests \ {r} : req'[q] = req[q]
  BY DEF Start, SInv, TypeOK, ReqTypeOK
<1>2. /\ At(r, "issue")' => req'[r].code = None
      /\ At(r, "spend")' => req'[r].code \in Codes
      /\ At(r, "claim")' \/ At(r, "load")' => req'[r].code = None
  BY <1>1 DEF At
<1>3. UNCHANGED opened /\ \A x \in Codes : code'[x] \in {"free", "unused"} => code[x] \in {"free", "unused"}
  OBVIOUS
<1> QED BY <1>1, <1>2, <1>3, CodesQuiet

LEMMA CodesAsk ==
  ASSUME SInv, CodesInv, CodeKnown, NEW r \in Requests, NEW b \in Browsers, Ask(r, b)
  PROVE  CodesInv' /\ CodeKnown'
<1>1. UNCHANGED <<opened, code>>
  BY DEF Ask, LoginWrong, LoginRight, VerifyMfa, Refresh, Logout, EnrollMfa, ConfirmMfa,
         DisableMfa, StartSetting, ghosts
<1>2. ASSUME NEW op, NEW reply, StartAnswered(r, b, op, reply)
      PROVE  CodesInv' /\ CodeKnown'
  <2>1. req'[r].at = "reply" /\ \A q \in Requests \ {r} : req'[q] = req[q]
    BY <1>2 DEF StartAnswered, SInv, TypeOK, ReqTypeOK
  <2>2. ~At(r, "issue")' /\ ~At(r, "spend")' /\ ~At(r, "claim")' /\ ~At(r, "load")'
    BY <2>1 DEF At
  <2>3. UNCHANGED opened /\ \A x \in Codes : code'[x] \in {"free", "unused"} => code[x] \in {"free", "unused"}
    BY <1>1
  <2> QED BY <2>1, <2>2, <2>3, CodesQuiet
<1>3. CASE LoginWrong(r, b)
  BY <1>1, <1>3, CodesStart DEF LoginWrong
<1>4. CASE LoginRight(r, b)
  BY <1>1, <1>2, <1>4, CodesStart DEF LoginRight
<1>5. CASE VerifyMfa(r, b)
  BY <1>1, <1>5, CodesStart DEF VerifyMfa
<1>6. CASE Refresh(r, b)
  BY <1>1, <1>2, <1>6, CodesStart DEF Refresh
<1>7. CASE Logout(r, b)
  BY <1>1, <1>2, <1>7, CodesStart DEF Logout
<1>8. CASE EnrollMfa(r, b) \/ ConfirmMfa(r, b) \/ DisableMfa(r, b)
  BY <1>1, <1>8, CodesStart DEF EnrollMfa, ConfirmMfa, DisableMfa, StartSetting
<1> QED BY <1>3, <1>4, <1>5, <1>6, <1>7, <1>8 DEF Ask

LEMMA CodesServe ==
  ASSUME SInv, CodesInv, CodeKnown, NEW r \in Requests, Serve(r)
  PROVE  CodesInv' /\ CodeKnown'
<1>0. ReqTypeOK /\ code \in [Codes -> {"free", "unused", "used", "deleted"}]
      /\ opened \in [Codes -> Nat]
  BY DEF SInv, TypeOK
<1>1. ASSUME UNCHANGED opened,
             \A c \in Codes : code'[c] \in {"free", "unused"} => code[c] \in {"free", "unused"},
             \A q \in Requests \ {r} : req'[q] = req[q],
             req'[r].at \notin {"issue", "spend", "claim", "load"}
      PROVE  CodesInv' /\ CodeKnown'
  <2>1. ~At(r, "issue")' /\ ~At(r, "spend")' /\ ~At(r, "claim")' /\ ~At(r, "load")'
    BY <1>1 DEF At
  <2> QED BY <1>1, <2>1, CodesQuiet
<1>2. ASSUME req[r] # Idle, UNCHANGED opened,
             \A c \in Codes : code'[c] \in {"free", "unused"} => code[c] \in {"free", "unused"},
             \E stage \in {"lock", "revoke"} : Goto(r, stage)
      PROVE  CodesInv' /\ CodeKnown'
  BY <1>0, <1>1, <1>2, GotoFields
<1>3. ASSUME req[r] # Idle, UNCHANGED opened,
             \A c \in Codes : code'[c] \in {"free", "unused"} => code[c] \in {"free", "unused"},
             \E reply \in {"clear", "error"} : Answer(r, reply)
      PROVE  CodesInv' /\ CodeKnown'
  BY <1>0, <1>1, <1>3, AnswerFields
<1>4. ASSUME UNCHANGED <<code, opened>>, req' = [req EXCEPT ![r] = Idle]
      PROVE  CodesInv' /\ CodeKnown'
  BY <1>0, <1>1, <1>4 DEF ReqTypeOK, Idle
<1>5. CASE SpendCode(r)
  <2>0. /\ At(r, "spend") /\ req[r] # Idle /\ req[r] \in Req /\ req[r].code \in Codes
        /\ UNCHANGED opened
    BY <1>0, <1>5, ReqShape DEF SpendCode, At, CodeKnown
  <2>1. CASE Spendable(req[r].code) /\ code' = [code EXCEPT ![req[r].code] = "used"] /\ Goto(r, "issue")
    <3> DEFINE c0 == req[r].code
    <3>1. /\ \A q \in Requests \ {r} : req'[q] = req[q]
          /\ req'[r].at = "issue" /\ req'[r].code = c0
      BY <1>0, <2>0, <2>1, GotoFields
    <3>2. \A q \in Requests \ {r}, x \in {"spend", "claim", "load", "issue"} : At(q, x)' <=> At(q, x)
      BY <3>1 DEF At
    <3>3. code[c0] = "unused" /\ code'[c0] = "used" /\ \A c \in Codes \ {c0} : code'[c] = code[c]
      BY <1>0, <2>0, <2>1 DEF Spendable
    <3>4. opened[c0] = 0 /\ \A q \in Requests : At(q, "issue") => req[q].code # c0
      BY <2>0, <3>3 DEF CodesInv
    <3>5. ~At(r, "issue") /\ ~At(r, "spend")' /\ ~At(r, "claim")' /\ ~At(r, "load")'
      BY <2>0, <3>1 DEF At
    <3>6. CodesInv'
      <4>1. \A c \in Codes \ {c0}, q \in Requests :
               At(q, "issue")' /\ req'[q].code = c => At(q, "issue") /\ req[q].code = c
        BY <3>1, <3>2
      <4>2. \A q \in Requests : At(q, "issue")' /\ req'[q].code = c0 => q = r
        BY <3>1, <3>2, <3>4
      <4>3. ASSUME NEW c \in Codes \ {c0}
            PROVE  /\ opened[c] <= 1
                   /\ code[c] \in {"free", "unused"} \/ opened[c] = 1
                        => \A q \in Requests : At(q, "issue")' => req'[q].code # c
                   /\ code[c] \in {"free", "unused"} => opened[c] = 0
                   /\ \A q, p \in Requests : At(q, "issue")' /\ req'[q].code = c
                                             /\ At(p, "issue")' /\ req'[p].code = c => q = p
        BY <4>1 DEF CodesInv
      <4> QED BY <2>0, <3>3, <3>4, <4>2, <4>3 DEF CodesInv
    <3>7. CodeKnown'
      BY <3>1, <3>2, <3>5 DEF CodeKnown
    <3> QED BY <3>6, <3>7
  <2>2. CASE UNCHANGED code /\ req' = [req EXCEPT ![r].at = "fail", ![r].family = None]
    <3> DEFINE there == [req[r] EXCEPT !.at = "fail"]
    <3>1. there.at = "fail" /\ there \in Req
      BY <2>0 DEF Req
    <3>2. req' = [req EXCEPT ![r] = [there EXCEPT !.family = None]]
      BY <1>0, <2>2 DEF ReqTypeOK
    <3> HIDE DEF there
    <3>3. [there EXCEPT !.family = None].at = "fail"
      BY <3>1 DEF Req
    <3>4. req'[r].at = "fail" /\ \A q \in Requests \ {r} : req'[q] = req[q]
      BY <1>0, <3>2, <3>3 DEF ReqTypeOK
    <3> QED BY <1>1, <2>0, <2>2, <3>4
  <2> QED BY <1>5, <2>1, <2>2 DEF SpendCode
<1>6. CASE Issue(r)
  <2>0. /\ At(r, "issue") /\ req[r] # Idle /\ req[r] \in Req
        /\ req[r].code \in Codes \cup {None} /\ UNCHANGED code
    BY <1>0, <1>6, ReqShape DEF Issue, At
  <2> DEFINE c0 == req[r].code
  <2>1. PICK t0 \in Tokens :
           req' = [req EXCEPT ![r].at = "reply", ![r].reply = "tokens", ![r].token = t0]
    BY <1>6 DEF Issue
  <2>2. req'[r].at = "reply"
    <3> DEFINE one == [req[r] EXCEPT !.at = "reply"]
    <3>1. one.at = "reply" /\ one \in Req
      BY <2>0 DEF Req
    <3>2. req'[r] = [[one EXCEPT !.reply = "tokens"] EXCEPT !.token = t0]
      BY <1>0, <2>1 DEF ReqTypeOK
    <3> HIDE DEF one
    <3> QED BY <3>1, <3>2 DEF Req
  <2>3. \A q \in Requests \ {r} : req'[q] = req[q]
    BY <1>0, <2>1 DEF ReqTypeOK
  <2>4. CASE c0 = None
    BY <1>1, <1>6, <2>0, <2>2, <2>3, <2>4 DEF Issue
  <2>5. CASE c0 \in Codes
    <3>0. c0 # None
      BY <2>5, SessionsAssumption
    <3>1. /\ opened' = [opened EXCEPT ![c0] = @ + 1]
          /\ opened'[c0] = opened[c0] + 1 /\ \A c \in Codes \ {c0} : opened'[c] = opened[c]
      BY <1>0, <1>6, <2>5, <3>0 DEF Issue
    <3>2. /\ code[c0] \notin {"free", "unused"} /\ opened[c0] # 1 /\ opened[c0] <= 1
          /\ \A q \in Requests : At(q, "issue") /\ req[q].code = c0 => q = r
      BY <2>0, <2>5 DEF CodesInv
    <3>3. opened'[c0] = 1
      BY <1>0, <2>5, <3>1, <3>2
    <3>4. \A q \in Requests \ {r}, x \in {"spend", "claim", "load", "issue"} : At(q, x)' <=> At(q, x)
      BY <2>3 DEF At
    <3>5. ~At(r, "issue")' /\ ~At(r, "spend")' /\ ~At(r, "claim")' /\ ~At(r, "load")'
      BY <2>2 DEF At
    <3>6. CodesInv'
      <4>1. \A c \in Codes, q \in Requests :
               At(q, "issue")' /\ req'[q].code = c => At(q, "issue") /\ req[q].code = c
        BY <2>3, <3>4, <3>5
      <4>2. \A q \in Requests : At(q, "issue")' => req'[q].code # c0
        BY <2>3, <3>2, <3>4, <3>5
      <4>3. ASSUME NEW c \in Codes \ {c0}
            PROVE  /\ opened[c] <= 1
                   /\ code[c] \in {"free", "unused"} \/ opened[c] = 1
                        => \A q \in Requests : At(q, "issue")' => req'[q].code # c
                   /\ code[c] \in {"free", "unused"} => opened[c] = 0
                   /\ \A q, p \in Requests : At(q, "issue")' /\ req'[q].code = c
                                             /\ At(p, "issue")' /\ req'[p].code = c => q = p
        BY <4>1 DEF CodesInv
      <4> QED BY <2>0, <3>1, <3>2, <3>3, <4>2, <4>3 DEF CodesInv
    <3>7. CodeKnown'
      BY <2>3, <3>4, <3>5 DEF CodeKnown
    <3> QED BY <3>6, <3>7
  <2> QED BY <2>0, <2>4, <2>5
<1>7. CASE RecordFailure(r) \/ Lock(r) \/ Claim(r) \/ LoadUser(r) \/ RevokeFamily(r)
  <2>1. req[r] # Idle /\ UNCHANGED <<code, opened>>
    BY <1>7 DEF RecordFailure, Lock, Claim, LoadUser, RevokeFamily, At, ghosts
  <2>2. \/ \E stage \in {"lock", "revoke"} : Goto(r, stage)
        \/ \E reply \in {"clear", "error"} : Answer(r, reply)
        \/ /\ \E stage \in {"load", "issue"} : Goto(r, stage)
           /\ At(r, "claim") \/ At(r, "load")
    BY <1>7 DEF RecordFailure, Lock, Claim, LoadUser, RevokeFamily
  <2>3. ASSUME NEW stage \in {"load", "issue"}, Goto(r, stage), At(r, "claim") \/ At(r, "load")
        PROVE  CodesInv' /\ CodeKnown'
    <3>1. req'[r].at = stage /\ req'[r].code = None /\ \A q \in Requests \ {r} : req'[q] = req[q]
      BY <1>0, <2>1, <2>3, GotoFields DEF CodeKnown
    <3>2. ~At(r, "spend")'
      BY <3>1 DEF At
    <3>3. UNCHANGED opened /\ \A c \in Codes : code'[c] \in {"free", "unused"} => code[c] \in {"free", "unused"}
      BY <2>1
    <3> QED BY <3>1, <3>2, <3>3, CodesQuiet
  <2> QED BY <1>2, <1>3, <2>1, <2>2, <2>3
<1>8. CASE WriteEnroll(r) \/ WriteConfirm(r) \/ WriteDisable(r)
  <2>1. req[r] # Idle /\ Answer(r, "error") /\ UNCHANGED opened
    BY <1>8 DEF WriteEnroll, WriteConfirm, WriteDisable, Settled, At
  <2>2. \A c \in Codes : code'[c] \in {"free", "unused"} => code[c] \in {"free", "unused"}
    BY <1>8 DEF WriteEnroll, WriteConfirm, WriteDisable
  <2> QED BY <1>3, <2>1, <2>2
<1>9. CASE Reply(r)
  BY <1>4, <1>9 DEF Reply, ghosts
<1>10. CASE Fail(r)
  BY <1>3, <1>4, <1>10 DEF Fail
<1> QED BY <1>5, <1>6, <1>7, <1>8, <1>9, <1>10 DEF Serve

\* A recovery code opens one session at most, however many requests present it at
\* once and whatever happens to the MFA settings meanwhile.
THEOREM CodesOpenOnce == Spec => []CodeOpensOnce
<1>1. Init => CodesInv /\ CodeKnown
  BY DEF Init, CodesInv, CodeKnown, At
<1>2. SInv /\ SInv' /\ CodesInv /\ CodeKnown /\ [Next]_vars => CodesInv' /\ CodeKnown'
  <2> SUFFICES ASSUME SInv, CodesInv, CodeKnown, [Next]_vars PROVE CodesInv' /\ CodeKnown'
    OBVIOUS
  <2>1. ASSUME UNCHANGED <<req, code, opened>>
        PROVE  CodesInv' /\ CodeKnown'
    BY <2>1 DEF CodesInv, CodeKnown, At
  <2>2. CASE \/ \E b \in Browsers : ExpireCookies(b)
             \/ \E t \in Tokens : ExpireToken(t)
             \/ Unlock \/ SetActive \/ UNCHANGED vars
    <3>1. UNCHANGED <<req, code, opened>>
      BY <2>2 DEF ExpireCookies, ExpireToken, Unlock, SetActive, vars, ghosts
    <3> QED BY <2>1, <3>1
  <2> QED BY <2>2, CodesAsk, CodesServe DEF Next
<1>3. CodesInv => CodeOpensOnce
  BY DEF CodesInv, CodeOpensOnce
<1> QED BY <1>1, <1>2, <1>3, SessionsInvariant, PTL DEF Spec
-----------------------------------------------------------------------------
(* What a step makes of a request, field by field *)

\* A request with another stage and answer.
Served(q, stage, reply) ==
  [op |-> q.op, at |-> stage, browser |-> q.browser, token |-> q.token, family |-> q.family,
   code |-> q.code, secret |-> q.secret, reply |-> reply]

LEMMA ServedFields ==
  ASSUME NEW q, NEW stage, NEW reply
  PROVE  LET s == Served(q, stage, reply) IN
         /\ s.op = q.op /\ s.at = stage /\ s.browser = q.browser /\ s.token = q.token
         /\ s.family = q.family /\ s.code = q.code /\ s.secret = q.secret /\ s.reply = reply
         /\ stage # "idle" => s # Idle
<1> DEFINE s == Served(q, stage, reply)
<1>1. s.at = stage
  BY DEF Served
<1>2. Idle.at = "idle"
  BY DEF Idle
<1>3. stage # "idle" => s # Idle
  BY <1>1, <1>2
<1> QED BY <1>3 DEF Served

LEMMA WholeRequest ==
  ASSUME ReqTypeOK, NEW r \in Requests, req[r] # Idle
  PROVE  req[r] = Served(req[r], req[r].at, req[r].reply)
BY ReqShape DEF Served, Req

LEMMA GotoServed ==
  ASSUME ReqTypeOK, NEW r \in Requests, req[r] # Idle, NEW stage, Goto(r, stage)
  PROVE  /\ \A q \in Requests \ {r} : req'[q] = req[q]
         /\ req'[r] = Served(req[r], stage, req[r].reply)
<1> DEFINE q == Served(req[r], req[r].at, req[r].reply)
<1>1. req[r] = q
  BY WholeRequest
<1>2. [q EXCEPT !.at = stage] = Served(req[r], stage, req[r].reply)
  BY DEF Served
<1>3. req'[r] = [req[r] EXCEPT !.at = stage] /\ \A p \in Requests \ {r} : req'[p] = req[p]
  BY DEF Goto, ReqTypeOK
<1> HIDE DEF q
<1> QED BY <1>1, <1>2, <1>3

LEMMA AnswerServed ==
  ASSUME ReqTypeOK, NEW r \in Requests, req[r] # Idle, NEW reply, Answer(r, reply)
  PROVE  /\ \A q \in Requests \ {r} : req'[q] = req[q]
         /\ req'[r] = Served(req[r], "reply", reply)
<1> DEFINE q == Served(req[r], req[r].at, req[r].reply)
<1>1. req[r] = q
  BY WholeRequest
<1>2. [[q EXCEPT !.at = "reply"] EXCEPT !.reply = reply] = Served(req[r], "reply", reply)
  <2>1. [q EXCEPT !.at = "reply"] = Served(req[r], "reply", req[r].reply)
    BY DEF Served
  <2>2. [Served(req[r], "reply", req[r].reply) EXCEPT !.reply = reply] = Served(req[r], "reply", reply)
    BY DEF Served
  <2> QED BY <2>1, <2>2
<1>3. req' = [req EXCEPT ![r] = [[req[r] EXCEPT !.at = "reply"] EXCEPT !.reply = reply]]
  BY DEF Answer, ReqTypeOK
<1> HIDE DEF q
<1> QED BY <1>1, <1>2, <1>3 DEF ReqTypeOK

\* A request goes on with what it holds; it changes a field on its way.
Goes(r, stage) ==
  /\ req'[r] # Idle /\ req'[r].at = stage
  /\ req'[r].op = req[r].op /\ req'[r].browser = req[r].browser /\ req'[r].secret = req[r].secret

Stays(r, stage) == Goes(r, stage) /\ req'[r].token = req[r].token /\ req'[r].family = req[r].family

Answers(r, reply) == Stays(r, "reply") /\ req'[r].reply = reply

LEMMA GotoStays ==
  ASSUME ReqTypeOK, NEW r \in Requests, At(r, "spend") \/ req[r] # Idle,
         NEW stage, stage # "idle", Goto(r, stage)
  PROVE  Stays(r, stage) /\ \A q \in Requests \ {r} : req'[q] = req[q]
<1>1. req'[r] = Served(req[r], stage, req[r].reply) /\ \A q \in Requests \ {r} : req'[q] = req[q]
  BY GotoServed DEF At
<1> QED BY <1>1, ServedFields DEF Stays, Goes

LEMMA AnswerStays ==
  ASSUME ReqTypeOK, NEW r \in Requests, req[r] # Idle, NEW reply, Answer(r, reply)
  PROVE  Answers(r, reply) /\ \A q \in Requests \ {r} : req'[q] = req[q]
<1>1. req'[r] = Served(req[r], "reply", reply) /\ \A q \in Requests \ {r} : req'[q] = req[q]
  BY AnswerServed
<1> QED BY <1>1, ServedFields DEF Answers, Stays, Goes

LEMMA SpendMoves ==
  ASSUME ReqTypeOK, NEW r \in Requests, SpendCode(r)
  PROVE  /\ At(r, "spend") /\ \A q \in Requests \ {r} : req'[q] = req[q]
         /\ \/ Stays(r, "issue") /\ UNCHANGED guesses
            \/ Goes(r, "fail") /\ req'[r].token = req[r].token /\ req'[r].family = None /\ Guess
<1>1. At(r, "spend") /\ req[r] # Idle
  BY DEF SpendCode, At
<1>2. CASE Goto(r, "issue") /\ UNCHANGED guesses
  BY <1>1, <1>2, GotoStays
<1>3. CASE req' = [req EXCEPT ![r].at = "fail", ![r].family = None] /\ Guess
  <2> DEFINE q == Served(req[r], req[r].at, req[r].reply)
             there == Served(req[r], "fail", req[r].reply)
  <2>1. req[r] = q
    BY <1>1, WholeRequest
  <2>2. [q EXCEPT !.at = "fail"] = there
    BY DEF Served
  <2>3. req' = [req EXCEPT ![r] = [[req[r] EXCEPT !.at = "fail"] EXCEPT !.family = None]]
    BY <1>3 DEF ReqTypeOK
  <2> HIDE DEF q
  <2>4. req'[r] = [there EXCEPT !.family = None] /\ \A p \in Requests \ {r} : req'[p] = req[p]
    BY <2>1, <2>2, <2>3 DEF ReqTypeOK
  <2>5. /\ req'[r].at = "fail" /\ req'[r].op = req[r].op /\ req'[r].browser = req[r].browser
        /\ req'[r].secret = req[r].secret /\ req'[r].token = req[r].token /\ req'[r].family = None
    BY <2>4 DEF Served
  <2>6. req'[r] # Idle
    BY <2>5 DEF Idle
  <2> QED BY <1>1, <1>3, <2>4, <2>5, <2>6 DEF Goes
<1> QED BY <1>1, <1>2, <1>3 DEF SpendCode

LEMMA IssueMoves ==
  ASSUME ReqTypeOK, NEW r \in Requests, NEW t,
         At(r, "issue"), req' = [req EXCEPT ![r].at = "reply", ![r].reply = "tokens", ![r].token = t]
  PROVE  /\ \A q \in Requests \ {r} : req'[q] = req[q]
         /\ Goes(r, "reply") /\ req'[r].reply = "tokens" /\ req'[r].token = t
         /\ req'[r].family = req[r].family
<1> DEFINE q == Served(req[r], req[r].at, req[r].reply)
           there == Served(req[r], "reply", req[r].reply)
           told == Served(req[r], "reply", "tokens")
<1>1. req[r] = q
  BY WholeRequest DEF At
<1>2. [q EXCEPT !.at = "reply"] = there /\ [there EXCEPT !.reply = "tokens"] = told
  <2>1. [q EXCEPT !.at = "reply"] = there
    BY DEF Served
  <2>2. [there EXCEPT !.reply = "tokens"] = told
    BY DEF Served
  <2> QED BY <2>1, <2>2
<1>3. req' = [req EXCEPT ![r] = [[[req[r] EXCEPT !.at = "reply"] EXCEPT !.reply = "tokens"] EXCEPT !.token = t]]
  BY DEF ReqTypeOK
<1> HIDE DEF q, there, told
<1>4. req'[r] = [told EXCEPT !.token = t] /\ \A p \in Requests \ {r} : req'[p] = req[p]
  BY <1>1, <1>2, <1>3 DEF ReqTypeOK
<1> USE DEF told
<1>5. /\ req'[r].at = "reply" /\ req'[r].op = req[r].op /\ req'[r].browser = req[r].browser
      /\ req'[r].secret = req[r].secret /\ req'[r].family = req[r].family
      /\ req'[r].reply = "tokens" /\ req'[r].token = t
  BY <1>4 DEF Served
<1>6. req'[r] # Idle
  <2>1. Idle.at = "idle"
    BY DEF Idle
  <2> QED BY <1>5, <2>1
<1> QED BY <1>4, <1>5, <1>6 DEF Goes

LEMMA StartMoves ==
  ASSUME ReqTypeOK, NEW r \in Requests, NEW b, NEW op, NEW stage, NEW t, NEW f, NEW c, NEW s,
         Start(r, b, op, stage, t, f, c, s), stage # "idle"
  PROVE  /\ req[r] = Idle /\ req'[r] # Idle /\ \A q \in Requests \ {r} : req'[q] = req[q]
         /\ req'[r].op = op /\ req'[r].at = stage /\ req'[r].browser = b
         /\ req'[r].token = t /\ req'[r].family = f /\ req'[r].secret = s
<1> DEFINE new == [op |-> op, at |-> stage, browser |-> b, token |-> t, family |-> f,
                   code |-> c, secret |-> s, reply |-> "none"]
<1>1. req'[r] = new /\ req[r] = Idle /\ \A q \in Requests \ {r} : req'[q] = req[q]
  BY DEF Start, Begin, ReqTypeOK
<1>2. req'[r].at = stage
  BY <1>1
<1> QED BY <1>1, <1>2 DEF Idle

LEMMA StartAnsweredMoves ==
  ASSUME ReqTypeOK, NEW r \in Requests, NEW b, NEW op, NEW reply, StartAnswered(r, b, op, reply)
  PROVE  /\ req[r] = Idle /\ req'[r] # Idle /\ \A q \in Requests \ {r} : req'[q] = req[q]
         /\ req'[r].op = op /\ req'[r].at = "reply" /\ req'[r].browser = b
         /\ req'[r].family = None /\ req'[r].reply = reply
<1> DEFINE new == [op |-> op, at |-> "reply", browser |-> b, token |-> None, family |-> None,
                   code |-> None, secret |-> None, reply |-> reply]
<1>1. req'[r] = new /\ req[r] = Idle /\ \A q \in Requests \ {r} : req'[q] = req[q]
  BY DEF StartAnswered, Begin, ReqTypeOK
<1>2. req'[r].at = "reply"
  BY <1>1
<1> QED BY <1>1, <1>2 DEF Idle

-----------------------------------------------------------------------------
(* Guesses *)

Stage(x) == {r \in Requests : At(r, x)}

\* A guess was counted by its request, or is with it; the failures reach the threshold
\* only while a request is about to lock the account.
GuessInv ==
  ~mishap => /\ guesses <= user.failed + Cardinality(Stage("fail"))
             /\ user.failed < MaxFailures + Cardinality(Stage("lock"))

\* How one request changes the number of those at a stage.
LEMMA StageCount ==
  ASSUME NEW r \in Requests, \A q \in Requests \ {r} : req'[q] = req[q], NEW x
  PROVE  /\ Cardinality(Stage(x)) \in Nat /\ Cardinality(Stage(x))' \in Nat
         /\ Cardinality(Stage(x))' =
              Cardinality(Stage(x)) + (IF At(r, x)' THEN 1 ELSE 0) - (IF At(r, x) THEN 1 ELSE 0)
<1>1. IsFiniteSet(Stage(x)) /\ Cardinality(Stage(x)) \in Nat
  BY SessionsAssumption, FS_Subset, FS_CardinalityType DEF Stage
<1>2. IsFiniteSet(Stage(x))' /\ Cardinality(Stage(x))' \in Nat
  BY SessionsAssumption, FS_Subset, FS_CardinalityType DEF Stage
<1>3. \A q \in Requests \ {r} : At(q, x)' <=> At(q, x)
  BY DEF At
<1>4. CASE At(r, x)' /\ ~At(r, x)
  <2>1. Stage(x)' = Stage(x) \cup {r} /\ r \notin Stage(x)
    BY <1>3, <1>4 DEF Stage
  <2>2. Cardinality(Stage(x) \cup {r}) = Cardinality(Stage(x)) + 1
    BY <1>1, <2>1, FS_AddElement
  <2>3. Cardinality(Stage(x))' = Cardinality(Stage(x)) + 1
    BY <2>1, <2>2
  <2> QED BY <1>1, <1>2, <1>4, <2>3
<1>5. CASE ~At(r, x)' /\ At(r, x)
  <2>1. Stage(x)' = Stage(x) \ {r} /\ r \in Stage(x)
    BY <1>3, <1>5 DEF Stage
  <2>2. Cardinality(Stage(x) \ {r}) = Cardinality(Stage(x)) - 1
    BY <1>1, <2>1, FS_RemoveElement
  <2>3. Cardinality(Stage(x))' = Cardinality(Stage(x)) - 1
    BY <2>1, <2>2
  <2> QED BY <1>1, <1>2, <1>5, <2>3
<1>6. CASE At(r, x)' <=> At(r, x)
  <2>1. Stage(x)' = Stage(x)
    BY <1>3, <1>6 DEF Stage
  <2> QED BY <1>1, <1>6, <2>1
<1> QED BY <1>1, <1>2, <1>4, <1>5, <1>6

\* A step of one request that counts for nothing.
LEMMA GuessQuiet ==
  ASSUME SInv, GuessInv, NEW r \in Requests, \A q \in Requests \ {r} : req'[q] = req[q],
         ~At(r, "fail"), ~At(r, "fail")', ~At(r, "lock"), ~At(r, "lock")',
         UNCHANGED guesses, user'.failed = user.failed, mishap => mishap'
  PROVE  GuessInv'
<1>1. /\ Cardinality(Stage("fail"))' = Cardinality(Stage("fail"))
      /\ Cardinality(Stage("lock"))' = Cardinality(Stage("lock"))
  BY StageCount
<1> QED BY <1>1 DEF GuessInv

\* A wrong secret is counted, and its request goes on to record it.
LEMMA GuessWrong ==
  ASSUME SInv, GuessInv, NEW r \in Requests, \A q \in Requests \ {r} : req'[q] = req[q],
         ~At(r, "fail"), At(r, "fail")', ~At(r, "lock"), ~At(r, "lock")',
         Guess, UNCHANGED <<user, mishap>>
  PROVE  GuessInv'
<1>1. /\ Cardinality(Stage("fail")) \in Nat
      /\ Cardinality(Stage("fail"))' = Cardinality(Stage("fail")) + 1
      /\ Cardinality(Stage("lock"))' = Cardinality(Stage("lock"))
  BY StageCount
<1>2. guesses \in Int /\ user.failed \in Nat
  BY BoundIsNat DEF SInv, TypeOK, UserTypeOK
<1>3. guesses' = guesses \/ guesses' = guesses + 1
  BY DEF Guess
<1> QED BY <1>1, <1>2, <1>3 DEF GuessInv

\* The account starts from nothing again.
LEMMA GuessReset ==
  ASSUME SInv, GuessInv, NEW r \in Requests, \A q \in Requests \ {r} : req'[q] = req[q],
         guesses' = 0, user'.failed = 0
  PROVE  GuessInv'
<1>1. Cardinality(Stage("fail"))' \in Nat /\ Cardinality(Stage("lock"))' \in Nat
  BY StageCount
<1> QED BY <1>1, SessionsAssumption DEF GuessInv

LEMMA GuessAsk ==
  ASSUME SInv, GuessInv, NEW r \in Requests, NEW b \in Browsers, Ask(r, b)
  PROVE  GuessInv'
<1>0. ReqTypeOK
  BY DEF SInv, TypeOK
<1>1. ASSUME NEW op, NEW stage, stage \notin {"idle", "fail", "lock"}, NEW t, NEW f, NEW c, NEW s,
             Start(r, b, op, stage, t, f, c, s), UNCHANGED <<guesses, user>>, mishap => mishap'
      PROVE  GuessInv'
  <2>1. /\ req[r] = Idle /\ req'[r].at = stage /\ \A q \in Requests \ {r} : req'[q] = req[q]
    BY <1>0, <1>1, StartMoves
  <2>2. ~At(r, "fail") /\ ~At(r, "fail")' /\ ~At(r, "lock") /\ ~At(r, "lock")'
    BY <1>1, <2>1 DEF At
  <2> QED BY <1>1, <2>1, <2>2, GuessQuiet
<1>2. ASSUME NEW op, NEW reply, StartAnswered(r, b, op, reply), UNCHANGED <<guesses, user, mishap>>
      PROVE  GuessInv'
  <2>1. /\ req[r] = Idle /\ req'[r].at = "reply" /\ \A q \in Requests \ {r} : req'[q] = req[q]
    BY <1>0, <1>2, StartAnsweredMoves
  <2>2. ~At(r, "fail") /\ ~At(r, "fail")' /\ ~At(r, "lock") /\ ~At(r, "lock")'
    BY <2>1 DEF At
  <2> QED BY <1>2, <2>1, <2>2, GuessQuiet
<1>3. ASSUME NEW op, NEW t, NEW f, NEW c, NEW s,
             Start(r, b, op, "fail", t, f, c, s), Guess, UNCHANGED <<user, mishap>>
      PROVE  GuessInv'
  <2>1. /\ req[r] = Idle /\ req'[r] # Idle /\ req'[r].at = "fail"
        /\ \A q \in Requests \ {r} : req'[q] = req[q]
    BY <1>0, <1>3, StartMoves
  <2>2. ~At(r, "fail") /\ At(r, "fail")' /\ ~At(r, "lock") /\ ~At(r, "lock")'
    BY <2>1 DEF At
  <2> QED BY <1>3, <2>1, <2>2, GuessWrong
<1>4. CASE LoginWrong(r, b)
  BY <1>3, <1>4 DEF LoginWrong
<1>5. CASE LoginRight(r, b)
  BY <1>1, <1>2, <1>5 DEF LoginRight, ghosts
<1>6. CASE VerifyMfa(r, b)
  BY <1>1, <1>3, <1>6 DEF VerifyMfa
<1>7. CASE Refresh(r, b)
  BY <1>1, <1>2, <1>7 DEF Refresh
<1>8. CASE Logout(r, b)
  BY <1>1, <1>2, <1>8 DEF Logout
<1>9. CASE EnrollMfa(r, b) \/ ConfirmMfa(r, b) \/ DisableMfa(r, b)
  BY <1>1, <1>9 DEF EnrollMfa, ConfirmMfa, DisableMfa, StartSetting
<1> QED BY <1>4, <1>5, <1>6, <1>7, <1>8, <1>9 DEF Ask

LEMMA GuessServe ==
  ASSUME SInv, GuessInv, NEW r \in Requests, Serve(r)
  PROVE  GuessInv'
<1>0. ReqTypeOK /\ user.failed \in Nat /\ guesses \in Int /\ MaxFailures \in Nat \ {0}
      /\ DOMAIN user = {"active", "failed", "locked", "enabled", "secret"}
  BY BoundIsNat, SessionsAssumption DEF SInv, TypeOK, UserTypeOK
<1>1. CASE SpendCode(r)
  <2>1. /\ At(r, "spend") /\ \A q \in Requests \ {r} : req'[q] = req[q]
        /\ UNCHANGED <<user, mishap>>
    BY <1>0, <1>1, SpendMoves DEF SpendCode
  <2>2. ~At(r, "fail") /\ ~At(r, "lock")
    BY <2>1 DEF At
  <2>3. CASE Stays(r, "issue") /\ UNCHANGED guesses
    <3>1. ~At(r, "fail")' /\ ~At(r, "lock")'
      BY <2>3 DEF Stays, Goes, At
    <3> QED BY <2>1, <2>2, <2>3, <3>1, GuessQuiet
  <2>4. CASE Goes(r, "fail") /\ Guess
    <3>1. At(r, "fail")' /\ ~At(r, "lock")'
      BY <2>4 DEF Goes, At
    <3> QED BY <2>1, <2>2, <2>4, <3>1, GuessWrong
  <2> QED BY <1>0, <1>1, <2>3, <2>4, SpendMoves
<1>2. CASE RecordFailure(r)
  <2>1. /\ At(r, "fail") /\ ~At(r, "lock") /\ req[r] # Idle
        /\ UNCHANGED <<guesses, mishap>> /\ user'.failed = user.failed + 1
    BY <1>0, <1>2 DEF RecordFailure, At, ghosts
  <2>2. CASE user.failed + 1 < Threshold
    <3>1. Answers(r, "error") /\ \A q \in Requests \ {r} : req'[q] = req[q]
      BY <1>0, <1>2, <2>1, <2>2, AnswerStays DEF RecordFailure
    <3>2. ~At(r, "fail")' /\ ~At(r, "lock")'
      BY <3>1 DEF Answers, Stays, Goes, At
    <3>3. /\ Cardinality(Stage("fail")) \in Nat /\ Cardinality(Stage("lock")) \in Nat
          /\ Cardinality(Stage("fail"))' = Cardinality(Stage("fail")) - 1
          /\ Cardinality(Stage("lock"))' = Cardinality(Stage("lock"))
      BY <2>1, <3>1, <3>2, StageCount
    <3> QED BY <1>0, <2>1, <2>2, <3>3 DEF GuessInv, Threshold
  <2>3. CASE ~(user.failed + 1 < Threshold)
    <3>1. Stays(r, "lock") /\ \A q \in Requests \ {r} : req'[q] = req[q]
      BY <1>0, <1>2, <2>1, <2>3, GotoStays DEF RecordFailure
    <3>2. ~At(r, "fail")' /\ At(r, "lock")'
      BY <3>1 DEF Stays, Goes, At
    <3>3. /\ Cardinality(Stage("fail")) \in Nat /\ Cardinality(Stage("lock")) \in Nat
          /\ Cardinality(Stage("fail"))' = Cardinality(Stage("fail")) - 1
          /\ Cardinality(Stage("lock"))' = Cardinality(Stage("lock")) + 1
      BY <2>1, <3>1, <3>2, StageCount
    <3> QED BY <1>0, <2>1, <3>3 DEF GuessInv
  <2> QED BY <2>2, <2>3
<1>3. CASE Lock(r)
  <2>1. \A q \in Requests \ {r} : req'[q] = req[q]
    BY <1>0, <1>3, AnswerStays DEF Lock, At
  <2>2. guesses' = 0 /\ user'.failed = 0
    BY <1>0, <1>3 DEF Lock
  <2> QED BY <2>1, <2>2, GuessReset
<1>4. CASE Issue(r)
  <2>1. \A q \in Requests \ {r} : req'[q] = req[q]
    BY <1>0, <1>4, IssueMoves DEF Issue
  <2>2. guesses' = 0 /\ user'.failed = 0
    BY <1>0, <1>4 DEF Issue
  <2> QED BY <2>1, <2>2, GuessReset
<1>5. CASE Fail(r)
  BY <1>5 DEF Fail, GuessInv
<1>6. CASE Reply(r)
  <2>1. /\ At(r, "reply") /\ req'[r] = Idle /\ \A q \in Requests \ {r} : req'[q] = req[q]
        /\ UNCHANGED <<guesses, user, mishap>>
    BY <1>0, <1>6 DEF Reply, ReqTypeOK, ghosts
  <2>2. ~At(r, "fail") /\ ~At(r, "fail")' /\ ~At(r, "lock") /\ ~At(r, "lock")'
    BY <2>1 DEF At
  <2> QED BY <2>1, <2>2, GuessQuiet
<1>7. CASE Claim(r) \/ LoadUser(r) \/ RevokeFamily(r) \/ WriteEnroll(r) \/ WriteConfirm(r) \/ WriteDisable(r)
  <2>1. /\ req[r] # Idle /\ ~At(r, "fail") /\ ~At(r, "lock")
        /\ UNCHANGED <<guesses, mishap>> /\ user'.failed = user.failed
    BY <1>0, <1>7 DEF Claim, LoadUser, RevokeFamily, WriteEnroll, WriteConfirm, WriteDisable, Settled, At, ghosts
  <2>2. \/ \E stage \in {"load", "issue", "revoke"} : Goto(r, stage)
        \/ \E reply \in {"clear", "error"} : Answer(r, reply)
    BY <1>7 DEF Claim, LoadUser, RevokeFamily, WriteEnroll, WriteConfirm, WriteDisable, Settled
  <2>3. \/ \E stage \in {"load", "issue", "revoke"} : Stays(r, stage)
        \/ \E reply \in {"clear", "error"} : Answers(r, reply)
    BY <1>0, <2>1, <2>2, GotoStays, AnswerStays
  <2>4. \A q \in Requests \ {r} : req'[q] = req[q]
    BY <1>0, <2>1, <2>2, GotoStays, AnswerStays
  <2>5. ~At(r, "fail")' /\ ~At(r, "lock")'
    BY <2>3 DEF Answers, Stays, Goes, At
  <2> QED BY <2>1, <2>4, <2>5, GuessQuiet
<1> QED BY <1>1, <1>2, <1>3, <1>4, <1>5, <1>6, <1>7 DEF Serve

\* The account is locked after MaxFailures guesses and those in flight, however many
\* requests check secrets in parallel (recordFailure).
THEOREM GuessesBounded == Spec => []GuessesAreBounded
<1>1. Init => GuessInv
  <2> SUFFICES ASSUME Init PROVE GuessInv
    OBVIOUS
  <2>1. Stage("fail") = {} /\ Stage("lock") = {}
    BY DEF Init, Stage, At
  <2>2. Cardinality({}) = 0
    BY FS_EmptySet
  <2>3. guesses = 0 /\ user.failed = 0
    BY DEF Init
  <2> QED BY <2>1, <2>2, <2>3, SessionsAssumption DEF GuessInv
<1>2. SInv /\ GuessInv /\ [Next]_vars => GuessInv'
  <2> SUFFICES ASSUME SInv, GuessInv, [Next]_vars PROVE GuessInv'
    OBVIOUS
  <2>1. ASSUME UNCHANGED <<req, mishap>>, \/ UNCHANGED guesses /\ user'.failed = user.failed
                                          \/ guesses' = 0 /\ user'.failed = 0
        PROVE  GuessInv'
    <3>1. \A x : Stage(x)' = Stage(x)
      BY <2>1 DEF Stage, At
    <3>2. Cardinality(Stage("fail")) \in Nat /\ Cardinality(Stage("lock")) \in Nat
      BY SessionsAssumption, FS_Subset, FS_CardinalityType DEF Stage
    <3> QED BY <2>1, <3>1, <3>2, SessionsAssumption DEF GuessInv
  <2>2. CASE \/ \E b \in Browsers : ExpireCookies(b)
             \/ \E t \in Tokens : ExpireToken(t)
             \/ Unlock \/ SetActive \/ UNCHANGED vars
    <3>1. user \in [active : BOOLEAN, failed : Nat, locked : BOOLEAN,
                    enabled : BOOLEAN, secret : Secrets \cup {None}]
      BY DEF SInv, TypeOK, UserTypeOK
    <3> QED BY <2>1, <2>2, <3>1 DEF ExpireCookies, ExpireToken, Unlock, SetActive, vars, ghosts
  <2> QED BY <2>2, GuessAsk, GuessServe DEF Next
<1>3. SInv /\ GuessInv => GuessesAreBounded
  <2> SUFFICES ASSUME SInv, GuessInv, ~mishap PROVE guesses < MostGuesses
    BY DEF GuessesAreBounded
  <2>1. /\ IsFiniteSet(Stage("fail")) /\ IsFiniteSet(Stage("lock"))
        /\ Stage("fail") \cap Stage("lock") = {} /\ Stage("fail") \cup Stage("lock") \subseteq Requests
    BY SessionsAssumption, FS_Subset DEF Stage, At
  <2>2. Cardinality(Stage("fail") \cup Stage("lock"))
          = Cardinality(Stage("fail")) + Cardinality(Stage("lock")) - Cardinality({})
    BY <2>1, FS_Union
  <2>3. Cardinality(Stage("fail") \cup Stage("lock")) <= Cardinality(Requests)
    BY <2>1, SessionsAssumption, FS_Subset
  <2>4. /\ Cardinality(Stage("fail")) \in Nat /\ Cardinality(Stage("lock")) \in Nat
        /\ Cardinality(Requests) \in Nat /\ Cardinality({}) = 0
    BY <2>1, SessionsAssumption, FS_CardinalityType, FS_EmptySet
  <2>5. guesses \in Int /\ user.failed \in Nat /\ MaxFailures \in Nat
    BY BoundIsNat, SessionsAssumption DEF SInv, TypeOK, UserTypeOK
  <2> QED BY <2>2, <2>3, <2>4, <2>5 DEF GuessInv, MostGuesses
<1> QED BY <1>1, <1>2, <1>3, SessionsInvariant, PTL DEF Spec

-----------------------------------------------------------------------------
(* The settings of MFA *)

\* Changes of the settings that do not overlap: one is in flight, and what it checked still
\* holds when it writes.
SettingsInv ==
  ~tangled => /\ \A q, r \in InFlight(Settings) : q = r
              /\ \A r \in Requests : At(r, "write") /\ req[r].op = "enroll" => ~user.enabled
              /\ \A r \in Requests : At(r, "write") /\ req[r].op = "confirm"
                                       => req[r].secret = user.secret /\ user.secret # None
              /\ MfaIsConfirmed

\* A step of a request that is no change of the settings, or one that was refused or answered.
LEMMA SettingsQuiet ==
  ASSUME SettingsInv, NEW r \in Requests, \A q \in Requests \ {r} : req'[q] = req[q],
         ~At(r, "write")', r \in InFlight(Settings)' => r \in InFlight(Settings),
         user'.enabled = user.enabled, user'.secret = user.secret, UNCHANGED <<confirmed, tangled>>,
         \A c \in Codes : code[c] \in {"unused", "used"} => code'[c] \in {"unused", "used"}
  PROVE  SettingsInv'
<1> SUFFICES ASSUME ~tangled PROVE SettingsInv'
  BY DEF SettingsInv
<1>1. \A q \in Requests : /\ q \in InFlight(Settings)' => q \in InFlight(Settings)
                          /\ At(q, "write")' => At(q, "write") /\ req'[q] = req[q]
  BY DEF InFlight, At
<1>2. MfaIsConfirmed'
  BY DEF SettingsInv, MfaIsConfirmed
<1> QED BY <1>1, <1>2 DEF SettingsInv, InFlight

LEMMA SettingsAsk ==
  ASSUME SInv, SettingsInv, NEW r \in Requests, NEW b \in Browsers, Ask(r, b)
  PROVE  SettingsInv'
<1>0. ReqTypeOK
  BY DEF SInv, TypeOK
<1>1. ASSUME NEW op, NEW stage, op \notin Settings, stage \notin {"idle", "write"},
             NEW t, NEW f, NEW c, NEW s, Start(r, b, op, stage, t, f, c, s),
             UNCHANGED <<user, code, confirmed, tangled>>
      PROVE  SettingsInv'
  <2>1. /\ req'[r].at = stage /\ req'[r].op = op /\ \A q \in Requests \ {r} : req'[q] = req[q]
    BY <1>0, <1>1, StartMoves
  <2>2. ~At(r, "write")' /\ r \notin InFlight(Settings)'
    BY <1>1, <2>1 DEF At, InFlight
  <2> QED BY <1>1, <2>1, <2>2, SettingsQuiet
<1>2. ASSUME NEW op, NEW reply, op \notin Settings, StartAnswered(r, b, op, reply),
             UNCHANGED <<user, code, confirmed, tangled>>
      PROVE  SettingsInv'
  <2>1. /\ req'[r].at = "reply" /\ req'[r].op = op /\ \A q \in Requests \ {r} : req'[q] = req[q]
    BY <1>0, <1>2, StartAnsweredMoves
  <2>2. ~At(r, "write")' /\ r \notin InFlight(Settings)'
    BY <1>2, <2>1 DEF At, InFlight
  <2> QED BY <1>2, <2>1, <2>2, SettingsQuiet
<1>3. ASSUME NEW op \in Settings, NEW s, StartSetting(r, b, op, s),
             op = "enroll" => ~user.enabled,
             op = "confirm" => s = user.secret /\ user.secret # None
      PROVE  SettingsInv'
  <2> SUFFICES ASSUME ~tangled' PROVE SettingsInv'
    BY DEF SettingsInv
  <2>1. /\ ~tangled /\ InFlight(Settings) = {} /\ UNCHANGED <<user, code, confirmed>>
        /\ Start(r, b, op, "write", None, None, None, s)
    BY <1>3 DEF StartSetting
  <2>2. /\ req'[r].at = "write" /\ req'[r].op = op /\ req'[r].secret = s
        /\ \A q \in Requests \ {r} : req'[q] = req[q]
    BY <1>0, <2>1, StartMoves
  <2>3. \A q \in InFlight(Settings)' : q = r
    BY <2>1, <2>2 DEF InFlight
  <2>4. \A q \in Requests : At(q, "write")' /\ req'[q].op \in Settings => q = r
    BY <2>3 DEF InFlight, At
  <2>5. MfaIsConfirmed'
    BY <2>1 DEF SettingsInv, MfaIsConfirmed
  <2>6. \A q \in Requests : At(q, "write")' /\ req'[q].op = "enroll" => ~user'.enabled
    BY <1>3, <2>1, <2>2, <2>4 DEF Settings
  <2>7. \A q \in Requests : At(q, "write")' /\ req'[q].op = "confirm"
                              => req'[q].secret = user'.secret /\ user'.secret # None
    BY <1>3, <2>1, <2>2, <2>4 DEF Settings
  <2> QED BY <2>3, <2>5, <2>6, <2>7 DEF SettingsInv
<1>4. CASE LoginWrong(r, b)
  BY <1>1, <1>4 DEF LoginWrong, Settings
<1>5. CASE LoginRight(r, b)
  BY <1>1, <1>2, <1>5 DEF LoginRight, ghosts, Settings
<1>6. CASE VerifyMfa(r, b)
  BY <1>1, <1>6 DEF VerifyMfa, Settings
<1>7. CASE Refresh(r, b)
  BY <1>1, <1>2, <1>7 DEF Refresh, Settings
<1>8. CASE Logout(r, b)
  BY <1>1, <1>2, <1>8 DEF Logout, Settings
<1>9. CASE EnrollMfa(r, b)
  BY <1>3, <1>9 DEF EnrollMfa, MayEnroll, Settings
<1>10. CASE ConfirmMfa(r, b)
  BY <1>3, <1>10 DEF ConfirmMfa, Settings
<1>11. CASE DisableMfa(r, b)
  BY <1>3, <1>11 DEF DisableMfa, Settings
<1> QED BY <1>4, <1>5, <1>6, <1>7, <1>8, <1>9, <1>10, <1>11 DEF Ask

LEMMA SettingsServe ==
  ASSUME SInv, SettingsInv, NEW r \in Requests, Serve(r)
  PROVE  SettingsInv'
<1>0. ReqTypeOK /\ user \in [active : BOOLEAN, failed : Nat, locked : BOOLEAN,
                             enabled : BOOLEAN, secret : Secrets \cup {None}]
      /\ code \in [Codes -> {"free", "unused", "used", "deleted"}]
  BY DEF SInv, TypeOK, UserTypeOK
<1>1. ASSUME req[r] # Idle, \A q \in Requests \ {r} : req'[q] = req[q],
             req'[r] = Idle \/ (req'[r].op = req[r].op /\ req'[r].at # "write"),
             user'.enabled = user.enabled, user'.secret = user.secret, UNCHANGED <<confirmed, tangled>>,
             \A c \in Codes : code[c] \in {"unused", "used"} => code'[c] \in {"unused", "used"}
      PROVE  SettingsInv'
  <2>1. ~At(r, "write")' /\ (r \in InFlight(Settings)' => r \in InFlight(Settings))
    BY <1>1 DEF At, InFlight
  <2> QED BY <1>1, <2>1, SettingsQuiet
<1>2. CASE SpendCode(r)
  <2>1. /\ req[r] # Idle /\ \A q \in Requests \ {r} : req'[q] = req[q]
        /\ req'[r].op = req[r].op /\ req'[r].at # "write"
    BY <1>0, <1>2, SpendMoves DEF Stays, Goes, At
  <2>2. \A c \in Codes : code[c] \in {"unused", "used"} => code'[c] \in {"unused", "used"}
    BY <1>0, <1>2 DEF SpendCode
  <2> QED BY <1>1, <1>2, <2>1, <2>2 DEF SpendCode
<1>3. CASE RecordFailure(r) \/ Lock(r) \/ Claim(r) \/ LoadUser(r) \/ RevokeFamily(r)
  <2>1. /\ req[r] # Idle /\ user'.enabled = user.enabled /\ user'.secret = user.secret
        /\ UNCHANGED <<code, confirmed, tangled>>
    BY <1>0, <1>3 DEF RecordFailure, Lock, Claim, LoadUser, RevokeFamily, At, ghosts
  <2>2. \/ \E stage \in {"lock", "load", "issue", "revoke"} : Goto(r, stage)
        \/ \E reply \in {"clear", "error"} : Answer(r, reply)
    BY <1>3 DEF RecordFailure, Lock, Claim, LoadUser, RevokeFamily
  <2>3. /\ \A q \in Requests \ {r} : req'[q] = req[q]
        /\ \/ \E stage \in {"lock", "load", "issue", "revoke"} : Stays(r, stage)
           \/ \E reply \in {"clear", "error"} : Answers(r, reply)
    BY <1>0, <2>1, <2>2, GotoStays, AnswerStays
  <2>4. req'[r].op = req[r].op /\ req'[r].at # "write"
    BY <2>3 DEF Answers, Stays, Goes
  <2> QED BY <1>1, <2>1, <2>3, <2>4
<1>4. CASE Issue(r)
  <2>1. /\ req[r] # Idle /\ \A q \in Requests \ {r} : req'[q] = req[q]
        /\ req'[r].op = req[r].op /\ req'[r].at # "write"
    BY <1>0, <1>4, IssueMoves DEF Issue, Goes, At
  <2>2. user'.enabled = user.enabled /\ user'.secret = user.secret /\ UNCHANGED <<code, confirmed, tangled>>
    BY <1>0, <1>4 DEF Issue
  <2> QED BY <1>1, <2>1, <2>2
<1>5. ASSUME Answer(r, "error"), At(r, "write"), UNCHANGED tangled
      PROVE  /\ \A q \in Requests \ {r} : req'[q] = req[q]
             /\ ~At(r, "write")' /\ req'[r].op = req[r].op /\ req'[r] # Idle /\ req[r] # Idle
  BY <1>0, <1>5, AnswerStays DEF Answers, Stays, Goes, At
<1>6. ASSUME WriteEnroll(r) \/ WriteConfirm(r) \/ WriteDisable(r), ~tangled
      PROVE  /\ ~tangled' /\ \A p, q \in InFlight(Settings)' : p = q
             /\ \A q \in Requests : ~(At(q, "write")' /\ req'[q].op \in Settings)
  <2>1. /\ At(r, "write") /\ req[r].op \in Settings /\ Answer(r, "error") /\ UNCHANGED tangled
    BY <1>6 DEF WriteEnroll, WriteConfirm, WriteDisable, Settled, Settings
  <2>2. /\ \A q \in Requests \ {r} : req'[q] = req[q]
        /\ ~At(r, "write")' /\ req'[r].op = req[r].op /\ req'[r] # Idle /\ req[r] # Idle
    BY <1>5, <2>1
  <2>3. r \in InFlight(Settings) /\ \A q \in InFlight(Settings) : q = r
    BY <1>6, <2>1, <2>2 DEF SettingsInv, InFlight
  <2>4. \A q \in InFlight(Settings)' : q = r
    BY <2>2, <2>3 DEF InFlight
  <2> QED BY <1>6, <2>1, <2>2, <2>4 DEF InFlight, At
<1>7. CASE WriteEnroll(r)
  <2> SUFFICES ASSUME ~tangled PROVE SettingsInv'
    BY <1>7 DEF SettingsInv, WriteEnroll, Settled
  <2>1. ~user.enabled /\ user'.enabled = user.enabled
    BY <1>0, <1>7 DEF WriteEnroll, SettingsInv
  <2>2. MfaIsConfirmed'
    BY <2>1 DEF MfaIsConfirmed
  <2> QED BY <1>6, <1>7, <2>2 DEF SettingsInv, Settings
<1>8. CASE WriteConfirm(r)
  <2> SUFFICES ASSUME ~tangled PROVE SettingsInv'
    BY <1>8 DEF SettingsInv, WriteConfirm, Settled
  <2>1. /\ req[r].secret = user.secret /\ user.secret # None
        /\ user'.secret = user.secret /\ confirmed' = req[r].secret
    BY <1>0, <1>8 DEF WriteConfirm, SettingsInv
  <2>2. \E c \in Codes : code'[c] \in {"unused", "used"}
    BY <1>8 DEF WriteConfirm
  <2>3. MfaIsConfirmed'
    BY <2>1, <2>2 DEF MfaIsConfirmed
  <2> QED BY <1>6, <1>8, <2>3 DEF SettingsInv, Settings
<1>9. CASE WriteDisable(r)
  <2> SUFFICES ASSUME ~tangled PROVE SettingsInv'
    BY <1>9 DEF SettingsInv, WriteDisable, Settled
  <2>1. ~user'.enabled
    BY <1>0, <1>9 DEF WriteDisable
  <2>2. MfaIsConfirmed'
    BY <2>1 DEF MfaIsConfirmed
  <2> QED BY <1>6, <1>9, <2>2 DEF SettingsInv, Settings
<1>10. CASE Reply(r)
  <2>1. req[r] # Idle /\ req'[r] = Idle /\ \A q \in Requests \ {r} : req'[q] = req[q]
    BY <1>0, <1>10 DEF Reply, ReqTypeOK, At
  <2> QED BY <1>1, <1>10, <2>1 DEF Reply, ghosts
<1>11. CASE Fail(r)
  <2>1. req[r] # Idle /\ UNCHANGED <<user, code, confirmed, tangled>>
    BY <1>11 DEF Fail
  <2>2. CASE req' = [req EXCEPT ![r] = Idle]
    BY <1>0, <1>1, <2>1, <2>2 DEF ReqTypeOK
  <2>3. CASE Answer(r, "clear")
    BY <1>0, <1>1, <2>1, <2>3, AnswerStays DEF Answers, Stays, Goes
  <2> QED BY <1>11, <2>2, <2>3 DEF Fail
<1> QED BY <1>2, <1>3, <1>4, <1>7, <1>8, <1>9, <1>10, <1>11 DEF Serve

\* MFA is on with the secret the user proved to hold, unless two changes of the settings
\* overlapped (enrollMfa, confirmMfa, disableMfa).
THEOREM MfaConfirmed == Spec => []MfaIsConfirmed
<1>1. Init => SettingsInv
  <2> SUFFICES ASSUME Init PROVE SettingsInv
    OBVIOUS
  <2>1. \A r \in Requests : req[r] = Idle
    BY DEF Init
  <2>2. InFlight(Settings) = {} /\ \A r \in Requests : ~At(r, "write")
    BY <2>1 DEF InFlight, At
  <2>3. PICK s \in Secrets \cup {None} :
           /\ user = [active |-> TRUE, failed |-> 0, locked |-> FALSE, enabled |-> s # None, secret |-> s]
           /\ confirmed = s
           /\ IF s = None THEN code = [c \in Codes |-> "free"]
              ELSE \E new \in Codes : code = [c \in Codes |-> IF c = new THEN "unused" ELSE "free"]
    BY DEF Init
  <2>4. user.enabled = (s # None) /\ user.secret = s
    BY <2>3
  <2>5. MfaIsConfirmed
    BY <2>3, <2>4 DEF MfaIsConfirmed
  <2> QED BY <2>2, <2>5 DEF SettingsInv
<1>2. SInv /\ SettingsInv /\ [Next]_vars => SettingsInv'
  <2> SUFFICES ASSUME SInv, SettingsInv, [Next]_vars PROVE SettingsInv'
    OBVIOUS
  <2>1. ASSUME UNCHANGED <<req, code, confirmed, tangled>>, user'.enabled = user.enabled,
               user'.secret = user.secret
        PROVE  SettingsInv'
    BY <2>1 DEF SettingsInv, InFlight, At, MfaIsConfirmed
  <2>2. CASE \/ \E b \in Browsers : ExpireCookies(b)
             \/ \E t \in Tokens : ExpireToken(t)
             \/ Unlock \/ SetActive \/ UNCHANGED vars
    <3>1. user \in [active : BOOLEAN, failed : Nat, locked : BOOLEAN,
                    enabled : BOOLEAN, secret : Secrets \cup {None}]
      BY DEF SInv, TypeOK, UserTypeOK
    <3> QED BY <2>1, <2>2, <3>1 DEF ExpireCookies, ExpireToken, Unlock, SetActive, vars, ghosts
  <2> QED BY <2>2, SettingsAsk, SettingsServe DEF Next
<1>3. SettingsInv => MfaIsConfirmed
  BY DEF SettingsInv, MfaIsConfirmed
<1> QED BY <1>1, <1>2, <1>3, SessionsInvariant, PTL DEF Spec

-----------------------------------------------------------------------------
(* Sessions the console ends *)

\* An answer on its way to the browser with a new token.
Granted(r) == At(r, "reply") /\ req[r].reply = "tokens"

\* A refresh is where a refresh can be; a token not issued is neither used nor revoked.
RefreshInv ==
  /\ \A r \in Requests : req[r] # Idle /\ req[r].op = "refresh"
        => /\ req[r].at \in {"claim", "load", "issue", "revoke", "reply"}
           /\ req[r].at = "reply" => req[r].reply \in {"tokens", "clear"}
  /\ \A r \in Requests : At(r, "claim") => req[r].op = "refresh"
  /\ \A t \in Tokens : ~Issued(t) => ~token[t].rotated /\ ~token[t].revoked

\* A token is in one place: a jar, from where its browser presents it, or an answer.
PlaceInv ==
  /\ \A b, c \in Browsers : b # c /\ jar[b].refresh # None => jar[b].refresh # jar[c].refresh
  /\ \A r \in Requests, b \in Browsers :
        /\ Granted(r) => jar[b].refresh # req[r].token
        /\ At(r, "claim") /\ jar[b].refresh = req[r].token => req[r].browser = b
  /\ \A q, r \in Requests : Granted(r) =>
        /\ At(q, "claim") => req[q].token # req[r].token
        /\ Granted(q) /\ q # r => req[q].token # req[r].token

\* One refresh of a session at a time; a token was used only by the refresh in flight.
UseInv ==
  /\ \A q, r \in InFlight({"refresh"}) :
        req[q].family = req[r].family /\ req[q].family # None => q = r
  /\ \A r \in Requests : At(r, "claim") \/ Granted(r) => ~token[req[r].token].rotated
  /\ \A b \in Browsers : jar[b].refresh # None /\ token[jar[b].refresh].rotated =>
        \E r \in InFlight({"refresh"}) :
           req[r].browser = b /\ req[r].family = token[jar[b].refresh].family

\* What is revoked, or about to be, was logged out.
EndInv ==
  /\ \A t \in Tokens : token[t].revoked => token[t].family \in loggedOut
  /\ \A r \in Requests : At(r, "revoke") => req[r].family \in loggedOut

ConsoleInv == RefreshInv /\ (~mishap => PlaceInv /\ UseInv /\ EndInv)

\* Steps of one request that leave the tokens and the jars: it takes no token and is given
\* none, stays a refresh of its session if it is one, and revokes what was logged out.
LEMMA ConsoleQuiet ==
  ASSUME SInv, ConsoleInv, NEW r \in Requests, \A q \in Requests \ {r} : req'[q] = req[q],
         \A t \in Tokens : /\ token'[t].family = token[t].family
                           /\ token'[t].rotated = token[t].rotated
                           /\ token'[t].revoked = token[t].revoked,
         \A b \in Browsers : jar'[b].refresh = jar[b].refresh,
         mishap => mishap', loggedOut \subseteq loggedOut',
         ~At(r, "claim")', ~Granted(r)',
         ~mishap' /\ At(r, "revoke")' => req'[r].family \in loggedOut',
         r \in InFlight({"refresh"}) =>
            /\ r \in InFlight({"refresh"})' /\ req'[r].browser = req[r].browser
            /\ req'[r].family = req[r].family,
         r \in InFlight({"refresh"})' => r \in InFlight({"refresh"}) \/ req'[r].family = None,
         r \in InFlight({"refresh"})' =>
            /\ req'[r].at \in {"load", "issue", "revoke", "reply"}
            /\ req'[r].at = "reply" => req'[r].reply = "clear"
  PROVE  ConsoleInv'
<1>0. /\ \A b \in Browsers : jar[b].refresh \in Tokens \cup {None}
      /\ \A q \in Requests : At(q, "claim") \/ Granted(q) => req[q].token \in Tokens
  BY DEF SInv, TypeOK, FamiliesInv, CookiesInv, Granted
<1>1. \A q \in Requests : /\ At(q, "claim")' => At(q, "claim") /\ q # r /\ req'[q] = req[q]
                          /\ Granted(q)' => Granted(q) /\ q # r /\ req'[q] = req[q]
                          /\ At(q, "revoke")' /\ q # r => At(q, "revoke") /\ req'[q] = req[q]
  BY DEF At, Granted
<1>2. \A q \in Requests \ {r} : q \in InFlight({"refresh"})' <=> q \in InFlight({"refresh"})
  BY DEF InFlight
<1>3. RefreshInv'
  <2>1. ASSUME NEW q \in Requests, req'[q] # Idle /\ req'[q].op = "refresh"
        PROVE  /\ req'[q].at \in {"claim", "load", "issue", "revoke", "reply"}
               /\ req'[q].at = "reply" => req'[q].reply \in {"tokens", "clear"}
    <3>1. q \in InFlight({"refresh"})'
      BY <2>1 DEF InFlight
    <3>2. CASE q = r
      BY <3>1, <3>2
    <3>3. CASE q # r
      BY <2>1, <3>3 DEF ConsoleInv, RefreshInv
    <3> QED BY <3>2, <3>3
  <2>2. \A q \in Requests : At(q, "claim")' => req'[q].op = "refresh"
    BY <1>1 DEF ConsoleInv, RefreshInv
  <2>3. \A t \in Tokens : ~Issued(t)' => ~token'[t].rotated /\ ~token'[t].revoked
    BY DEF ConsoleInv, RefreshInv, Issued
  <2> QED BY <2>1, <2>2, <2>3 DEF RefreshInv
<1> SUFFICES ASSUME ~mishap' PROVE PlaceInv' /\ UseInv' /\ EndInv'
  BY <1>3 DEF ConsoleInv
<1>4. PlaceInv /\ UseInv /\ EndInv
  BY DEF ConsoleInv
<1>5. PlaceInv'
  BY <1>1, <1>4 DEF PlaceInv
<1>6. UseInv'
  <2>1. ASSUME NEW p \in InFlight({"refresh"})', NEW q \in InFlight({"refresh"})',
               req'[p].family = req'[q].family, req'[p].family # None
        PROVE  p = q
    <3>1. /\ p \in InFlight({"refresh"}) /\ req'[p].family = req[p].family
          /\ q \in InFlight({"refresh"}) /\ req'[q].family = req[q].family
      BY <1>2, <2>1 DEF InFlight
    <3> QED BY <1>4, <2>1, <3>1 DEF UseInv
  <2>2. \A q \in Requests : At(q, "claim")' \/ Granted(q)' => ~token'[req'[q].token].rotated
    BY <1>0, <1>1, <1>4 DEF UseInv
  <2>3. ASSUME NEW b \in Browsers, jar'[b].refresh # None, token'[jar'[b].refresh].rotated
        PROVE  \E q \in InFlight({"refresh"})' :
                  req'[q].browser = b /\ req'[q].family = token'[jar'[b].refresh].family
    <3>1. jar[b].refresh \in Tokens /\ jar[b].refresh # None /\ token[jar[b].refresh].rotated
      BY <1>0, <2>3
    <3>2. PICK q \in InFlight({"refresh"}) :
             req[q].browser = b /\ req[q].family = token[jar[b].refresh].family
      BY <1>4, <3>1 DEF UseInv
    <3>3. /\ q \in InFlight({"refresh"})' /\ req'[q].browser = req[q].browser
          /\ req'[q].family = req[q].family
      BY <1>2 DEF InFlight
    <3> QED BY <3>1, <3>2, <3>3
  <2> QED BY <2>1, <2>2, <2>3 DEF UseInv
<1>7. EndInv'
  BY <1>1, <1>4 DEF EndInv
<1> QED BY <1>5, <1>6, <1>7

\* A refresh takes the token of its browser.
LEMMA ConsoleRefresh ==
  ASSUME SInv, ConsoleInv, NEW r \in Requests, NEW b \in Browsers, jar[b].refresh # None,
         Start(r, b, "refresh", "claim", jar[b].refresh, token[jar[b].refresh].family, None, None),
         mishap' = (mishap \/ \E q \in InFlight({"refresh"}) :
                       req[q].token = jar[b].refresh \/ req[q].family = token[jar[b].refresh].family),
         UNCHANGED <<token, jar, loggedOut>>
  PROVE  ConsoleInv'
<1> DEFINE t0 == jar[b].refresh
<1>0. ReqTypeOK /\ t0 \in Tokens /\ Issued(t0)
  BY DEF SInv, TypeOK, CookiesInv
<1>1. /\ req[r] = Idle /\ req'[r] # Idle /\ \A q \in Requests \ {r} : req'[q] = req[q]
      /\ req'[r].op = "refresh" /\ req'[r].at = "claim" /\ req'[r].browser = b
      /\ req'[r].token = t0 /\ req'[r].family = token[t0].family
  BY <1>0, StartMoves
<1>2. RefreshInv'
  BY <1>1 DEF ConsoleInv, RefreshInv, At, Issued
<1> SUFFICES ASSUME ~mishap' PROVE PlaceInv' /\ UseInv' /\ EndInv'
  BY <1>2 DEF ConsoleInv
<1>3. /\ PlaceInv /\ UseInv /\ EndInv
      /\ \A q \in InFlight({"refresh"}) : req[q].family # token[t0].family
  BY DEF ConsoleInv
<1>4. ~token[t0].rotated
  BY <1>0, <1>3 DEF UseInv
<1>5. \A q \in Requests : /\ At(q, "claim")' /\ q # r => At(q, "claim") /\ req'[q] = req[q]
                          /\ Granted(q)' => Granted(q) /\ q # r /\ req'[q] = req[q]
                          /\ At(q, "revoke")' => At(q, "revoke") /\ req'[q] = req[q]
  BY <1>1 DEF At, Granted
<1>6. \A q \in Requests \ {r} : q \in InFlight({"refresh"})' <=> q \in InFlight({"refresh"})
  BY <1>1 DEF InFlight
<1>7. PlaceInv'
  <2>1. \A q \in Requests, c \in Browsers :
          /\ Granted(q)' => jar'[c].refresh # req'[q].token
          /\ At(q, "claim")' /\ jar'[c].refresh = req'[q].token => req'[q].browser = c
    BY <1>1, <1>3, <1>5 DEF PlaceInv
  <2>2. \A p, q \in Requests : Granted(q)' =>
          /\ At(p, "claim")' => req'[p].token # req'[q].token
          /\ Granted(p)' /\ p # q => req'[p].token # req'[q].token
    BY <1>1, <1>3, <1>5 DEF PlaceInv
  <2> QED BY <1>3, <2>1, <2>2 DEF PlaceInv
<1>8. UseInv'
  <2>1. ASSUME NEW p \in InFlight({"refresh"})', NEW q \in InFlight({"refresh"})',
               req'[p].family = req'[q].family, req'[p].family # None
        PROVE  p = q
    <3>1. p \in Requests /\ q \in Requests
      BY DEF InFlight
    <3>2. CASE p # r /\ q # r
      BY <1>1, <1>3, <1>6, <2>1, <3>1, <3>2 DEF UseInv
    <3>3. CASE p = r /\ q # r
      BY <1>1, <1>3, <1>6, <2>1, <3>1, <3>3
    <3>4. CASE p # r /\ q = r
      BY <1>1, <1>3, <1>6, <2>1, <3>1, <3>4
    <3> QED BY <3>2, <3>3, <3>4
  <2>2. \A q \in Requests : At(q, "claim")' \/ Granted(q)' => ~token'[req'[q].token].rotated
    BY <1>1, <1>3, <1>4, <1>5 DEF UseInv
  <2>3. ASSUME NEW c \in Browsers, jar'[c].refresh # None, token'[jar'[c].refresh].rotated
        PROVE  \E q \in InFlight({"refresh"})' :
                  req'[q].browser = c /\ req'[q].family = token'[jar'[c].refresh].family
    <3>1. PICK q \in InFlight({"refresh"}) :
             req[q].browser = c /\ req[q].family = token[jar[c].refresh].family
      BY <1>3, <2>3 DEF UseInv
    <3>2. q \in InFlight({"refresh"})' /\ req'[q] = req[q]
      BY <1>1, <1>6, <3>1 DEF InFlight
    <3> QED BY <3>1, <3>2
  <2> QED BY <2>1, <2>2, <2>3 DEF UseInv
<1>9. EndInv'
  BY <1>3, <1>5 DEF EndInv
<1> QED BY <1>7, <1>8, <1>9

LEMMA ConsoleAsk ==
  ASSUME SInv, ConsoleInv, NEW r \in Requests, NEW b \in Browsers, Ask(r, b)
  PROVE  ConsoleInv'
<1>0. ReqTypeOK
  BY DEF SInv, TypeOK
<1>1. ASSUME NEW op, op # "refresh", NEW stage \in {"fail", "issue", "spend", "write", "revoke"},
             NEW t, NEW f, NEW c, NEW s, Start(r, b, op, stage, t, f, c, s),
             UNCHANGED <<token, jar, mishap>>, loggedOut \subseteq loggedOut',
             stage = "revoke" => f \in loggedOut'
      PROVE  ConsoleInv'
  <2>1. /\ req[r] = Idle /\ req'[r].at = stage /\ req'[r].op = op /\ req'[r].family = f
        /\ \A q \in Requests \ {r} : req'[q] = req[q]
    BY <1>0, <1>1, StartMoves
  <2>2. /\ ~At(r, "claim")' /\ ~Granted(r)' /\ (At(r, "revoke")' => req'[r].family \in loggedOut')
        /\ r \notin InFlight({"refresh"}) /\ r \notin InFlight({"refresh"})'
    BY <1>1, <2>1 DEF At, Granted, InFlight
  <2> QED BY <1>1, <2>1, <2>2, ConsoleQuiet
<1>2. ASSUME NEW op, NEW reply \in {"mfa", "clear"}, op # "refresh" \/ reply = "clear",
             StartAnswered(r, b, op, reply), UNCHANGED <<token, jar, mishap, loggedOut>>
      PROVE  ConsoleInv'
  <2>1. /\ req[r] = Idle /\ req'[r].at = "reply" /\ req'[r].op = op /\ req'[r].family = None
        /\ req'[r].reply = reply /\ \A q \in Requests \ {r} : req'[q] = req[q]
    BY <1>0, <1>2, StartAnsweredMoves
  <2>2. /\ ~At(r, "claim")' /\ ~Granted(r)' /\ ~At(r, "revoke")'
        /\ r \notin InFlight({"refresh"})
        /\ r \in InFlight({"refresh"})' => op = "refresh"
    BY <1>2, <2>1 DEF At, Granted, InFlight
  <2> QED BY <1>2, <2>1, <2>2, ConsoleQuiet
<1>4. CASE LoginWrong(r, b)
  BY <1>1, <1>4 DEF LoginWrong
<1>5. CASE LoginRight(r, b)
  BY <1>1, <1>2, <1>5 DEF LoginRight, ghosts
<1>6. CASE VerifyMfa(r, b)
  BY <1>1, <1>6 DEF VerifyMfa
<1>7. CASE Refresh(r, b)
  BY <1>2, <1>7, ConsoleRefresh DEF Refresh
<1>8. CASE Logout(r, b)
  BY <1>1, <1>2, <1>8 DEF Logout
<1>9. CASE EnrollMfa(r, b) \/ ConfirmMfa(r, b) \/ DisableMfa(r, b)
  BY <1>1, <1>9 DEF EnrollMfa, ConfirmMfa, DisableMfa, StartSetting
<1> QED BY <1>4, <1>5, <1>6, <1>7, <1>8, <1>9 DEF Ask

\* The claim of a refresh finds its token unused and not revoked, or the session was
\* logged out meanwhile.
LEMMA ConsoleClaim ==
  ASSUME SInv, ConsoleInv, NEW r \in Requests, Claim(r)
  PROVE  ConsoleInv'
<1> DEFINE t0 == req[r].token
<1>0. /\ ReqTypeOK /\ TokenTypeOK /\ At(r, "claim") /\ req[r] # Idle
      /\ t0 \in Tokens /\ Issued(t0) /\ req[r].family = token[t0].family
      /\ req[r].op = "refresh" /\ UNCHANGED <<jar, loggedOut, mishap>>
      /\ token[t0].family # None
  BY DEF SInv, TypeOK, FamiliesInv, Claim, At, ConsoleInv, RefreshInv, ghosts, Issued
<1>1. CASE ~Claimable(t0)
  <2>1. Stays(r, "revoke") /\ (\A q \in Requests \ {r} : req'[q] = req[q]) /\ UNCHANGED token
    BY <1>0, <1>1, GotoStays DEF Claim
  <2>2. ~mishap => token[t0].family \in loggedOut
    <3>1. ~mishap => ~token[t0].rotated
      BY <1>0 DEF ConsoleInv, UseInv
    <3>2. ~mishap => token[t0].revoked
      BY <1>0, <1>1, <3>1 DEF Claimable, Live
    <3> QED BY <1>0, <3>2 DEF ConsoleInv, EndInv
  <2>3. /\ ~At(r, "claim")' /\ ~Granted(r)'
        /\ req'[r].family = req[r].family /\ req'[r].browser = req[r].browser
        /\ r \in InFlight({"refresh"}) /\ r \in InFlight({"refresh"})' /\ req'[r].at = "revoke"
    BY <1>0, <2>1 DEF Stays, Goes, At, Granted, InFlight
  <2> QED BY <1>0, <2>1, <2>2, <2>3, ConsoleQuiet
<1>2. CASE Claimable(t0)
  <2>1. /\ Stays(r, "load") /\ \A q \in Requests \ {r} : req'[q] = req[q]
        /\ token' = [token EXCEPT ![t0].rotated = TRUE]
    BY <1>0, <1>2, GotoStays DEF Claim
  <2>2. /\ \A t \in Tokens : token'[t].family = token[t].family /\ token'[t].revoked = token[t].revoked
        /\ \A t \in Tokens \ {t0} : token'[t].rotated = token[t].rotated
    BY <1>0, <2>1 DEF TokenTypeOK
  <2>3. /\ r \in InFlight({"refresh"}) /\ r \in InFlight({"refresh"})'
        /\ req'[r].family = req[r].family /\ req'[r].browser = req[r].browser
        /\ req'[r].at = "load" /\ req'[r].op = "refresh"
    BY <1>0, <2>1 DEF Stays, Goes, InFlight
  <2>4. \A q \in Requests : /\ At(q, "claim")' => At(q, "claim") /\ q # r /\ req'[q] = req[q]
                            /\ Granted(q)' => Granted(q) /\ q # r /\ req'[q] = req[q]
                            /\ At(q, "revoke")' => At(q, "revoke") /\ req'[q] = req[q]
    BY <2>1, <2>3 DEF At, Granted
  <2>5. \A q \in Requests : /\ q \in InFlight({"refresh"})' <=> q \in InFlight({"refresh"})
                            /\ q \in InFlight({"refresh"}) => /\ req'[q].family = req[q].family
                                                              /\ req'[q].browser = req[q].browser
    BY <2>1, <2>3 DEF InFlight
  <2>6. RefreshInv'
    <3>1. \A q \in Requests : req'[q] # Idle /\ req'[q].op = "refresh"
             => /\ req'[q].at \in {"claim", "load", "issue", "revoke", "reply"}
                /\ req'[q].at = "reply" => req'[q].reply \in {"tokens", "clear"}
      BY <2>1, <2>3 DEF ConsoleInv, RefreshInv
    <3>2. \A q \in Requests : At(q, "claim")' => req'[q].op = "refresh"
      BY <2>4 DEF ConsoleInv, RefreshInv
    <3>3. \A t \in Tokens : ~Issued(t)' => ~token'[t].rotated /\ ~token'[t].revoked
      BY <1>0, <2>2 DEF ConsoleInv, RefreshInv, Issued
    <3> QED BY <3>1, <3>2, <3>3 DEF RefreshInv
  <2> SUFFICES ASSUME ~mishap' PROVE PlaceInv' /\ UseInv' /\ EndInv'
    BY <2>6 DEF ConsoleInv
  <2>7. PlaceInv /\ UseInv /\ EndInv
    BY <1>0 DEF ConsoleInv
  <2>8. PlaceInv'
    BY <1>0, <2>4, <2>7 DEF PlaceInv
  <2>9. UseInv'
    <3>1. ASSUME NEW p \in InFlight({"refresh"})', NEW q \in InFlight({"refresh"})',
                 req'[p].family = req'[q].family, req'[p].family # None
          PROVE  p = q
      BY <2>5, <2>7, <3>1 DEF UseInv, InFlight
    <3>2. ASSUME NEW q \in Requests, At(q, "claim")' \/ Granted(q)'
          PROVE  ~token'[req'[q].token].rotated
      <4>1. q # r /\ req'[q] = req[q] /\ (At(q, "claim") \/ Granted(q)) /\ req[q].token \in Tokens
        BY <2>4, <3>2 DEF SInv, FamiliesInv, CookiesInv, Granted
      <4>2. CASE Granted(q)
        BY <1>0, <2>2, <2>7, <4>1, <4>2 DEF PlaceInv, UseInv
      <4>3. CASE At(q, "claim")
        <5>1. q \in InFlight({"refresh"}) /\ req[q].family = token[req[q].token].family
          BY <4>3 DEF SInv, FamiliesInv, InFlight, ConsoleInv, RefreshInv, At
        <5>2. req[q].token # t0
          BY <1>0, <2>3, <2>7, <4>1, <5>1 DEF UseInv
        <5> QED BY <2>2, <2>7, <4>1, <4>3, <5>2 DEF UseInv
      <4> QED BY <4>1, <4>2, <4>3
    <3>3. ASSUME NEW c \in Browsers, jar'[c].refresh # None, token'[jar'[c].refresh].rotated
          PROVE  \E q \in InFlight({"refresh"})' :
                    req'[q].browser = c /\ req'[q].family = token'[jar'[c].refresh].family
      <4>0. jar[c].refresh \in Tokens
        BY <1>0, <3>3 DEF SInv, TypeOK
      <4>1. CASE jar[c].refresh = t0
        BY <1>0, <2>2, <2>3, <2>7, <4>1 DEF PlaceInv
      <4>2. CASE jar[c].refresh # t0
        <5>1. PICK q \in InFlight({"refresh"}) :
                 req[q].browser = c /\ req[q].family = token[jar[c].refresh].family
          BY <1>0, <2>2, <2>7, <3>3, <4>0, <4>2 DEF UseInv
        <5> QED BY <1>0, <2>2, <2>5, <4>0, <5>1 DEF InFlight
      <4> QED BY <4>1, <4>2
    <3> QED BY <3>1, <3>2, <3>3 DEF UseInv
  <2>10. EndInv'
    BY <1>0, <2>2, <2>4, <2>7 DEF EndInv
  <2> QED BY <2>8, <2>9, <2>10
<1> QED BY <1>1, <1>2

\* The new token is nowhere yet but in the answer.
LEMMA ConsoleIssue ==
  ASSUME SInv, ConsoleInv, NEW r \in Requests, Issue(r)
  PROVE  ConsoleInv'
<1>0. /\ ReqTypeOK /\ TokenTypeOK /\ At(r, "issue") /\ req[r] # Idle
      /\ UNCHANGED <<jar, loggedOut, mishap>>
  BY DEF SInv, TypeOK, Issue, At
<1>1. PICK t0 \in Tokens :
         /\ ~Issued(t0) /\ token' = [token EXCEPT ![t0].family = req[r].family]
         /\ req' = [req EXCEPT ![r].at = "reply", ![r].reply = "tokens", ![r].token = t0]
  BY DEF Issue
<1>2. /\ \A q \in Requests \ {r} : req'[q] = req[q]
      /\ req'[r] # Idle /\ req'[r].at = "reply" /\ req'[r].reply = "tokens" /\ req'[r].token = t0
      /\ req'[r].family = req[r].family /\ req'[r].op = req[r].op /\ req'[r].browser = req[r].browser
  BY <1>0, <1>1, IssueMoves DEF Goes
<1>3. /\ \A t \in Tokens : token'[t].rotated = token[t].rotated /\ token'[t].revoked = token[t].revoked
      /\ \A t \in Tokens \ {t0} : token'[t].family = token[t].family
      /\ ~token[t0].rotated /\ ~token[t0].revoked
  BY <1>0, <1>1 DEF TokenTypeOK, ConsoleInv, RefreshInv
<1>4. \A q \in Requests : /\ At(q, "claim")' => At(q, "claim") /\ q # r /\ req'[q] = req[q]
                          /\ Granted(q)' /\ q # r => Granted(q) /\ req'[q] = req[q]
                          /\ At(q, "revoke")' => At(q, "revoke") /\ req'[q] = req[q]
  BY <1>2 DEF At, Granted
<1>5. \A q \in Requests : /\ q \in InFlight({"refresh"})' <=> q \in InFlight({"refresh"})
                          /\ q \in InFlight({"refresh"}) => /\ req'[q].family = req[q].family
                                                            /\ req'[q].browser = req[q].browser
  BY <1>0, <1>2 DEF InFlight
<1>6. RefreshInv'
  <2>1. \A q \in Requests : req'[q] # Idle /\ req'[q].op = "refresh"
           => /\ req'[q].at \in {"claim", "load", "issue", "revoke", "reply"}
              /\ req'[q].at = "reply" => req'[q].reply \in {"tokens", "clear"}
    BY <1>2 DEF ConsoleInv, RefreshInv
  <2>2. \A q \in Requests : At(q, "claim")' => req'[q].op = "refresh"
    BY <1>4 DEF ConsoleInv, RefreshInv
  <2>3. \A t \in Tokens : ~Issued(t)' => ~token'[t].rotated /\ ~token'[t].revoked
    BY <1>3 DEF ConsoleInv, RefreshInv, Issued
  <2> QED BY <2>1, <2>2, <2>3 DEF RefreshInv
<1> SUFFICES ASSUME ~mishap' PROVE PlaceInv' /\ UseInv' /\ EndInv'
  BY <1>6 DEF ConsoleInv
<1>7. PlaceInv /\ UseInv /\ EndInv
  BY <1>0 DEF ConsoleInv
<1>8. /\ \A b \in Browsers : jar[b].refresh \in Tokens \cup {None} /\ jar[b].refresh # t0
      /\ \A q \in Requests : At(q, "claim") \/ Granted(q) => req[q].token \in Tokens /\ req[q].token # t0
      /\ t0 # None
  <2>1. t0 # None
    BY SessionsAssumption
  <2> QED BY <1>1, <2>1 DEF SInv, TypeOK, CookiesInv, FamiliesInv, Granted
<1>9. PlaceInv'
  <2>1. \A b, c \in Browsers : b # c /\ jar'[b].refresh # None => jar'[b].refresh # jar'[c].refresh
    BY <1>0, <1>7 DEF PlaceInv
  <2>2. ASSUME NEW q \in Requests, NEW b \in Browsers
        PROVE  /\ Granted(q)' => jar'[b].refresh # req'[q].token
               /\ At(q, "claim")' /\ jar'[b].refresh = req'[q].token => req'[q].browser = b
    <3>1. CASE q = r
      BY <1>0, <1>2, <1>4, <1>8, <3>1
    <3>2. CASE q # r
      BY <1>0, <1>4, <1>7, <3>2 DEF PlaceInv
    <3> QED BY <3>1, <3>2
  <2>3. ASSUME NEW p \in Requests, NEW q \in Requests, Granted(q)'
        PROVE  /\ At(p, "claim")' => req'[p].token # req'[q].token
               /\ Granted(p)' /\ p # q => req'[p].token # req'[q].token
    <3>1. CASE q = r
      BY <1>2, <1>4, <1>8, <3>1
    <3>2. CASE q # r /\ p = r
      BY <1>2, <1>4, <1>8, <2>3, <3>2
    <3>3. CASE q # r /\ p # r
      BY <1>4, <1>7, <2>3, <3>3 DEF PlaceInv
    <3> QED BY <3>1, <3>2, <3>3
  <2> QED BY <2>1, <2>2, <2>3 DEF PlaceInv
<1>10. UseInv'
  <2>1. ASSUME NEW p \in InFlight({"refresh"})', NEW q \in InFlight({"refresh"})',
               req'[p].family = req'[q].family, req'[p].family # None
        PROVE  p = q
    BY <1>5, <1>7, <2>1 DEF UseInv, InFlight
  <2>2. \A q \in Requests : At(q, "claim")' \/ Granted(q)' => ~token'[req'[q].token].rotated
    BY <1>2, <1>3, <1>4, <1>7, <1>8 DEF UseInv
  <2>3. ASSUME NEW c \in Browsers, jar'[c].refresh # None, token'[jar'[c].refresh].rotated
        PROVE  \E q \in InFlight({"refresh"})' :
                  req'[q].browser = c /\ req'[q].family = token'[jar'[c].refresh].family
    <3>1. jar[c].refresh \in Tokens \ {t0} /\ token[jar[c].refresh].rotated
      BY <1>0, <1>3, <1>8, <2>3
    <3>2. PICK q \in InFlight({"refresh"}) :
             req[q].browser = c /\ req[q].family = token[jar[c].refresh].family
      BY <1>0, <1>7, <2>3, <3>1 DEF UseInv
    <3> QED BY <1>0, <1>3, <1>5, <3>1, <3>2 DEF InFlight
  <2> QED BY <2>1, <2>2, <2>3 DEF UseInv
<1>11. EndInv'
  <2>1. \A t \in Tokens : token'[t].revoked => token'[t].family \in loggedOut'
    BY <1>0, <1>3, <1>7 DEF EndInv
  <2> QED BY <1>0, <1>4, <1>7, <2>1 DEF EndInv
<1> QED BY <1>9, <1>10, <1>11

\* A family that is revoked was logged out.
LEMMA ConsoleRevoke ==
  ASSUME SInv, ConsoleInv, NEW r \in Requests, RevokeFamily(r)
  PROVE  ConsoleInv'
<1>0. /\ ReqTypeOK /\ TokenTypeOK /\ At(r, "revoke") /\ req[r] # Idle
      /\ UNCHANGED <<jar, loggedOut, mishap>> /\ req[r].family # None
  BY DEF SInv, TypeOK, RevokeFamily, At, FamiliesInv, Issued
<1>1. Answers(r, "clear") /\ \A q \in Requests \ {r} : req'[q] = req[q]
  BY <1>0, AnswerStays DEF RevokeFamily
<1>2. /\ \A t \in Tokens : token'[t].rotated = token[t].rotated /\ token'[t].family = token[t].family
      /\ \A t \in Tokens : token'[t].revoked => token[t].revoked \/ token[t].family = req[r].family
  BY <1>0 DEF RevokeFamily, Family, TokenTypeOK
<1>3. /\ req'[r].at = "reply" /\ req'[r].reply = "clear" /\ req'[r] # Idle /\ req'[r].op = req[r].op
      /\ req'[r].family = req[r].family /\ req'[r].browser = req[r].browser
  BY <1>1 DEF Answers, Stays, Goes
<1>4. \A q \in Requests : /\ At(q, "claim")' => At(q, "claim") /\ q # r /\ req'[q] = req[q]
                          /\ Granted(q)' => Granted(q) /\ q # r /\ req'[q] = req[q]
                          /\ At(q, "revoke")' => At(q, "revoke") /\ req'[q] = req[q]
  BY <1>1, <1>3 DEF At, Granted
<1>5. \A q \in Requests : /\ q \in InFlight({"refresh"})' <=> q \in InFlight({"refresh"})
                          /\ q \in InFlight({"refresh"}) => /\ req'[q].family = req[q].family
                                                            /\ req'[q].browser = req[q].browser
  BY <1>0, <1>1, <1>3 DEF InFlight
<1>6. RefreshInv'
  <2>1. \A q \in Requests : req'[q] # Idle /\ req'[q].op = "refresh"
           => /\ req'[q].at \in {"claim", "load", "issue", "revoke", "reply"}
              /\ req'[q].at = "reply" => req'[q].reply \in {"tokens", "clear"}
    BY <1>1, <1>3 DEF ConsoleInv, RefreshInv
  <2>2. \A q \in Requests : At(q, "claim")' => req'[q].op = "refresh"
    BY <1>4 DEF ConsoleInv, RefreshInv
  <2>3. \A t \in Tokens : ~Issued(t)' => ~token'[t].rotated /\ ~token'[t].revoked
    BY <1>0, <1>2 DEF ConsoleInv, RefreshInv, Issued
  <2> QED BY <2>1, <2>2, <2>3 DEF RefreshInv
<1> SUFFICES ASSUME ~mishap' PROVE PlaceInv' /\ UseInv' /\ EndInv'
  BY <1>6 DEF ConsoleInv
<1>7. PlaceInv /\ UseInv /\ EndInv
  BY <1>0 DEF ConsoleInv
<1>8. /\ \A b \in Browsers : jar[b].refresh \in Tokens \cup {None}
      /\ \A q \in Requests : At(q, "claim") \/ Granted(q) => req[q].token \in Tokens
  BY DEF SInv, TypeOK, CookiesInv, FamiliesInv, Granted
<1>9. PlaceInv'
  BY <1>0, <1>4, <1>7 DEF PlaceInv
<1>10. UseInv'
  <2>1. ASSUME NEW p \in InFlight({"refresh"})', NEW q \in InFlight({"refresh"})',
               req'[p].family = req'[q].family, req'[p].family # None
        PROVE  p = q
    BY <1>5, <1>7, <2>1 DEF UseInv, InFlight
  <2>2. \A q \in Requests : At(q, "claim")' \/ Granted(q)' => ~token'[req'[q].token].rotated
    BY <1>2, <1>4, <1>7, <1>8 DEF UseInv
  <2>3. ASSUME NEW c \in Browsers, jar'[c].refresh # None, token'[jar'[c].refresh].rotated
        PROVE  \E q \in InFlight({"refresh"})' :
                  req'[q].browser = c /\ req'[q].family = token'[jar'[c].refresh].family
    <3>1. jar[c].refresh \in Tokens /\ token[jar[c].refresh].rotated
      BY <1>0, <1>2, <1>8, <2>3
    <3>2. PICK q \in InFlight({"refresh"}) :
             req[q].browser = c /\ req[q].family = token[jar[c].refresh].family
      BY <1>0, <1>7, <2>3, <3>1 DEF UseInv
    <3> QED BY <1>0, <1>2, <1>5, <3>1, <3>2 DEF InFlight
  <2> QED BY <2>1, <2>2, <2>3 DEF UseInv
<1>11. EndInv'
  <2>1. \A t \in Tokens : token'[t].revoked => token'[t].family \in loggedOut'
    BY <1>0, <1>2, <1>7 DEF EndInv
  <2> QED BY <1>0, <1>4, <1>7, <2>1 DEF EndInv
<1> QED BY <1>9, <1>10, <1>11

\* An answer brings its token, or leaves the refresh cookie, or clears it.
LEMMA ConsoleReply ==
  ASSUME SInv, ConsoleInv, NEW r \in Requests, Reply(r)
  PROVE  ConsoleInv'
<1> DEFINE b0 == req[r].browser
<1>0. /\ ReqTypeOK /\ At(r, "reply") /\ req[r] # Idle /\ b0 \in Browsers
      /\ UNCHANGED <<token, loggedOut, mishap>>
      /\ jar \in [Browsers -> [access : {"none", "valid", "expired"}, refresh : Tokens \cup {None}, mfa : BOOLEAN]]
  BY ReqShape DEF SInv, TypeOK, Reply, At, ghosts
<1>1. req'[r] = Idle /\ \A q \in Requests \ {r} : req'[q] = req[q]
  BY <1>0 DEF Reply, ReqTypeOK
<1>2. /\ \A b \in Browsers \ {b0} : jar'[b] = jar[b]
      /\ \/ Granted(r) /\ jar'[b0].refresh = req[r].token
         \/ ~Granted(r) /\ jar'[b0].refresh = None
         \/ ~Granted(r) /\ req[r].reply # "clear" /\ jar'[b0].refresh = jar[b0].refresh
  <2>1. CASE req[r].reply = "tokens"
    <3>1. jar' = [jar EXCEPT ![b0] = [access |-> "valid", refresh |-> req[r].token, mfa |-> FALSE]]
      BY <2>1 DEF Reply, AfterTokens
    <3> QED BY <1>0, <2>1, <3>1 DEF Granted
  <2>2. CASE req[r].reply = "mfa"
    <3>1. jar' = [jar EXCEPT ![b0].mfa = TRUE]
      BY <2>2 DEF Reply
    <3> QED BY <1>0, <2>2, <3>1 DEF Granted
  <2>3. CASE req[r].reply = "clear"
    <3>1. jar' = [jar EXCEPT ![b0] = [access |-> "none", refresh |-> None, mfa |-> FALSE]]
      BY <2>3 DEF Reply, Cleared, EmptyJar
    <3> QED BY <1>0, <2>3, <3>1 DEF Granted
  <2>4. CASE req[r].reply \notin {"tokens", "mfa", "clear"}
    <3>1. jar' = jar
      BY <2>4 DEF Reply
    <3> QED BY <1>0, <2>4, <3>1 DEF Granted
  <2> QED BY <2>1, <2>2, <2>3, <2>4
<1>3. \A q \in Requests : /\ At(q, "claim")' => At(q, "claim") /\ q # r /\ req'[q] = req[q]
                          /\ Granted(q)' => Granted(q) /\ q # r /\ req'[q] = req[q]
                          /\ At(q, "revoke")' => At(q, "revoke") /\ req'[q] = req[q]
  BY <1>1 DEF At, Granted
<1>4. \A q \in Requests : q \in InFlight({"refresh"})' <=> q \in InFlight({"refresh"}) /\ q # r
  BY <1>1 DEF InFlight
<1>5. RefreshInv'
  BY <1>0, <1>1, <1>3 DEF ConsoleInv, RefreshInv, Issued
<1> SUFFICES ASSUME ~mishap' PROVE PlaceInv' /\ UseInv' /\ EndInv'
  BY <1>5 DEF ConsoleInv
<1>6. PlaceInv /\ UseInv /\ EndInv
  BY <1>0 DEF ConsoleInv
<1>7. PlaceInv'
  <2>1. ASSUME NEW b \in Browsers, NEW c \in Browsers, b # c, jar'[b].refresh # None
        PROVE  jar'[b].refresh # jar'[c].refresh
    BY <1>2, <1>6, <2>1 DEF PlaceInv
  <2>2. ASSUME NEW q \in Requests, NEW b \in Browsers
        PROVE  /\ Granted(q)' => jar'[b].refresh # req'[q].token
               /\ At(q, "claim")' /\ jar'[b].refresh = req'[q].token => req'[q].browser = b
    <3>1. At(q, "claim") \/ Granted(q) => req[q].token # None
      BY SessionsAssumption DEF SInv, FamiliesInv, CookiesInv, Granted
    <3> QED BY <1>2, <1>3, <1>6, <3>1 DEF PlaceInv
  <2>3. \A p, q \in Requests : Granted(q)' =>
          /\ At(p, "claim")' => req'[p].token # req'[q].token
          /\ Granted(p)' /\ p # q => req'[p].token # req'[q].token
    BY <1>3, <1>6 DEF PlaceInv
  <2> QED BY <2>1, <2>2, <2>3 DEF PlaceInv
<1>8. UseInv'
  <2>1. ASSUME NEW p \in InFlight({"refresh"})', NEW q \in InFlight({"refresh"})',
               req'[p].family = req'[q].family, req'[p].family # None
        PROVE  p = q
    BY <1>1, <1>4, <1>6, <2>1 DEF UseInv, InFlight
  <2>2. \A q \in Requests : At(q, "claim")' \/ Granted(q)' => ~token'[req'[q].token].rotated
    BY <1>0, <1>3, <1>6 DEF UseInv
  <2>3. ASSUME NEW c \in Browsers, jar'[c].refresh # None, token'[jar'[c].refresh].rotated
        PROVE  \E q \in InFlight({"refresh"})' :
                  req'[q].browser = c /\ req'[q].family = token'[jar'[c].refresh].family
    <3>1. jar'[c].refresh = jar[c].refresh /\ ~(c = b0 /\ Granted(r)) /\ ~(c = b0 /\ req[r].reply = "clear")
      BY <1>0, <1>2, <1>6, <2>3 DEF UseInv
    <3>2. PICK q \in InFlight({"refresh"}) :
             req[q].browser = c /\ req[q].family = token[jar[c].refresh].family
      BY <1>0, <1>6, <2>3, <3>1 DEF UseInv
    <3>3. q # r
      <4>1. r \in InFlight({"refresh"}) => req[r].reply \in {"tokens", "clear"}
        BY <1>0 DEF ConsoleInv, RefreshInv, InFlight, At
      <4> QED BY <1>0, <3>1, <3>2, <4>1 DEF Granted
    <3>4. q \in InFlight({"refresh"})' /\ req'[q] = req[q]
      BY <1>1, <1>4, <3>2, <3>3 DEF InFlight
    <3> QED BY <1>0, <3>1, <3>2, <3>4
  <2> QED BY <2>1, <2>2, <2>3 DEF UseInv
<1>9. EndInv'
  BY <1>0, <1>3, <1>6 DEF EndInv
<1> QED BY <1>7, <1>8, <1>9

\* What a step of a request's handler, or its answer, makes of the sessions.
LEMMA ConsoleServe ==
  ASSUME SInv, ConsoleInv, NEW r \in Requests, Serve(r)
  PROVE  ConsoleInv'
<1>0. ReqTypeOK
  BY DEF SInv, TypeOK
<1>1. ASSUME req[r] # Idle, NEW stage \in {"issue", "fail", "lock", "reply"}, Goes(r, stage),
             \A q \in Requests \ {r} : req'[q] = req[q],
             stage = "reply" => req'[r].reply \in {"clear", "error"},
             UNCHANGED <<token, jar, mishap, loggedOut>>,
             r \in InFlight({"refresh"}) =>
                /\ stage \in {"issue", "reply"} /\ req'[r].family = req[r].family
                /\ stage = "reply" => req'[r].reply = "clear"
      PROVE  ConsoleInv'
  <2>1. /\ ~At(r, "claim")' /\ ~Granted(r)' /\ ~At(r, "revoke")'
        /\ r \in InFlight({"refresh"})' <=> r \in InFlight({"refresh"})
    BY <1>1 DEF Goes, At, Granted, InFlight
  <2> QED BY <1>1, <2>1, ConsoleQuiet DEF Goes
<1>2. \A stage \in {"spend", "fail", "lock", "write"} :
        At(r, stage) => req[r] # Idle /\ r \notin InFlight({"refresh"})
  BY DEF ConsoleInv, RefreshInv, InFlight, At
<1>3. CASE SpendCode(r)
  <2>1. UNCHANGED <<token, jar, mishap, loggedOut>>
    BY <1>3 DEF SpendCode
  <2> QED BY <1>0, <1>1, <1>2, <1>3, <2>1, SpendMoves DEF Stays
<1>4. CASE RecordFailure(r) \/ Lock(r)
  <2>1. /\ UNCHANGED <<token, jar, mishap, loggedOut>>
        /\ At(r, "fail") \/ At(r, "lock")
        /\ Answer(r, "error") \/ Goto(r, "lock")
    BY <1>4 DEF RecordFailure, Lock, ghosts
  <2>2. CASE Answer(r, "error")
    <3>1. Goes(r, "reply") /\ req'[r].reply = "error" /\ \A q \in Requests \ {r} : req'[q] = req[q]
      BY <1>0, <1>2, <2>1, <2>2, AnswerStays DEF Answers, Stays
    <3> QED BY <1>1, <1>2, <2>1, <3>1
  <2>3. CASE Goto(r, "lock")
    <3>1. Goes(r, "lock") /\ \A q \in Requests \ {r} : req'[q] = req[q]
      BY <1>0, <1>2, <2>1, <2>3, GotoStays DEF Stays
    <3> QED BY <1>1, <1>2, <2>1, <3>1
  <2> QED BY <2>1, <2>2, <2>3
<1>5. CASE LoadUser(r)
  <2>1. UNCHANGED <<token, jar, mishap, loggedOut>> /\ req[r] # Idle
    BY <1>5 DEF LoadUser, ghosts, At
  <2>2. CASE Answer(r, "clear")
    <3>1. /\ Goes(r, "reply") /\ req'[r].reply = "clear" /\ req'[r].family = req[r].family
          /\ \A q \in Requests \ {r} : req'[q] = req[q]
      BY <1>0, <2>1, <2>2, AnswerStays DEF Answers, Stays
    <3> QED BY <1>1, <2>1, <3>1
  <2>3. CASE Goto(r, "issue")
    <3>1. /\ Goes(r, "issue") /\ req'[r].family = req[r].family
          /\ \A q \in Requests \ {r} : req'[q] = req[q]
      BY <1>0, <2>1, <2>3, GotoStays DEF Stays
    <3> QED BY <1>1, <2>1, <3>1
  <2> QED BY <1>5, <2>2, <2>3 DEF LoadUser
<1>6. CASE WriteEnroll(r) \/ WriteConfirm(r) \/ WriteDisable(r)
  <2>1. /\ At(r, "write") /\ Answer(r, "error") /\ UNCHANGED <<token, jar, mishap, loggedOut>>
    BY <1>6 DEF WriteEnroll, WriteConfirm, WriteDisable, Settled
  <2>2. Goes(r, "reply") /\ req'[r].reply = "error" /\ \A q \in Requests \ {r} : req'[q] = req[q]
    BY <1>0, <1>2, <2>1, AnswerStays DEF Answers, Stays
  <2> QED BY <1>1, <1>2, <2>1, <2>2
<1>7. CASE Fail(r)
  <2>1. req[r] # Idle /\ UNCHANGED token /\ mishap'
    BY <1>7 DEF Fail
  <2>2. /\ \A q \in Requests \ {r} : req'[q] = req[q]
        /\ req'[r] # Idle => req'[r].at = "reply" /\ req'[r].reply = "clear"
    <3>1. CASE req' = [req EXCEPT ![r] = Idle]
      BY <1>0, <3>1 DEF ReqTypeOK
    <3>2. CASE Answer(r, "clear")
      BY <1>0, <2>1, <3>2, AnswerStays DEF Answers, Stays, Goes
    <3> QED BY <1>7, <3>1, <3>2 DEF Fail
  <2>3. RefreshInv'
    BY <2>1, <2>2 DEF ConsoleInv, RefreshInv, At, Issued
  <2> QED BY <2>1, <2>3 DEF ConsoleInv
<1> QED BY <1>3, <1>4, <1>5, <1>6, <1>7, ConsoleIssue, ConsoleClaim, ConsoleRevoke, ConsoleReply
        DEF Serve

\* The console ends no session of its own accord: as long as no answer is lost, no request
\* fails and no two refreshes of a session overlap, a family is revoked only after its
\* logout (auth.service.ts refresh and logout, with the console's middleware).
THEOREM SessionsLast == Spec => []OnlyMishapsEndSessions
<1>1. Init => ConsoleInv
  <2> SUFFICES ASSUME Init PROVE ConsoleInv
    OBVIOUS
  <2>1. /\ \A r \in Requests : req[r] = Idle
        /\ \A b \in Browsers : jar[b].refresh = None
        /\ \A t \in Tokens : ~token[t].rotated /\ ~token[t].revoked
    BY DEF Init, EmptyJar
  <2>2. InFlight({"refresh"}) = {} /\ \A r \in Requests : ~Granted(r) /\ \A s : ~At(r, s)
    BY <2>1 DEF InFlight, At, Granted
  <2>3. RefreshInv /\ PlaceInv /\ UseInv /\ EndInv
    BY <2>1, <2>2 DEF RefreshInv, PlaceInv, UseInv, EndInv
  <2> QED BY <2>3 DEF ConsoleInv
<1>2. SInv /\ ConsoleInv /\ [Next]_vars => ConsoleInv'
  <2> SUFFICES ASSUME SInv, ConsoleInv, [Next]_vars PROVE ConsoleInv'
    OBVIOUS
  <2>1. ASSUME UNCHANGED <<req, mishap, loggedOut>>,
               \A t \in Tokens : /\ token'[t].family = token[t].family
                                 /\ token'[t].rotated = token[t].rotated
                                 /\ token'[t].revoked = token[t].revoked,
               \A b \in Browsers : jar'[b].refresh = jar[b].refresh
        PROVE  ConsoleInv'
    <3>1. /\ \A b \in Browsers : jar[b].refresh \in Tokens \cup {None}
          /\ \A q \in Requests : At(q, "claim") \/ Granted(q) => req[q].token \in Tokens
      BY DEF SInv, TypeOK, FamiliesInv, CookiesInv, Granted
    <3>2. /\ InFlight({"refresh"})' = InFlight({"refresh"})
          /\ \A q \in Requests : /\ Granted(q)' <=> Granted(q)
                                 /\ At(q, "claim")' <=> At(q, "claim")
                                 /\ At(q, "revoke")' <=> At(q, "revoke")
      BY <2>1 DEF InFlight, Granted, At
    <3>3. RefreshInv'
      BY <2>1, <3>2 DEF ConsoleInv, RefreshInv, Issued
    <3>4. ASSUME ~mishap PROVE PlaceInv' /\ UseInv' /\ EndInv'
      <4>1. PlaceInv /\ UseInv /\ EndInv
        BY <3>4 DEF ConsoleInv
      <4>2. PlaceInv'
        BY <2>1, <3>2, <4>1 DEF PlaceInv
      <4>3. UseInv'
        BY <2>1, <3>1, <3>2, <4>1 DEF UseInv
      <4>4. EndInv'
        BY <2>1, <3>2, <4>1 DEF EndInv
      <4> QED BY <4>2, <4>3, <4>4
    <3> QED BY <2>1, <3>3, <3>4 DEF ConsoleInv
  <2>2. CASE \E b \in Browsers : ExpireCookies(b)
    <3>1. \A b \in Browsers : jar'[b].refresh = jar[b].refresh
      BY <2>2 DEF ExpireCookies, SInv, TypeOK
    <3> QED BY <2>1, <2>2, <3>1 DEF ExpireCookies, ghosts
  <2>3. CASE \E t \in Tokens : ExpireToken(t)
    <3>1. \A t \in Tokens : /\ token'[t].family = token[t].family
                            /\ token'[t].rotated = token[t].rotated
                            /\ token'[t].revoked = token[t].revoked
      BY <2>3 DEF ExpireToken, SInv, TypeOK, TokenTypeOK
    <3> QED BY <2>1, <2>3, <3>1 DEF ExpireToken, ghosts
  <2>4. CASE Unlock \/ SetActive \/ UNCHANGED vars
    BY <2>1, <2>4 DEF Unlock, SetActive, vars, ghosts
  <2> QED BY <2>2, <2>3, <2>4, ConsoleAsk, ConsoleServe DEF Next
<1>3. ConsoleInv => OnlyMishapsEndSessions
  BY DEF ConsoleInv, EndInv, OnlyMishapsEndSessions
<1> QED BY <1>1, <1>2, <1>3, SessionsInvariant, PTL DEF Spec

-----------------------------------------------------------------------------
(* Machines: Access, whose operators are A!... *)

\* The types, but for the counters of wrong secrets.
AccessTyped ==
    /\ clock \in A!Time
    /\ revokedAt \in [Clients -> A!Time \cup {Absent}] /\ suspendedAt \in A!Time \cup {Absent}
    /\ tokens \subseteq [client : Clients, iat : A!Time, late : BOOLEAN]
    /\ accessReq \in [Calls -> {A!Idle} \cup A!Req]
    /\ cached \in [iat : A!Time, expiresAt : Nat] \cup {Absent}
    /\ inflight \in [iat : A!Time \cup {Absent}, waiting : SUBSET Callers] \cup {Absent}

\* An answer under way is not older than Latency, so expiresAt is at most that late.
ServiceInv ==
    /\ cached # Absent => cached.expiresAt <= cached.iat + Latency + ServiceTTL
    /\ inflight # Absent /\ inflight.iat # Absent => clock <= inflight.iat + Latency
    /\ HandedTokensWork

\* What a request read of its client and still has to decide.
Decided(q) ==
    /\ q.at \in {"check", "sign"} => ~(q.usable /\ q.stopped)
    /\ q.at = "sign" => q.usable

DecidedInv == \A r \in Calls : accessReq[r] # A!Idle => Decided(accessReq[r])

\* No client was stopped before a token that is not late was signed.
SignedInv ==
    \A x \in tokens : /\ x.iat <= clock
                      /\ ~x.late => /\ revokedAt[x.client] # Absent => x.iat <= revokedAt[x.client]
                                    /\ suspendedAt # Absent => x.iat <= suspendedAt

AccessInv == AccessTyped /\ ServiceInv /\ DecidedInv /\ SignedInv

\* The requests after one of them went to t.
LEMMA CallStep ==
    ASSUME AccessInv, NEW r \in Calls, NEW t \in A!Req \cup {A!Idle}, t # A!Idle => Decided(t),
           accessReq' = [accessReq EXCEPT ![r] = t]
    PROVE  accessReq' \in [Calls -> {A!Idle} \cup A!Req] /\ DecidedInv'
<1>1. accessReq \in [Calls -> {A!Idle} \cup A!Req]
  BY DEF AccessInv, AccessTyped
<1>2. \A q \in Calls : accessReq'[q] = IF q = r THEN t ELSE accessReq[q]
  BY <1>1
<1>3. \A q \in Calls : accessReq[q] # A!Idle => Decided(accessReq[q])
  BY DEF AccessInv, DecidedInv
<1> QED BY <1>1, <1>2, <1>3 DEF DecidedInv

\* A step of a request that neither signs nor stops a client.
LEMMA CallKeeps ==
    ASSUME AccessInv, accessReq' \in [Calls -> {A!Idle} \cup A!Req], DecidedInv',
           UNCHANGED <<clock, revokedAt, suspendedAt, tokens, cached, inflight, expired>>
    PROVE  AccessInv'
<1>1. AccessTyped'
  BY DEF AccessInv, AccessTyped
<1>2. ServiceInv' /\ SignedInv'
  BY DEF AccessInv, ServiceInv, SignedInv, HandedTokensWork, A!HandedTokensWork
<1> QED BY <1>1, <1>2 DEF AccessInv

LEMMA RequestFields == ASSUME NEW q \in A!Req PROVE q # A!Idle /\ q.client \in Clients
BY DEF A!Req, A!Idle

\* What reading the client makes of a request.
LEMMA RequestRead ==
    ASSUME NEW q \in A!Req, NEW u \in BOOLEAN, NEW s \in BOOLEAN
    PROVE  LET t == [[[q EXCEPT !.at = "check"] EXCEPT !.usable = u] EXCEPT !.stopped = s]
           IN  t \in A!Req /\ t.at = "check" /\ t.usable = u /\ t.stopped = s
<1> DEFINE t1 == [q EXCEPT !.at = "check"]
           t2 == [t1 EXCEPT !.usable = u]
           t3 == [t2 EXCEPT !.stopped = s]
<1>1. t1 \in A!Req /\ t1.at = "check"
  BY DEF A!Req
<1> HIDE DEF t1
<1>2. t2 \in A!Req /\ t2.at = "check" /\ t2.usable = u
  BY <1>1 DEF A!Req
<1> HIDE DEF t2
<1>3. t3 \in A!Req /\ t3.at = "check" /\ t3.usable = u /\ t3.stopped = s
  BY <1>2 DEF A!Req
<1> QED BY <1>3 DEF t1, t2

LEMMA InitAccess == ASSUME A!AccessAssumption PROVE A!Init => AccessInv
<1> SUFFICES ASSUME A!Init PROVE AccessInv
  OBVIOUS
<1>1. \A r \in Calls : accessReq[r] = A!Idle
  BY DEF A!Init
<1>2. AccessTyped
  BY DEF A!Init, AccessTyped, A!AccessAssumption, A!Time
<1>3. ServiceInv /\ SignedInv
  BY DEF A!Init, ServiceInv, SignedInv, HandedTokensWork, A!HandedTokensWork
<1> QED BY <1>1, <1>2, <1>3 DEF AccessInv, DecidedInv

LEMMA NextAccess == ASSUME A!AccessAssumption PROVE AccessInv /\ [A!Next]_A!vars => AccessInv'
<1> SUFFICES ASSUME AccessInv, [A!Next]_A!vars PROVE AccessInv'
  OBVIOUS
<1>0. /\ AccessTyped /\ DecidedInv /\ SignedInv /\ ServiceInv /\ accessReq \in [Calls -> {A!Idle} \cup A!Req]
      /\ \A r \in Calls : accessReq[r] # A!Idle => accessReq[r] \in A!Req /\ Decided(accessReq[r])
      /\ clock \in Nat /\ Absent \notin Nat /\ A!Time \subseteq Nat /\ clock \in A!Time
      /\ {ClientTTL, ServiceTTL, Tolerance, Skew, Latency} \subseteq Nat
      /\ Latency <= Skew + Tolerance /\ Latency < ServiceTTL + Tolerance
  BY DEF AccessInv, AccessTyped, DecidedInv, A!AccessAssumption, A!Time
<1>1. ASSUME NEW r \in Calls, NEW c \in Clients, NEW stage \in {"read", "publish"}, NEW right \in BOOLEAN,
             A!Begin(r, stage, c, right)
      PROVE  accessReq' \in [Calls -> {A!Idle} \cup A!Req] /\ DecidedInv'
  <2> DEFINE t == [at |-> stage, client |-> c, now |-> clock, right |-> right, usable |-> FALSE, stopped |-> FALSE]
  <2>1. t \in A!Req /\ accessReq' = [accessReq EXCEPT ![r] = t]
    BY <1>0, <1>1 DEF A!Begin, A!Req
  <2>2. Decided(t)
    BY DEF Decided
  <2> QED BY <2>1, <2>2, CallStep
<1>2. ASSUME NEW r \in Calls, A!End(r) PROVE accessReq' \in [Calls -> {A!Idle} \cup A!Req] /\ DecidedInv'
  BY <1>2, CallStep DEF A!End
<1>3. ASSUME NEW r \in Calls, NEW c \in Clients, A!AskToken(r, c) PROVE AccessInv'
  BY <1>1, <1>3, CallKeeps DEF A!AskToken, A!service
<1>4. ASSUME NEW r \in Calls, NEW c \in Clients, A!Revoke(r, c) PROVE AccessInv'
  <2>1. /\ revokedAt' = [revokedAt EXCEPT ![c] = IF revokedAt[c] = Absent THEN clock ELSE revokedAt[c]]
        /\ UNCHANGED <<clock, suspendedAt, tokens, cached, inflight, expired>>
    BY <1>4 DEF A!Revoke, A!RevokedAt, A!service
  <2>2. accessReq' \in [Calls -> {A!Idle} \cup A!Req] /\ DecidedInv'
    BY <1>1, <1>4 DEF A!Revoke
  <2>3. /\ revokedAt \in [Clients -> A!Time \cup {Absent}] /\ tokens \subseteq [client : Clients, iat : A!Time, late : BOOLEAN]
    BY <1>0 DEF AccessTyped
  <2>4. revokedAt' \in [Clients -> A!Time \cup {Absent}]
    BY <1>0, <2>1, <2>3
  <2>5. AccessTyped'
    BY <1>0, <2>1, <2>2, <2>4 DEF AccessTyped
  <2>6. ServiceInv'
    BY <1>0, <2>1 DEF ServiceInv, HandedTokensWork, A!HandedTokensWork
  <2>7. \A d \in Clients : revokedAt'[d] = revokedAt[d] \/ (revokedAt[d] = Absent /\ revokedAt'[d] = clock)
    BY <2>1, <2>3
  <2>8. SignedInv'
    BY <1>0, <2>1, <2>3, <2>7 DEF SignedInv
  <2> QED BY <2>2, <2>5, <2>6, <2>8 DEF AccessInv
<1>5. ASSUME NEW r \in Calls, A!ReadClient(r) PROVE AccessInv'
  <2> DEFINE q == accessReq[r]
             usable == A!Usable(q.client)
             stopped == A!Stopped(q.client)
             t == [[[q EXCEPT !.at = "check"] EXCEPT !.usable = usable] EXCEPT !.stopped = stopped]
  <2>1. /\ q # A!Idle
        /\ accessReq' = [accessReq EXCEPT ![r].at = "check", ![r].usable = usable, ![r].stopped = stopped]
        /\ UNCHANGED <<clock, revokedAt, suspendedAt, tokens, cached, inflight, expired>>
    BY <1>5 DEF A!ReadClient, A!At, A!service
  <2>2. usable \in BOOLEAN /\ stopped \in BOOLEAN /\ ~(usable /\ stopped)
    BY DEF A!Usable, A!Stopped
  <2> HIDE DEF usable, stopped
  <2>3. q \in A!Req
    BY <1>0, <2>1
  <2>5. accessReq' = [accessReq EXCEPT ![r] = t]
    BY <2>1
  <2>6. t \in A!Req /\ t.at = "check" /\ t.usable = usable /\ t.stopped = stopped
    BY <2>2, <2>3, RequestRead
  <2> HIDE DEF t
  <2>7. Decided(t)
    BY <2>2, <2>6 DEF Decided
  <2> QED BY <2>1, <2>5, <2>6, <2>7, CallStep, CallKeeps
<1>6. ASSUME NEW r \in Calls, A!CheckSecret(r) PROVE AccessInv'
  <2> DEFINE q == accessReq[r]
             t == [q EXCEPT !.at = "sign"]
  <2>1. /\ q # A!Idle /\ q.at = "check" /\ UNCHANGED <<clock, revokedAt, suspendedAt, tokens, cached, inflight, expired>>
        /\ IF q.right /\ q.usable THEN accessReq' = [accessReq EXCEPT ![r] = t] ELSE A!End(r)
    BY <1>6 DEF A!CheckSecret, A!At, A!service
  <2>2. q \in A!Req /\ Decided(q)
    BY <1>0, <2>1
  <2>3. t \in A!Req /\ t.at = "sign" /\ t.usable = q.usable /\ t.stopped = q.stopped
    BY <2>2 DEF A!Req
  <2>4. q.usable => Decided(t)
    BY <2>1, <2>2, <2>3 DEF Decided
  <2> HIDE DEF q, t
  <2>5. CASE q.right /\ q.usable
    BY <2>1, <2>3, <2>4, <2>5, CallStep, CallKeeps
  <2>6. CASE ~(q.right /\ q.usable)
    BY <1>2, <2>1, <2>6, CallKeeps
  <2> QED BY <2>5, <2>6
<1>7. ASSUME NEW r \in Calls, A!Sign(r) PROVE AccessInv'
  <2> DEFINE q == accessReq[r]
             late == A!Stopped(q.client) /\ ~q.stopped
             x == [client |-> q.client, iat |-> clock, late |-> late]
  <2>1. /\ q # A!Idle /\ q.at = "sign" /\ tokens' = tokens \cup {x}
        /\ UNCHANGED <<clock, revokedAt, suspendedAt, cached, inflight, expired>>
    BY <1>7 DEF A!Sign, A!At, A!service
  <2>2. accessReq' \in [Calls -> {A!Idle} \cup A!Req] /\ DecidedInv'
    BY <1>2, <1>7 DEF A!Sign
  <2>3. q \in A!Req /\ q.usable /\ ~q.stopped
    BY <1>0, <2>1 DEF Decided
  <2>4. q.client \in Clients
    BY <2>3, RequestFields
  <2>5. ~late => revokedAt[q.client] = Absent /\ suspendedAt = Absent
    BY <2>3 DEF A!Stopped
  <2>6. late \in BOOLEAN
    OBVIOUS
  <2> HIDE DEF q, late
  <2>7. x \in [client : Clients, iat : A!Time, late : BOOLEAN] /\ x.iat = clock /\ x.client = q.client /\ x.late = late
    BY <1>0, <2>4, <2>6
  <2> HIDE DEF x
  <2>8. AccessTyped'
    BY <1>0, <2>1, <2>2, <2>7 DEF AccessTyped
  <2>9. ServiceInv'
    BY <1>0, <2>1 DEF ServiceInv, HandedTokensWork, A!HandedTokensWork
  <2>10. SignedInv'
    <3> SUFFICES ASSUME NEW y \in tokens \cup {x}
                 PROVE  /\ y.iat <= clock
                        /\ ~y.late => /\ revokedAt[y.client] # Absent => y.iat <= revokedAt[y.client]
                                      /\ suspendedAt # Absent => y.iat <= suspendedAt
      BY <2>1 DEF SignedInv
    <3>1. CASE y \in tokens
      BY <1>0, <3>1 DEF SignedInv
    <3>2. CASE y = x
      BY <1>0, <2>5, <2>7, <3>2
    <3> QED BY <3>1, <3>2
  <2> QED BY <2>2, <2>8, <2>9, <2>10 DEF AccessInv
<1>8. ASSUME NEW r \in Calls, A!PublishRevoked(r) \/ A!Fail(r) PROVE AccessInv'
  BY <1>2, <1>8, CallKeeps DEF A!PublishRevoked, A!Fail, A!service
<1>9. CASE A!Restart
  <2>1. accessReq' = [r \in Calls |-> A!Idle] /\ UNCHANGED <<clock, revokedAt, suspendedAt, tokens, cached, inflight, expired>>
    BY <1>9 DEF A!Restart, A!service
  <2>2. accessReq' \in [Calls -> {A!Idle} \cup A!Req] /\ DecidedInv'
    BY <2>1 DEF DecidedInv
  <2> QED BY <2>1, <2>2, CallKeeps
<1>10. CASE A!SetTenantStatus
  <2>1. /\ suspendedAt' = IF suspendedAt = Absent THEN clock ELSE Absent
        /\ UNCHANGED <<clock, revokedAt, tokens, accessReq, cached, inflight, expired>>
    BY <1>10 DEF A!SetTenantStatus, A!service
  <2>2. AccessTyped' /\ DecidedInv'
    BY <1>0, <2>1 DEF AccessTyped, DecidedInv
  <2>3. ServiceInv'
    BY <1>0, <2>1 DEF ServiceInv, HandedTokensWork, A!HandedTokensWork
  <2>4. SignedInv'
    BY <1>0, <2>1 DEF SignedInv
  <2> QED BY <2>2, <2>3, <2>4 DEF AccessInv
<1>11. ASSUME AccessTyped', ServiceInv', UNCHANGED <<clock, A!core>> PROVE AccessInv'
  BY <1>0, <1>11 DEF AccessInv, DecidedInv, SignedInv, A!core
<1>12. ASSUME NEW k \in Callers, A!GetToken(k) PROVE AccessInv'
  <2>1. UNCHANGED <<clock, A!core, cached>>
    BY <1>12 DEF A!GetToken
  <2>2. CASE A!Fresh /\ expired' = (expired \/ ~A!Valid(cached.iat, ServiceTTL)) /\ UNCHANGED inflight
    <3>1. cached # Absent /\ clock < cached.expiresAt - Skew
      BY <2>2 DEF A!Fresh
    <3>2. cached.iat \in Nat /\ cached.expiresAt \in Nat
      BY <1>0, <3>1 DEF AccessTyped
    <3>3. clock < cached.iat + ServiceTTL + Tolerance
      BY <1>0, <3>1, <3>2 DEF ServiceInv
    <3>4. ~expired'
      BY <1>0, <2>2, <3>3 DEF A!Valid, ServiceInv, HandedTokensWork, A!HandedTokensWork
    <3>5. AccessTyped' /\ ServiceInv'
      BY <1>0, <2>1, <2>2, <3>4 DEF AccessTyped, ServiceInv, HandedTokensWork, A!HandedTokensWork, A!core
    <3> QED BY <1>11, <2>1, <3>5
  <2>3. CASE /\ inflight' = IF inflight = Absent THEN [iat |-> Absent, waiting |-> {k}]
                            ELSE [inflight EXCEPT !.waiting = @ \cup {k}]
             /\ UNCHANGED expired
    <3>1. inflight \in [iat : A!Time \cup {Absent}, waiting : SUBSET Callers] \cup {Absent}
      BY <1>0 DEF AccessTyped
    <3>2. /\ inflight' \in [iat : A!Time \cup {Absent}, waiting : SUBSET Callers]
          /\ inflight = Absent => inflight'.iat = Absent
          /\ inflight # Absent => inflight'.iat = inflight.iat
      BY <2>3, <3>1
    <3>3. AccessTyped'
      BY <1>0, <2>1, <3>2 DEF AccessTyped, A!core
    <3>4. ServiceInv'
      BY <1>0, <2>1, <2>3, <3>2 DEF ServiceInv, HandedTokensWork, A!HandedTokensWork
    <3> QED BY <1>11, <2>1, <3>3, <3>4
  <2> QED BY <1>12, <2>2, <2>3 DEF A!GetToken
<1>13. CASE A!SignService
  <2>1. /\ inflight # Absent /\ inflight.iat = Absent /\ inflight' = [inflight EXCEPT !.iat = clock]
        /\ UNCHANGED <<clock, A!core, cached, expired>>
    BY <1>13 DEF A!SignService
  <2>2. inflight' \in [iat : A!Time \cup {Absent}, waiting : SUBSET Callers] /\ inflight'.iat = clock
    BY <1>0, <2>1 DEF AccessTyped
  <2>3. AccessTyped'
    BY <1>0, <2>1, <2>2 DEF AccessTyped, A!core
  <2>4. ServiceInv'
    BY <1>0, <2>1, <2>2 DEF ServiceInv, HandedTokensWork, A!HandedTokensWork
  <2> QED BY <1>11, <2>1, <2>3, <2>4
<1>14. CASE A!Answered
  <2>1. /\ inflight # Absent /\ inflight.iat # Absent /\ inflight' = Absent
        /\ cached' = [iat |-> inflight.iat, expiresAt |-> clock + ServiceTTL]
        /\ expired' = (expired \/ ~(clock < inflight.iat + ServiceTTL + Tolerance))
        /\ UNCHANGED <<clock, A!core>>
    BY <1>14 DEF A!Answered, A!Valid
  <2>2. inflight.iat \in A!Time /\ inflight.iat \in Nat
    BY <1>0, <2>1 DEF AccessTyped
  <2>3. clock <= inflight.iat + Latency
    BY <1>0, <2>1 DEF ServiceInv
  <2>4. cached' \in [iat : A!Time, expiresAt : Nat] /\ cached'.iat = inflight.iat /\ cached'.expiresAt = clock + ServiceTTL
    BY <1>0, <2>1, <2>2
  <2>5. ~expired'
    <3>1. clock < inflight.iat + ServiceTTL + Tolerance
      BY <1>0, <2>2, <2>3
    <3>2. ~expired
      BY <1>0 DEF ServiceInv, HandedTokensWork, A!HandedTokensWork
    <3> QED BY <2>1, <3>1, <3>2
  <2>6. AccessTyped'
    BY <1>0, <2>1, <2>4 DEF AccessTyped, A!core
  <2>7. cached'.expiresAt <= cached'.iat + Latency + ServiceTTL
    BY <1>0, <2>2, <2>3, <2>4
  <2>8. ServiceInv'
    BY <2>1, <2>5, <2>7 DEF ServiceInv, HandedTokensWork, A!HandedTokensWork
  <2> QED BY <1>11, <2>1, <2>6, <2>8
<1>15. CASE A!FetchFails
  <2>1. inflight' = Absent /\ UNCHANGED <<clock, A!core, cached, expired>>
    BY <1>15 DEF A!FetchFails
  <2>2. AccessTyped' /\ ServiceInv'
    BY <1>0, <2>1 DEF AccessTyped, ServiceInv, HandedTokensWork, A!HandedTokensWork, A!core
  <2> QED BY <1>11, <2>1, <2>2
<1>16. CASE A!Tick
  <2>1. /\ clock < MaxClock /\ clock' = clock + 1
        /\ inflight # Absent /\ inflight.iat # Absent => clock < inflight.iat + Latency
        /\ UNCHANGED <<revokedAt, suspendedAt, tokens, accessReq, cached, inflight, expired>>
    BY <1>16 DEF A!Tick, A!core, A!service
  <2>2. AccessTyped' /\ DecidedInv'
    BY <1>0, <2>1 DEF AccessTyped, DecidedInv, A!Time, A!AccessAssumption
  <2>3. inflight # Absent /\ inflight.iat # Absent => inflight.iat \in Nat
    BY <1>0 DEF AccessTyped
  <2>4. ServiceInv'
    BY <1>0, <2>1, <2>3 DEF ServiceInv, HandedTokensWork, A!HandedTokensWork
  <2>5. \A x \in tokens : x.iat \in Nat
    BY <1>0 DEF AccessTyped
  <2>6. SignedInv'
    BY <1>0, <2>1, <2>5 DEF SignedInv
  <2> QED BY <2>2, <2>4, <2>6 DEF AccessInv
<1>17. CASE UNCHANGED A!vars
  <2>1. UNCHANGED <<clock, revokedAt, suspendedAt, tokens, accessReq, cached, inflight, expired>>
    BY <1>17 DEF A!vars
  <2>2. accessReq' \in [Calls -> {A!Idle} \cup A!Req] /\ DecidedInv'
    BY <1>0, <2>1 DEF DecidedInv
  <2> QED BY <2>1, <2>2, CallKeeps
<1>18. CASE A!Next
  BY <1>3, <1>4, <1>5, <1>6, <1>7, <1>8, <1>9, <1>10, <1>12, <1>13, <1>14, <1>15, <1>16, <1>18 DEF A!Next
<1> QED BY <1>17, <1>18

\* A token that is still valid has a client that verifiers can still stop, unless it was
\* signed after the stop by a request that had read the client before (oauth.service.ts:131).
THEOREM StoppedClientsStop == ASSUME A!AccessAssumption PROVE A!Spec => []StoppedClientsStayOut
<1>1. AccessInv => StoppedClientsStayOut
  <2> SUFFICES ASSUME AccessInv, NEW x \in tokens, A!Valid(x.iat, ClientTTL), ~x.late
               PROVE  /\ revokedAt[x.client] # Absent => A!Listed(x.client)
                      /\ suspendedAt # Absent => clock < suspendedAt + A!Window
    BY DEF StoppedClientsStayOut, A!StoppedClientsStayOut
  <2>1. /\ x.iat \in Nat /\ x.client \in Clients /\ clock \in Nat /\ ClientTTL \in Nat /\ Tolerance \in Nat
        /\ revokedAt[x.client] \in Nat \cup {Absent} /\ suspendedAt \in Nat \cup {Absent}
    BY DEF AccessInv, AccessTyped, A!Time, A!AccessAssumption
  <2>2. clock < x.iat + ClientTTL + Tolerance
    BY DEF A!Valid
  <2>3. /\ revokedAt[x.client] # Absent => x.iat <= revokedAt[x.client]
        /\ suspendedAt # Absent => x.iat <= suspendedAt
    BY DEF AccessInv, SignedInv
  <2>4. suspendedAt # Absent => clock < suspendedAt + A!Window
    BY <2>1, <2>2, <2>3 DEF A!Window
  <2>5. revokedAt[x.client] # Absent => A!Listed(x.client)
    BY <2>1, <2>2, <2>3 DEF A!Window, A!Listed
  <2> QED BY <2>4, <2>5
<1> QED BY <1>1, InitAccess, NextAccess, PTL DEF A!Spec

\* A caller is never handed a service token that verifiers refuse (service-token.ts:43).
THEOREM HandedWork == ASSUME A!AccessAssumption PROVE A!Spec => []HandedTokensWork
<1>1. AccessInv => HandedTokensWork
  BY DEF AccessInv, ServiceInv
<1> QED BY <1>1, InitAccess, NextAccess, PTL DEF A!Spec

-----------------------------------------------------------------------------
(* Users: Members, whose operators are M!... *)

\* A user who was barred has no open way in.
BarredInv ==
    \A u \in barred : /\ member[u].status = "disabled" /\ invitation[u] \notin {"open", "expired"}
                      /\ \A r \in Calls : ~(M!At(r, "accept") /\ memberReq[r].user = u)

\* The default role is not removed.
RoleInv == role[Admin] = "default" /\ \A r \in Calls : M!At(r, "removeRole") => memberReq[r].role # Admin

\* The write of a request would take an admin away.
Threatens(q) ==
    /\ q.user \in M!Admins
    /\ q.at = "remove" \/ (q.at = "update" /\ ((q.roles # Absent /\ Admin \notin q.roles) \/ q.status = "disabled"))

\* It is checked that another one remains, and that is so until the admins change.
CheckedInv ==
    renamed \/ \A r \in Calls : memberReq[r] # M!Idle /\ ~memberReq[r].stale /\ Threatens(memberReq[r])
                                   => M!OtherAdmins(memberReq[r].user) # {}

AdminInv == AdminRemains /\ (renamed \/ named) /\ CheckedInv

\* A handler knows what it writes of.
Shaped(q) ==
    /\ q.at \in {"count", "update", "remove", "accept", "mail"} => q.user \in Users
    /\ q.at = "removeRole" => q.role \in Roles
    /\ q.at = "invite" => q.email \in Emails /\ q.roles \in SUBSET Roles

ShapedInv == \A r \in Calls : memberReq[r] # M!Idle => Shaped(memberReq[r])

MembersInv == M!TypeOK /\ ShapedInv /\ BarredInv /\ RoleInv /\ AdminInv

LEMMA OthersAreAdmins == ASSUME NEW u PROVE M!OtherAdmins(u) = M!Admins \ {u}
BY DEF M!OtherAdmins, M!Admins

LEMMA CallFields ==
    ASSUME NEW q \in M!Req
    PROVE  /\ q # M!Idle /\ q.then \in {"update", "remove"} /\ q.user \in Users \cup {Absent}
           /\ q.at \in {"count", "update", "remove", "invite", "mail", "accept", "removeRole"}
           /\ q.email \in Emails \cup {Absent} /\ q.role \in Roles \cup {Absent}
           /\ q.roles \in (SUBSET Roles) \cup {Absent} /\ q.status \in {"active", "disabled", Absent} /\ q.stale \in BOOLEAN
BY DEF M!Req, M!Idle

\* A field of a request is set.
LEMMA StaleSet ==
    ASSUME NEW q \in M!Req, NEW stale \in BOOLEAN, NEW t, t = [q EXCEPT !.stale = stale]
    PROVE  /\ t \in M!Req /\ t.stale = stale /\ t.at = q.at /\ t.user = q.user /\ t.role = q.role
           /\ t.roles = q.roles /\ t.status = q.status /\ t.email = q.email
BY DEF M!Req

LEMMA StageSet ==
    ASSUME NEW q \in M!Req, NEW at \in {"count", "update", "remove", "invite", "mail", "accept", "removeRole"},
           NEW t, t = [q EXCEPT !.at = at]
    PROVE  /\ t \in M!Req /\ t.stale = q.stale /\ t.at = at /\ t.user = q.user /\ t.role = q.role
           /\ t.roles = q.roles /\ t.status = q.status /\ t.email = q.email
BY DEF M!Req

\* What a request may be after a step that leaves the users, their roles and the barred.
Allowed(t) ==
    /\ t \in M!Req /\ Shaped(t)
    /\ t.at = "accept" => t.user \notin barred
    /\ t.at = "removeRole" => t.role # Admin
    /\ Threatens(t) /\ ~renamed /\ ~t.stale => M!OtherAdmins(t.user) # {}

LEMMA RequestsAllowed ==
    ASSUME MembersInv, NEW r \in Calls, memberReq[r] # M!Idle PROVE Allowed(memberReq[r])
BY DEF Allowed, MembersInv, ShapedInv, M!TypeOK, M!At, BarredInv, RoleInv, AdminInv, CheckedInv

LEMMA AllowedKeeps ==
    ASSUME MembersInv, memberReq' \in [Calls -> {M!Idle} \cup M!Req],
           \A q \in Calls : memberReq'[q] # M!Idle => Allowed(memberReq'[q]),
           UNCHANGED <<member, holds, role, named, renamed, barred, raced>>,
           invitation' \in [Users -> {"none", "open", "accepted", "expired"}],
           \A u \in barred : invitation'[u] = invitation[u],
           mailed' \subseteq Users, memberOps' \in 0..MaxMemberOps
    PROVE  MembersInv'
<1>1. M!TypeOK'
  BY DEF MembersInv, M!TypeOK, M!Known, M!Kept
<1>2. M!Admins' = M!Admins /\ \A u : M!OtherAdmins(u)' = M!OtherAdmins(u)
  BY DEF M!Admins, M!OtherAdmins
<1>3. BarredInv' /\ RoleInv' /\ ShapedInv'
  BY DEF MembersInv, BarredInv, RoleInv, ShapedInv, Allowed, M!At
<1>4. AdminInv'
  <2>1. AdminRemains' /\ (renamed \/ named)'
    BY <1>2 DEF MembersInv, AdminInv, AdminRemains, M!AdminRemains
  <2>2. ASSUME ~renamed, NEW r \in Calls, memberReq'[r] # M!Idle, ~memberReq'[r].stale, Threatens(memberReq[r])'
        PROVE  M!OtherAdmins(memberReq[r].user)' # {}
    <3>1. Threatens(memberReq'[r])
      BY <1>2, <2>2 DEF Threatens
    <3>2. M!OtherAdmins(memberReq'[r].user) # {}
      BY <2>2, <3>1 DEF Allowed
    <3>3. M!OtherAdmins(memberReq[r].user)' = M!OtherAdmins(memberReq'[r].user)
      BY DEF M!OtherAdmins
    <3> QED BY <3>2, <3>3
  <2> QED BY <2>1, <2>2 DEF AdminInv, CheckedInv
<1> QED BY <1>1, <1>3, <1>4 DEF MembersInv

\* A request goes to t, and nothing else changes.
LEMMA CallGoes ==
    ASSUME MembersInv, NEW r \in Calls, NEW t, t = M!Idle \/ Allowed(t), memberReq' = [memberReq EXCEPT ![r] = t],
           UNCHANGED <<member, holds, role, named, renamed, barred, raced, invitation>>,
           mailed' \subseteq Users, memberOps' \in 0..MaxMemberOps
    PROVE  MembersInv'
<1>1. memberReq \in [Calls -> {M!Idle} \cup M!Req] /\ invitation \in [Users -> {"none", "open", "accepted", "expired"}]
  BY DEF MembersInv, M!TypeOK
<1>2. t \in {M!Idle} \cup M!Req
  BY DEF Allowed
<1>3. memberReq' \in [Calls -> {M!Idle} \cup M!Req] /\ \A q \in Calls : memberReq'[q] = IF q = r THEN t ELSE memberReq[q]
  BY <1>1, <1>2
<1>4. \A q \in Calls : memberReq[q] # M!Idle => Allowed(memberReq[q])
  BY RequestsAllowed
<1>5. \A q \in Calls : memberReq'[q] # M!Idle => Allowed(memberReq'[q])
  BY <1>3, <1>4
<1> QED BY <1>1, <1>3, <1>5, AllowedKeeps

\* A request is answered; the others keep what they hold, and are stale if the admins changed.
LEMMA FinishKeeps ==
    ASSUME MembersInv, NEW r \in Calls, M!Finish(r), UNCHANGED <<named, renamed>>
    PROVE  /\ memberReq' \in [Calls -> {M!Idle} \cup M!Req]
           /\ \A q \in Calls : memberReq'[q] # M!Idle =>
                 /\ q # r /\ memberReq[q] # M!Idle
                 /\ memberReq'[q].at = memberReq[q].at /\ memberReq'[q].user = memberReq[q].user
                 /\ memberReq'[q].role = memberReq[q].role
           /\ CheckedInv' /\ ShapedInv'
<1> DEFINE changed == {u \in Users : member'[u].status = "active" /\ <<u, Admin>> \in holds'} # M!Admins
<1>1. memberReq' = [q \in Calls |-> IF q = r \/ memberReq[q] = M!Idle THEN M!Idle
                                    ELSE [memberReq[q] EXCEPT !.stale = memberReq[q].stale \/ changed]]
  BY DEF M!Finish
<1>2. memberReq \in [Calls -> {M!Idle} \cup M!Req]
  BY DEF MembersInv, M!TypeOK
<1>3. ASSUME NEW q \in Calls, ~(q = r \/ memberReq[q] = M!Idle)
      PROVE  /\ memberReq'[q] \in M!Req /\ memberReq'[q].stale = (memberReq[q].stale \/ changed)
             /\ memberReq'[q].at = memberReq[q].at /\ memberReq'[q].user = memberReq[q].user
             /\ memberReq'[q].role = memberReq[q].role /\ memberReq'[q].roles = memberReq[q].roles
             /\ memberReq'[q].status = memberReq[q].status /\ memberReq'[q].email = memberReq[q].email
  <2>1. memberReq[q] \in M!Req
    BY <1>2, <1>3
  <2> DEFINE stale == memberReq[q].stale \/ changed
  <2>2. stale \in BOOLEAN
    OBVIOUS
  <2>3. memberReq'[q] = [memberReq[q] EXCEPT !.stale = stale]
    BY <1>1, <1>3
  <2> HIDE DEF stale
  <2>4. /\ memberReq'[q] \in M!Req /\ memberReq'[q].stale = stale
        /\ memberReq'[q].at = memberReq[q].at /\ memberReq'[q].user = memberReq[q].user
        /\ memberReq'[q].role = memberReq[q].role /\ memberReq'[q].roles = memberReq[q].roles
        /\ memberReq'[q].status = memberReq[q].status /\ memberReq'[q].email = memberReq[q].email
    BY <2>1, <2>2, <2>3, StaleSet
  <2> QED BY <2>4 DEF stale
<1>4. \A q \in Calls : q = r \/ memberReq[q] = M!Idle => memberReq'[q] = M!Idle
  BY <1>1
<1>5. memberReq' \in [Calls -> {M!Idle} \cup M!Req]
  <2>1. memberReq' = [q \in Calls |-> memberReq'[q]]
    BY <1>1
  <2>2. \A q \in Calls : memberReq'[q] \in {M!Idle} \cup M!Req
    BY <1>3, <1>4
  <2> QED BY <2>1, <2>2
<1>6. CheckedInv'
  <2> SUFFICES ASSUME ~renamed, NEW q \in Calls, memberReq'[q] # M!Idle, ~memberReq'[q].stale, Threatens(memberReq[q])'
               PROVE  M!OtherAdmins(memberReq[q].user)' # {}
    BY DEF CheckedInv
  <2>1. ~(q = r \/ memberReq[q] = M!Idle)
    BY <1>4
  <2>2. ~changed /\ ~memberReq[q].stale
    BY <1>3, <2>1
  <2>3. M!Admins' = M!Admins
    BY <2>2 DEF M!Admins
  <2>4. Threatens(memberReq[q])
    BY <1>3, <2>1, <2>3 DEF Threatens
  <2>5. M!OtherAdmins(memberReq[q].user) # {}
    BY <2>1, <2>2, <2>4 DEF MembersInv, AdminInv, CheckedInv
  <2>6. M!OtherAdmins(memberReq[q].user)' = M!Admins' \ {memberReq'[q].user}
    BY DEF M!OtherAdmins, M!Admins
  <2> QED BY <1>3, <2>1, <2>3, <2>5, <2>6, OthersAreAdmins
<1>7. ShapedInv'
  BY <1>3, <1>4 DEF MembersInv, ShapedInv, Shaped
<1> QED BY <1>3, <1>4, <1>5, <1>6, <1>7

\* A write that may take only an admin from its user leaves one, unless it raced.
LEMMA AdminsLeft ==
    ASSUME MembersInv, NEW r \in Calls, memberReq[r] # M!Idle, M!Races(r), UNCHANGED renamed,
           \A v \in M!Admins : v # memberReq[r].user \/ ~Threatens(memberReq[r])
                                  => member'[v].status = "active" /\ <<v, Admin>> \in holds'
    PROVE  AdminRemains'
<1> DEFINE Remains(v) == member'[v].status = "active" /\ <<v, Admin>> \in holds'
<1>1. SUFFICES ASSUME ~raced', ~renamed PROVE \E v \in M!Admins : Remains(v)
  BY DEF AdminRemains, M!AdminRemains, M!Admins
<1>2. raced' = (raced \/ (memberReq[r].stale /\ \E v \in M!Admins : ~Remains(v)))
  BY DEF M!Races
<1>3. ~raced /\ (memberReq[r].stale => \A v \in M!Admins : Remains(v))
  BY <1>1, <1>2
<1>4. PICK v \in M!Admins : TRUE
  BY <1>1, <1>3 DEF MembersInv, AdminInv, AdminRemains, M!AdminRemains
<1>5. CASE memberReq[r].stale \/ ~Threatens(memberReq[r])
  BY <1>3, <1>4, <1>5
<1>6. CASE ~memberReq[r].stale /\ Threatens(memberReq[r])
  <2>1. PICK w \in M!Admins : w # memberReq[r].user
    BY <1>1, <1>6, OthersAreAdmins DEF MembersInv, AdminInv, CheckedInv
  <2> QED BY <2>1
<1> QED BY <1>5, <1>6

LEMMA InitMembers == ASSUME M!MembersAssumption PROVE M!Init => MembersInv
<1> SUFFICES ASSUME M!Init PROVE MembersInv
  OBVIOUS
<1>1. PICK u \in Users, e \in Emails :
        /\ member = [v \in Users |-> [status |-> IF v = u THEN "active" ELSE "none", email |-> e]]
        /\ holds = {<<u, Admin>>}
  BY DEF M!Init
<1>2. /\ role = [x \in Roles |-> IF x = Admin THEN "default" ELSE "none"] /\ named = TRUE
      /\ invitation = [v \in Users |-> "none"] /\ mailed = {} /\ memberReq = [r \in Calls |-> M!Idle] /\ memberOps = 0
      /\ raced = FALSE /\ renamed = FALSE /\ barred = {}
      /\ Admin \in Roles /\ MaxMemberOps \in Nat
  BY DEF M!Init, M!MembersAssumption
<1>3. \A v \in Users : member[v] \in [status : {"none", "invited", "active", "disabled", "gone"}, email : Emails]
  BY <1>1
<1>4. member[u].status = "active" /\ role[Admin] = "default" /\ \A r \in Calls : memberReq[r] = M!Idle
  BY <1>1, <1>2
<1>5. M!TypeOK
  <2>1. member \in [Users -> [status : {"none", "invited", "active", "disabled", "gone"}, email : Emails]]
    BY <1>1, <1>3
  <2>2. holds \subseteq {v \in Users : M!Known(v)} \X {x \in Roles : M!Kept(x)}
    BY <1>1, <1>2, <1>4 DEF M!Known, M!Kept
  <2>3. /\ role \in [Roles -> {"none", "custom", "default", "gone"}]
        /\ invitation \in [Users -> {"none", "open", "accepted", "expired"}]
        /\ memberReq \in [Calls -> {M!Idle} \cup M!Req] /\ memberOps \in 0..MaxMemberOps
    BY <1>2
  <2>4. mailed \subseteq Users /\ barred \subseteq Users /\ named \in BOOLEAN /\ raced \in BOOLEAN /\ renamed \in BOOLEAN
    BY <1>2
  <2> HIDE DEF M!Idle, M!Known, M!Kept
  <2> QED BY <2>1, <2>2, <2>3, <2>4 DEF M!TypeOK
<1>6. u \in M!Admins
  BY <1>1, <1>4 DEF M!Admins
<1>7. BarredInv /\ RoleInv /\ AdminInv /\ ShapedInv
  BY <1>2, <1>4, <1>6 DEF ShapedInv, BarredInv, RoleInv, AdminInv, CheckedInv, M!At, AdminRemains, M!AdminRemains
<1> QED BY <1>5, <1>7 DEF MembersInv

LEMMA NextMembers == ASSUME M!MembersAssumption PROVE MembersInv /\ [M!Next]_M!vars => MembersInv'
<1> SUFFICES ASSUME MembersInv, [M!Next]_M!vars PROVE MembersInv'
  OBVIOUS
<1>0. /\ M!TypeOK /\ BarredInv /\ RoleInv /\ AdminInv
      /\ \A r \in Calls : memberReq[r] # M!Idle => memberReq[r] \in M!Req /\ Allowed(memberReq[r])
      /\ MaxMemberOps \in Nat /\ Admin \in Roles /\ Absent \notin Users \cup Roles /\ Absent \notin {"active", "disabled"}
      /\ \A R \in SUBSET Roles : R # Absent
      /\ invitation \in [Users -> {"none", "open", "accepted", "expired"}] /\ mailed \subseteq Users
      /\ memberOps \in 0..MaxMemberOps
  BY RequestsAllowed DEF MembersInv, M!TypeOK, M!MembersAssumption, Allowed
<1>1. ASSUME NEW r \in Calls, NEW stage \in {"count", "update", "remove", "invite", "accept", "removeRole"},
             NEW then \in {"update", "remove"}, NEW u \in Users \cup {Absent}, NEW e \in Emails \cup {Absent},
             NEW x \in Roles \cup {Absent}, NEW R \in (SUBSET Roles) \cup {Absent}, NEW s \in {"active", "disabled", Absent},
             M!Begin(r, stage, then, u, e, x, R, s),
             stage \in {"count", "update", "remove", "accept"} => u \in Users, stage = "removeRole" => x \in Roles,
             stage = "invite" => e \in Emails /\ R \in SUBSET Roles,
             stage = "accept" => u \notin barred, stage = "removeRole" => x # Admin,
             stage \in {"update", "remove"} /\ u \in M!Admins /\ ~renamed
                => stage = "update" /\ ~(R # Absent /\ Admin \notin R) /\ s # "disabled"
      PROVE  MembersInv'
  <2> DEFINE t == [at |-> stage, then |-> then, user |-> u, email |-> e, role |-> x, roles |-> R, status |-> s, stale |-> FALSE]
  <2>1. /\ memberReq' = [memberReq EXCEPT ![r] = t] /\ memberOps' \in 0..MaxMemberOps
        /\ UNCHANGED <<member, holds, role, named, renamed, barred, raced, invitation, mailed>>
    BY <1>0, <1>1 DEF M!Begin, M!ghosts
  <2>2. t \in M!Req
    BY DEF M!Req
  <2>3. Allowed(t)
    BY <1>1, <2>2 DEF Allowed, Shaped, Threatens
  <2> HIDE DEF t
  <2> QED BY <1>0, <2>1, <2>3, CallGoes
<1>2. ASSUME NEW r \in Calls, memberReq' = [memberReq EXCEPT ![r] = M!Idle],
             UNCHANGED <<member, holds, role, named, renamed, barred, raced, invitation, memberOps>>,
             mailed' \subseteq Users
      PROVE  MembersInv'
  BY <1>0, <1>2, CallGoes
<1>3. ASSUME NEW r \in Calls, M!Refuse(r), UNCHANGED memberOps PROVE MembersInv'
  BY <1>0, <1>2, <1>3 DEF M!Refuse, M!ghosts
<1>4. ASSUME NEW r \in Calls, NEW u \in Users, NEW R \in M!Patches, NEW s \in {"active", "disabled", Absent},
             M!BeginUpdate(r, u, R, s)
      PROVE  MembersInv'
  <2> DEFINE losesRole == R # Absent /\ ~(named /\ Admin \in R)
             checked == M!IsAdmin(u) /\ (losesRole \/ s = "disabled")
  <2>1. M!Begin(r, IF checked THEN "count" ELSE "update", "update", u, Absent, Absent, R, s)
    BY <1>4 DEF M!BeginUpdate
  <2>2. R \in (SUBSET Roles) \cup {Absent}
    BY DEF M!Patches
  <2>3. CASE checked
    BY <1>1, <2>1, <2>2, <2>3
  <2>4. CASE ~checked
    <3>1. u \in M!Admins /\ ~renamed => ~(R # Absent /\ Admin \notin R) /\ s # "disabled"
      BY <1>0, <2>4 DEF AdminInv, M!IsAdmin, M!Admins
    <3> QED BY <1>1, <2>1, <2>2, <2>4, <3>1
  <2> QED BY <2>3, <2>4
<1>5. ASSUME NEW r \in Calls, NEW u \in Users, M!BeginRemove(r, u) PROVE MembersInv'
  <2>1. M!Begin(r, IF M!IsAdmin(u) THEN "count" ELSE "remove", "remove", u, Absent, Absent, Absent, Absent)
    BY <1>5 DEF M!BeginRemove
  <2>2. CASE M!IsAdmin(u)
    BY <1>1, <2>1, <2>2
  <2>3. CASE ~M!IsAdmin(u)
    <3>1. ~(u \in M!Admins /\ ~renamed)
      BY <1>0, <2>3 DEF AdminInv, M!IsAdmin, M!Admins
    <3> QED BY <1>1, <2>1, <2>3, <3>1
  <2> QED BY <2>2, <2>3
<1>6. ASSUME NEW r \in Calls, NEW u \in Users, M!BeginAccept(r, u) PROVE MembersInv'
  <2>1. M!Begin(r, "accept", "update", u, Absent, Absent, Absent, Absent) /\ invitation[u] = "open"
    BY <1>6 DEF M!BeginAccept, M!Acceptable
  <2>2. u \notin barred
    BY <1>0, <2>1 DEF BarredInv
  <2> QED BY <1>1, <2>1, <2>2
<1>7. ASSUME NEW r \in Calls, NEW e \in Emails, NEW R \in SUBSET Roles, M!BeginInvite(r, e, R) PROVE MembersInv'
  <2>1. M!Begin(r, "invite", "update", Absent, e, Absent, R, Absent)
    BY <1>7 DEF M!BeginInvite
  <2> QED BY <1>1, <2>1
<1>8. ASSUME NEW r \in Calls, NEW x \in Roles, M!BeginRemoveRole(r, x) PROVE MembersInv'
  <2>1. M!Begin(r, "removeRole", "remove", Absent, Absent, x, Absent, Absent) /\ role[x] = "custom"
    BY <1>8 DEF M!BeginRemoveRole, M!Removable
  <2>2. x # Admin
    BY <1>0, <2>1 DEF RoleInv
  <2> QED BY <1>1, <2>1, <2>2
<1>9. ASSUME NEW r \in Calls, M!Ask(r) PROVE MembersInv'
  BY <1>4, <1>5, <1>6, <1>7, <1>8, <1>9 DEF M!Ask
<1>10. ASSUME NEW r \in Calls, M!Count(r) PROVE MembersInv'
  <2> DEFINE q == memberReq[r]
             t == [q EXCEPT !.at = q.then]
  <2>1. q # M!Idle /\ q.at = "count" /\ UNCHANGED memberOps
    BY <1>10 DEF M!Count, M!At
  <2>2. CASE named /\ M!OtherAdmins(q.user) = {}
    BY <1>3, <1>10, <2>1, <2>2 DEF M!Count
  <2>3. CASE ~(named /\ M!OtherAdmins(q.user) = {})
    <3>1. /\ memberReq' = [memberReq EXCEPT ![r] = t]
          /\ UNCHANGED <<member, holds, role, named, renamed, barred, raced, invitation, mailed>>
      BY <1>10, <2>3 DEF M!Count, M!ghosts
    <3>2. q \in M!Req /\ Allowed(q) /\ q.then \in {"update", "remove"}
      BY <1>0, <2>1, CallFields
    <3>3. t \in M!Req /\ t.at = q.then /\ t.user = q.user /\ t.role = q.role
      BY <3>2, StageSet
    <3>4. ~renamed => M!OtherAdmins(q.user) # {}
      BY <1>0, <2>3 DEF AdminInv
    <3> HIDE DEF t
    <3>5. Allowed(t)
      BY <2>1, <3>2, <3>3, <3>4 DEF Allowed, Shaped
    <3> QED BY <1>0, <2>1, <3>1, <3>5, CallGoes
  <2> QED BY <2>2, <2>3
<1>11. ASSUME NEW r \in Calls, M!WriteUpdate(r) PROVE MembersInv'
  <2> DEFINE q == memberReq[r]
             u == q.user
             ok == M!Known(u) /\ (q.roles # Absent => M!Exist(q.roles))
             loses == q.roles # Absent /\ Admin \notin q.roles
  <2>1. q # M!Idle /\ q.at = "update" /\ UNCHANGED memberOps
    BY <1>11 DEF M!WriteUpdate, M!At
  <2>2. CASE ~ok
    BY <1>3, <1>11, <2>1, <2>2 DEF M!WriteUpdate
  <2>3. CASE ok
    <3>1. /\ holds' = IF q.roles = Absent THEN holds ELSE {h \in holds : h[1] # u} \cup ({u} \X q.roles)
          /\ member' = IF q.status = Absent THEN member ELSE [member EXCEPT ![u].status = q.status]
          /\ barred' = CASE q.status = "active" -> barred \ {u}
                         [] q.status = "disabled" /\ invitation[u] \notin {"open", "expired"}
                            /\ \A p \in Calls : ~(M!At(p, "accept") /\ memberReq[p].user = u) -> barred \cup {u}
                         [] OTHER -> barred
          /\ M!Races(r) /\ M!Finish(r)
          /\ UNCHANGED <<role, named, invitation, mailed, renamed>>
      BY <1>11, <2>3 DEF M!WriteUpdate
    <3>2. q \in M!Req /\ Allowed(q) /\ u \in Users
      BY <1>0, <2>1 DEF Allowed, Shaped
    <3>3. q.roles \in (SUBSET Roles) \cup {Absent} /\ q.status \in {"active", "disabled", Absent}
      BY <3>2, CallFields
    <3>4. /\ memberReq' \in [Calls -> {M!Idle} \cup M!Req] /\ CheckedInv' /\ ShapedInv'
          /\ \A p \in Calls : memberReq'[p] # M!Idle =>
                /\ memberReq[p] # M!Idle /\ memberReq'[p].at = memberReq[p].at
                /\ memberReq'[p].user = memberReq[p].user /\ memberReq'[p].role = memberReq[p].role
      BY <3>1, FinishKeeps
    <3>5. /\ member \in [Users -> [status : {"none", "invited", "active", "disabled", "gone"}, email : Emails]]
          /\ holds \subseteq {v \in Users : M!Known(v)} \X {x \in Roles : M!Kept(x)} /\ barred \subseteq Users
      BY <1>0 DEF M!TypeOK
    <3>6. M!Known(u) /\ (q.roles # Absent => \A x \in q.roles : M!Kept(x))
      BY <2>3 DEF M!Exist
    <3> HIDE DEF q, ok
    <3>7. /\ member' \in [Users -> [status : {"none", "invited", "active", "disabled", "gone"}, email : Emails]]
          /\ \A v \in Users : v # u => member'[v] = member[v]
          /\ member'[u].status = IF q.status = Absent THEN member[u].status ELSE q.status
      BY <1>0, <3>1, <3>2, <3>3, <3>5
    <3>8. \A v \in Users : M!Known(v) => M!Known(v)'
      BY <1>0, <3>3, <3>7 DEF M!Known
    <3>9. \A x : M!Kept(x)' = M!Kept(x)
      BY <3>1 DEF M!Kept
    <3>10. holds' \subseteq {v \in Users : M!Known(v)'} \X {x \in Roles : M!Kept(x)'}
      BY <3>1, <3>2, <3>3, <3>5, <3>6, <3>8, <3>9
    <3>11. barred' \subseteq barred \cup {u} /\ barred' \subseteq Users
      BY <3>1, <3>2, <3>5
    <3>12. raced' \in BOOLEAN
      BY <3>1 DEF M!Races
    <3>13. M!TypeOK'
      BY <1>0, <2>1, <3>1, <3>4, <3>7, <3>10, <3>11, <3>12 DEF M!TypeOK
    <3>14. ASSUME NEW v \in barred'
           PROVE  /\ member'[v].status = "disabled" /\ invitation[v] \notin {"open", "expired"}
                  /\ \A p \in Calls : ~(M!At(p, "accept") /\ memberReq[p].user = v)
      <4>1. CASE v # u
        BY <1>0, <3>5, <3>7, <3>11, <4>1 DEF BarredInv
      <4>2. CASE v = u /\ q.status = "active"
        BY <3>1, <4>2
      <4>3. CASE v = u /\ q.status = "disabled"
        <5>1. CASE invitation[u] \notin {"open", "expired"} /\ \A p \in Calls : ~(M!At(p, "accept") /\ memberReq[p].user = u)
          BY <1>0, <3>7, <4>3, <5>1
        <5>2. CASE ~(invitation[u] \notin {"open", "expired"} /\ \A p \in Calls : ~(M!At(p, "accept") /\ memberReq[p].user = u))
          <6>1. barred' = barred
            BY <3>1, <4>3, <5>2
          <6> QED BY <1>0, <4>3, <5>2, <6>1 DEF BarredInv
        <5> QED BY <5>1, <5>2
      <4>4. CASE v = u /\ q.status = Absent
        <5>1. barred' = barred
          BY <1>0, <3>1, <4>4
        <5> QED BY <1>0, <3>1, <4>4, <5>1 DEF BarredInv
      <4> QED BY <3>3, <4>1, <4>2, <4>3, <4>4
    <3>15. BarredInv' /\ RoleInv'
      BY <1>0, <3>1, <3>4, <3>14 DEF BarredInv, RoleInv, M!At
    <3>16. ASSUME NEW v \in M!Admins, v # u \/ ~Threatens(q)
           PROVE  member'[v].status = "active" /\ <<v, Admin>> \in holds'
      <4>1. v \in Users /\ member[v].status = "active" /\ <<v, Admin>> \in holds
        BY DEF M!Admins
      <4>2. CASE v # u
        BY <3>1, <3>7, <4>1, <4>2
      <4>3. CASE v = u
        <5>1. ~loses /\ q.status # "disabled"
          BY <2>1, <3>16, <4>3 DEF Threatens, q
        <5> QED BY <1>0, <3>1, <3>3, <3>7, <4>1, <4>3, <5>1
      <4> QED BY <4>2, <4>3
    <3>17. AdminRemains'
      BY <2>1, <3>1, <3>16, AdminsLeft DEF q
    <3> QED BY <1>0, <3>1, <3>4, <3>13, <3>15, <3>17 DEF MembersInv, AdminInv
  <2> QED BY <2>2, <2>3
<1>12. ASSUME NEW r \in Calls, M!WriteRemove(r) PROVE MembersInv'
  <2> DEFINE q == memberReq[r]
             u == q.user
  <2>1. q # M!Idle /\ q.at = "remove" /\ UNCHANGED memberOps
    BY <1>12 DEF M!WriteRemove, M!At
  <2>2. CASE ~M!Known(u)
    BY <1>3, <1>12, <2>1, <2>2 DEF M!WriteRemove
  <2>3. CASE M!Known(u)
    <3>1. /\ member' = [member EXCEPT ![u].status = "gone"]
          /\ holds' = {h \in holds : h[1] # u}
          /\ invitation' = [invitation EXCEPT ![u] = "none"]
          /\ mailed' = mailed \ {u} /\ barred' = barred \ {u}
          /\ M!Races(r) /\ M!Finish(r)
          /\ UNCHANGED <<role, named, renamed>>
      BY <1>12, <2>3 DEF M!WriteRemove
    <3>2. q \in M!Req /\ Allowed(q) /\ u \in Users
      BY <1>0, <2>1 DEF Allowed, Shaped
    <3>3. /\ memberReq' \in [Calls -> {M!Idle} \cup M!Req] /\ CheckedInv' /\ ShapedInv'
          /\ \A p \in Calls : memberReq'[p] # M!Idle =>
                /\ memberReq[p] # M!Idle /\ memberReq'[p].at = memberReq[p].at
                /\ memberReq'[p].user = memberReq[p].user /\ memberReq'[p].role = memberReq[p].role
      BY <3>1, FinishKeeps
    <3>4. /\ member \in [Users -> [status : {"none", "invited", "active", "disabled", "gone"}, email : Emails]]
          /\ holds \subseteq {v \in Users : M!Known(v)} \X {x \in Roles : M!Kept(x)} /\ barred \subseteq Users
      BY <1>0 DEF M!TypeOK
    <3> HIDE DEF q
    <3>5. /\ member' \in [Users -> [status : {"none", "invited", "active", "disabled", "gone"}, email : Emails]]
          /\ \A v \in Users : v # u => member'[v] = member[v] /\ invitation'[v] = invitation[v]
          /\ invitation' \in [Users -> {"none", "open", "accepted", "expired"}]
      BY <1>0, <3>1, <3>2, <3>4
    <3>6. holds' \subseteq {v \in Users : M!Known(v)'} \X {x \in Roles : M!Kept(x)'}
      <4>1. \A x : M!Kept(x)' = M!Kept(x)
        BY <3>1 DEF M!Kept
      <4>2. \A v \in Users : v # u /\ M!Known(v) => M!Known(v)'
        BY <3>5 DEF M!Known
      <4> QED BY <3>1, <3>4, <4>1, <4>2
    <3>7. raced' \in BOOLEAN
      BY <3>1 DEF M!Races
    <3>8. M!TypeOK'
      BY <1>0, <2>1, <3>1, <3>3, <3>4, <3>5, <3>6, <3>7 DEF M!TypeOK
    <3>9. BarredInv' /\ RoleInv'
      BY <1>0, <3>1, <3>3, <3>4, <3>5 DEF BarredInv, RoleInv, M!At
    <3>10. ASSUME NEW v \in M!Admins, v # u \/ ~Threatens(q)
           PROVE  member'[v].status = "active" /\ <<v, Admin>> \in holds'
      <4>1. v # u
        BY <2>1, <3>10 DEF Threatens, q
      <4> QED BY <3>1, <3>5, <4>1 DEF M!Admins
    <3>11. AdminRemains'
      BY <2>1, <3>1, <3>10, AdminsLeft DEF q
    <3> QED BY <1>0, <3>1, <3>3, <3>8, <3>9, <3>11 DEF MembersInv, AdminInv
  <2> QED BY <2>2, <2>3
<1>13. ASSUME NEW r \in Calls, M!WriteInvite(r) PROVE MembersInv'
  <2> DEFINE q == memberReq[r]
  <2>1. q # M!Idle /\ q.at = "invite" /\ UNCHANGED memberOps
    BY <1>13 DEF M!WriteInvite, M!At
  <2>2. CASE M!Refuse(r)
    BY <1>3, <2>1, <2>2
  <2>3. CASE ~M!Refuse(r)
    <3>1. PICK u \in Users :
            /\ member[u].status = "none"
            /\ member' = [member EXCEPT ![u] = [status |-> "invited", email |-> q.email]]
            /\ holds' = holds \cup ({u} \X q.roles)
            /\ invitation' = [invitation EXCEPT ![u] = "open"]
            /\ memberReq' = [p \in Calls |->
                   IF p = r THEN [q EXCEPT !.at = "mail", !.user = u]
                   ELSE IF M!At(p, "removeRole") /\ memberReq[p].role \in q.roles
                        THEN [memberReq[p] EXCEPT !.stale = TRUE] ELSE memberReq[p]]
            /\ M!Exist(q.roles) /\ UNCHANGED <<role, named, mailed, raced, renamed, barred>>
      BY <1>13, <2>3 DEF M!WriteInvite, M!Insertable, M!ghosts
    <3>2. q \in M!Req /\ q.email \in Emails /\ q.roles \in SUBSET Roles /\ \A x \in q.roles : M!Kept(x)
      BY <1>0, <2>1, <3>1 DEF Allowed, Shaped, M!Exist
    <3>3. /\ member \in [Users -> [status : {"none", "invited", "active", "disabled", "gone"}, email : Emails]]
          /\ holds \subseteq {v \in Users : M!Known(v)} \X {x \in Roles : M!Kept(x)} /\ barred \subseteq Users
          /\ memberReq \in [Calls -> {M!Idle} \cup M!Req]
      BY <1>0 DEF M!TypeOK
    <3> HIDE DEF q
    <3>4. /\ member' \in [Users -> [status : {"none", "invited", "active", "disabled", "gone"}, email : Emails]]
          /\ invitation' \in [Users -> {"none", "open", "accepted", "expired"}]
          /\ member'[u].status = "invited"
          /\ \A v \in Users : v # u => member'[v] = member[v] /\ invitation'[v] = invitation[v]
      BY <1>0, <3>1, <3>2, <3>3
    <3>5. memberReq'[r] \in M!Req /\ memberReq'[r].at = "mail" /\ memberReq'[r].user = u
      <4> DEFINE t == [q EXCEPT !.at = "mail"]
                 w == [t EXCEPT !.user = u]
      <4>1. t \in M!Req /\ t.at = "mail"
        BY <3>2, StageSet
      <4> HIDE DEF t
      <4>2. w \in M!Req /\ w.at = "mail" /\ w.user = u
        BY <4>1 DEF M!Req
      <4>3. memberReq'[r] = [q EXCEPT !.at = "mail", !.user = u]
        BY <3>1
      <4> QED BY <4>2, <4>3 DEF t
    <3>6. ASSUME NEW p \in Calls, p # r, memberReq'[p] # M!Idle
          PROVE  /\ memberReq[p] # M!Idle /\ memberReq'[p] \in M!Req
                 /\ memberReq'[p].at = memberReq[p].at /\ memberReq'[p].user = memberReq[p].user
                 /\ memberReq'[p].role = memberReq[p].role /\ memberReq'[p].roles = memberReq[p].roles
                 /\ memberReq'[p].status = memberReq[p].status /\ memberReq'[p].email = memberReq[p].email
                 /\ ~memberReq'[p].stale => ~memberReq[p].stale
      <4>1. CASE M!At(p, "removeRole") /\ memberReq[p].role \in q.roles
        <5>1. memberReq'[p] = [memberReq[p] EXCEPT !.stale = TRUE] /\ memberReq[p] # M!Idle
          BY <3>1, <3>6, <4>1 DEF M!At
        <5>2. memberReq[p] \in M!Req
          BY <3>3, <5>1
        <5> QED BY <5>1, <5>2, StaleSet
      <4>2. CASE ~(M!At(p, "removeRole") /\ memberReq[p].role \in q.roles)
        <5>1. memberReq'[p] = memberReq[p]
          BY <3>1, <3>6, <4>2
        <5> QED BY <3>3, <3>6, <5>1
      <4> QED BY <4>1, <4>2
    <3>7. memberReq' \in [Calls -> {M!Idle} \cup M!Req]
      <4>1. memberReq' = [p \in Calls |-> memberReq'[p]]
        BY <3>1
      <4>2. \A p \in Calls : memberReq'[p] \in {M!Idle} \cup M!Req
        BY <3>5, <3>6
      <4> QED BY <4>1, <4>2
    <3>8. holds' \subseteq {v \in Users : M!Known(v)'} \X {x \in Roles : M!Kept(x)'}
      <4>1. \A x : M!Kept(x)' = M!Kept(x)
        BY <3>1 DEF M!Kept
      <4>2. \A v \in Users : M!Known(v) \/ v = u => M!Known(v)'
        BY <3>4 DEF M!Known
      <4> QED BY <3>1, <3>2, <3>3, <4>1, <4>2
    <3>9. M!TypeOK'
      BY <1>0, <2>1, <3>1, <3>4, <3>7, <3>8 DEF M!TypeOK
    <3>10. ShapedInv'
      <4> SUFFICES ASSUME NEW p \in Calls, memberReq'[p] # M!Idle PROVE Shaped(memberReq'[p])
        BY DEF ShapedInv
      <4>1. CASE p = r
        BY <3>5, <4>1 DEF Shaped
      <4>2. CASE p # r
        <5>1. Shaped(memberReq[p])
          BY <3>6, <4>2 DEF MembersInv, ShapedInv
        <5> QED BY <3>6, <4>2, <5>1 DEF Shaped
      <4> QED BY <4>1, <4>2
    <3>11. u \notin barred
      BY <1>0, <3>1 DEF BarredInv
    <3>12. BarredInv' /\ RoleInv'
      BY <1>0, <3>1, <3>3, <3>4, <3>5, <3>6, <3>11 DEF BarredInv, RoleInv, M!At
    <3>13. M!Admins' = M!Admins
      BY <3>1, <3>4 DEF M!Admins
    <3>14. CheckedInv'
      <4> SUFFICES ASSUME ~renamed, NEW p \in Calls, memberReq'[p] # M!Idle, ~memberReq'[p].stale, Threatens(memberReq[p])'
                   PROVE  M!OtherAdmins(memberReq[p].user)' # {}
        BY <3>1 DEF CheckedInv
      <4>1. p # r
        BY <3>5 DEF Threatens
      <4>2. Threatens(memberReq[p]) /\ ~memberReq[p].stale /\ memberReq[p] # M!Idle
        BY <3>6, <3>13, <4>1 DEF Threatens
      <4>3. M!OtherAdmins(memberReq[p].user) # {}
        BY <1>0, <4>2 DEF AdminInv, CheckedInv
      <4>4. M!OtherAdmins(memberReq[p].user)' = M!Admins' \ {memberReq'[p].user}
        BY DEF M!OtherAdmins, M!Admins
      <4> QED BY <3>6, <3>13, <4>1, <4>3, <4>4, OthersAreAdmins
    <3>15. AdminRemains' /\ (renamed \/ named)'
      BY <1>0, <3>1, <3>13 DEF AdminInv, AdminRemains, M!AdminRemains
    <3> QED BY <3>9, <3>10, <3>12, <3>14, <3>15 DEF MembersInv, AdminInv
  <2> QED BY <2>2, <2>3
<1>14. ASSUME NEW r \in Calls, M!Mail(r) PROVE MembersInv'
  <2>1. mailed' \subseteq Users
    BY <1>0, <1>14 DEF M!Mail
  <2> QED BY <1>2, <1>14, <2>1 DEF M!Mail, M!ghosts
<1>15. ASSUME NEW r \in Calls, M!WriteAccept(r) PROVE MembersInv'
  <2> DEFINE q == memberReq[r]
             u == q.user
  <2>1. q # M!Idle /\ q.at = "accept" /\ UNCHANGED memberOps
    BY <1>15 DEF M!WriteAccept, M!At
  <2>2. CASE invitation[u] = "none"
    BY <1>3, <1>15, <2>1, <2>2 DEF M!WriteAccept
  <2>3. CASE invitation[u] # "none"
    <3>1. /\ invitation' = [invitation EXCEPT ![u] = "accepted"]
          /\ member' = [member EXCEPT ![u].status = "active"]
          /\ UNCHANGED holds /\ M!Finish(r)
          /\ UNCHANGED <<role, named, mailed, raced, renamed, barred>>
      BY <1>15, <2>3 DEF M!WriteAccept, M!ghosts
    <3>2. u \in Users /\ u \notin barred
      BY <1>0, <2>1 DEF Allowed, Shaped
    <3>3. /\ memberReq' \in [Calls -> {M!Idle} \cup M!Req] /\ CheckedInv' /\ ShapedInv'
          /\ \A p \in Calls : memberReq'[p] # M!Idle =>
                /\ memberReq[p] # M!Idle /\ memberReq'[p].at = memberReq[p].at
                /\ memberReq'[p].user = memberReq[p].user /\ memberReq'[p].role = memberReq[p].role
      BY <3>1, FinishKeeps
    <3>4. /\ member \in [Users -> [status : {"none", "invited", "active", "disabled", "gone"}, email : Emails]]
          /\ holds \subseteq {v \in Users : M!Known(v)} \X {x \in Roles : M!Kept(x)} /\ barred \subseteq Users
      BY <1>0 DEF M!TypeOK
    <3> HIDE DEF q
    <3>5. /\ member' \in [Users -> [status : {"none", "invited", "active", "disabled", "gone"}, email : Emails]]
          /\ invitation' \in [Users -> {"none", "open", "accepted", "expired"}]
          /\ member'[u].status = "active"
          /\ \A v \in Users : v # u => member'[v] = member[v] /\ invitation'[v] = invitation[v]
      BY <1>0, <3>1, <3>2, <3>4
    <3>6. holds' \subseteq {v \in Users : M!Known(v)'} \X {x \in Roles : M!Kept(x)'}
      <4>1. \A x : M!Kept(x)' = M!Kept(x)
        BY <3>1 DEF M!Kept
      <4>2. \A v \in Users : M!Known(v) => M!Known(v)'
        BY <3>5 DEF M!Known
      <4> QED BY <3>1, <3>4, <4>1, <4>2
    <3>7. M!TypeOK'
      BY <1>0, <2>1, <3>1, <3>3, <3>5, <3>6 DEF M!TypeOK
    <3>8. BarredInv' /\ RoleInv'
      BY <1>0, <3>1, <3>2, <3>3, <3>4, <3>5 DEF BarredInv, RoleInv, M!At
    <3>9. M!Admins \subseteq M!Admins'
      BY <3>1, <3>5 DEF M!Admins
    <3>10. AdminRemains' /\ (renamed \/ named)'
      BY <1>0, <3>1, <3>9 DEF AdminInv, AdminRemains, M!AdminRemains
    <3> QED BY <3>3, <3>7, <3>8, <3>10 DEF MembersInv, AdminInv
  <2> QED BY <2>2, <2>3
<1>16. ASSUME NEW r \in Calls, M!WriteRemoveRole(r) PROVE MembersInv'
  <2> DEFINE q == memberReq[r]
             x == q.role
  <2>1. q # M!Idle /\ q.at = "removeRole" /\ UNCHANGED memberOps
    BY <1>16 DEF M!WriteRemoveRole, M!At
  <2>2. CASE ~M!Kept(x)
    BY <1>3, <1>16, <2>1, <2>2 DEF M!WriteRemoveRole
  <2>3. CASE M!Kept(x)
    <3>1. /\ role' = [role EXCEPT ![x] = "gone"]
          /\ holds' = {h \in holds : h[2] # x}
          /\ UNCHANGED member /\ M!Finish(r)
          /\ UNCHANGED <<named, invitation, mailed, raced, renamed, barred>>
      BY <1>16, <2>3 DEF M!WriteRemoveRole
    <3>2. x \in Roles /\ x # Admin
      BY <1>0, <2>1 DEF Allowed, Shaped
    <3>3. /\ memberReq' \in [Calls -> {M!Idle} \cup M!Req] /\ CheckedInv' /\ ShapedInv'
          /\ \A p \in Calls : memberReq'[p] # M!Idle =>
                /\ memberReq[p] # M!Idle /\ memberReq'[p].at = memberReq[p].at
                /\ memberReq'[p].user = memberReq[p].user /\ memberReq'[p].role = memberReq[p].role
      BY <3>1, FinishKeeps
    <3>4. /\ role \in [Roles -> {"none", "custom", "default", "gone"}]
          /\ holds \subseteq {v \in Users : M!Known(v)} \X {y \in Roles : M!Kept(y)}
      BY <1>0 DEF M!TypeOK
    <3> HIDE DEF q
    <3>5. /\ role' \in [Roles -> {"none", "custom", "default", "gone"}] /\ \A y \in Roles : y # x => role'[y] = role[y]
      BY <3>1, <3>2, <3>4
    <3>6. holds' \subseteq {v \in Users : M!Known(v)'} \X {y \in Roles : M!Kept(y)'}
      <4>1. \A v \in Users : M!Known(v) => M!Known(v)'
        BY <3>1 DEF M!Known
      <4>2. \A y \in Roles : y # x /\ M!Kept(y) => M!Kept(y)'
        BY <3>5 DEF M!Kept
      <4> QED BY <3>1, <3>4, <4>1, <4>2
    <3>7. M!TypeOK'
      BY <1>0, <2>1, <3>1, <3>3, <3>5, <3>6 DEF M!TypeOK
    <3>8. BarredInv' /\ RoleInv'
      BY <1>0, <3>1, <3>2, <3>3, <3>5 DEF BarredInv, RoleInv, M!At
    <3>9. M!Admins' = M!Admins
      BY <3>1, <3>2, <3>4 DEF M!Admins
    <3>10. AdminRemains' /\ (renamed \/ named)'
      BY <1>0, <3>1, <3>9 DEF AdminInv, AdminRemains, M!AdminRemains
    <3> QED BY <3>3, <3>7, <3>8, <3>10 DEF MembersInv, AdminInv
  <2> QED BY <2>2, <2>3
<1>17. ASSUME NEW r \in Calls, M!Serve(r) PROVE MembersInv'
  BY <1>3, <1>10, <1>11, <1>12, <1>13, <1>14, <1>15, <1>16, <1>17 DEF M!Serve, M!Fail
<1>18. ASSUME NEW u \in Users, M!ExpireInvitation(u) PROVE MembersInv'
  <2>1. /\ invitation[u] = "open" /\ invitation' = [invitation EXCEPT ![u] = "expired"]
        /\ UNCHANGED <<member, holds, role, named, mailed, memberReq, memberOps, raced, renamed, barred>>
    BY <1>18 DEF M!ExpireInvitation, M!ghosts
  <2>2. u \notin barred /\ barred \subseteq Users /\ memberReq \in [Calls -> {M!Idle} \cup M!Req]
    BY <1>0, <2>1 DEF BarredInv, M!TypeOK
  <2>3. /\ invitation' \in [Users -> {"none", "open", "accepted", "expired"}]
        /\ \A v \in barred : invitation'[v] = invitation[v]
    BY <1>0, <2>1, <2>2
  <2> QED BY <1>0, <2>1, <2>2, <2>3, AllowedKeeps
<1>19. CASE M!CreateRole
  <2>1. PICK x \in Roles : role[x] = "none" /\ role' = [role EXCEPT ![x] = "custom"]
    BY <1>19 DEF M!CreateRole
  <2>2. /\ memberOps' \in 0..MaxMemberOps
        /\ UNCHANGED <<member, holds, named, invitation, mailed, memberReq, raced, renamed, barred>>
    BY <1>0, <1>19 DEF M!CreateRole, M!ghosts
  <2>3. /\ role' \in [Roles -> {"none", "custom", "default", "gone"}] /\ \A y \in Roles : y # x => role'[y] = role[y]
        /\ x # Admin
    BY <1>0, <2>1 DEF M!TypeOK, RoleInv
  <2>4. holds \subseteq {v \in Users : M!Known(v)'} \X {y \in Roles : M!Kept(y)'}
    <3>1. \A v \in Users : M!Known(v) => M!Known(v)'
      BY <2>2 DEF M!Known
    <3>2. \A y \in Roles : M!Kept(y) => M!Kept(y)'
      BY <2>1, <2>3 DEF M!Kept
    <3>3. holds \subseteq {v \in Users : M!Known(v)} \X {y \in Roles : M!Kept(y)}
      BY <1>0 DEF M!TypeOK
    <3> QED BY <3>1, <3>2, <3>3
  <2>5. M!TypeOK'
    BY <1>0, <2>2, <2>3, <2>4 DEF M!TypeOK
  <2>6. BarredInv' /\ RoleInv' /\ ShapedInv'
    BY <1>0, <2>2, <2>3 DEF BarredInv, RoleInv, M!At, ShapedInv, MembersInv
  <2>7. AdminInv'
    BY <1>0, <2>2 DEF AdminInv, AdminRemains, M!AdminRemains, CheckedInv, Threatens, M!Admins, M!OtherAdmins
  <2> QED BY <2>5, <2>6, <2>7 DEF MembersInv
<1>20. CASE M!RenameAdmin
  <2>1. /\ memberOps' \in 0..MaxMemberOps /\ named' \in BOOLEAN /\ renamed' = TRUE
        /\ UNCHANGED <<member, holds, role, invitation, mailed, memberReq, raced, barred>>
    BY <1>0, <1>20 DEF M!RenameAdmin
  <2>2. M!TypeOK'
    BY <1>0, <2>1 DEF M!TypeOK, M!Known, M!Kept
  <2>3. BarredInv' /\ RoleInv' /\ ShapedInv' /\ AdminInv'
    BY <1>0, <2>1 DEF BarredInv, RoleInv, M!At, ShapedInv, MembersInv, AdminInv, AdminRemains, M!AdminRemains, CheckedInv
  <2> QED BY <2>2, <2>3 DEF MembersInv
<1>21. CASE UNCHANGED M!vars
  <2>1. UNCHANGED <<member, holds, role, named, invitation, mailed, memberReq, memberOps, raced, renamed, barred>>
    BY <1>21 DEF M!vars, M!ghosts
  <2>2. memberReq \in [Calls -> {M!Idle} \cup M!Req]
    BY <1>0 DEF M!TypeOK
  <2> QED BY <1>0, <2>1, <2>2, AllowedKeeps
<1>22. CASE M!Next
  BY <1>9, <1>17, <1>18, <1>19, <1>20, <1>22 DEF M!Next
<1> QED BY <1>21, <1>22

\* The types of users, invitations and roles; only users and roles that exist are paired.
THEOREM MembersTyped == ASSUME M!MembersAssumption PROVE M!Spec => []M!TypeOK
<1>1. MembersInv => M!TypeOK
  BY DEF MembersInv
<1> QED BY <1>1, InitMembers, NextMembers, PTL DEF M!Spec

\* The tenant keeps an active admin, unless a request acted on a reading of the admins that
\* was overtaken (users.service.ts:50) or the default role was renamed (users.service.ts:90).
THEOREM AdminStays == ASSUME M!MembersAssumption PROVE M!Spec => []AdminRemains
<1>1. MembersInv => AdminRemains
  BY DEF MembersInv, AdminInv
<1> QED BY <1>1, InitMembers, NextMembers, PTL DEF M!Spec

\* Who had joined and was disabled gets in again only through an admin (invitations.service.ts:109).
THEOREM BarredStayOut == ASSUME M!MembersAssumption PROVE M!Spec => []DisabledStaysOut
<1>1. MembersInv => DisabledStaysOut
  BY DEF MembersInv, BarredInv, DisabledStaysOut, M!DisabledStaysOut
<1> QED BY <1>1, InitMembers, NextMembers, PTL DEF M!Spec
=============================================================================
