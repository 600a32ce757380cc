----------------------------- MODULE MCAccounts -----------------------------
(***************************************************************************)
(* Access and Members for TLC, the two ways into a tenant: its API clients *)
(* and its users.  The components share no state; a behaviour is one of    *)
(* either, as part says, and leaves the variables of the other alone.      *)
(***************************************************************************)
EXTENDS TLC

CONSTANTS c1, k1, r1, r2, u1, u2, u3, e1, e2, admin, marketer,
          Calls,  \* Requests of both
          Absent, \* None of both
          Clients, Callers, ClientTTL, ServiceTTL, Tolerance, Skew, Latency, FailureWindow,
          MaxSecretFailures,  \* MaxFailures of Access
          MaxClock,
          MaxAccessOps,       \* bound: MaxOps of Access
          Users, Emails, Roles, Admin,
          MaxMemberOps        \* bound: MaxOps of Members

VARIABLES part, clock, revokedAt, suspendedAt, failures, tokens, events, accessReq, cached, inflight,
          accessOps, expired,
          member, holds, role, named, invitation, mailed, memberReq, memberOps, raced, renamed, barred

\* Every name differs from those of Sessions: AccountsProofs extends both.
A == INSTANCE Access WITH Requests <- Calls, None <- Absent, MaxFailures <- MaxSecretFailures,
                          MaxOps <- MaxAccessOps, req <- accessReq, ops <- accessOps

M == INSTANCE Members WITH Requests <- Calls, None <- Absent, MaxOps <- MaxMemberOps,
                           user <- member, req <- memberReq, ops <- memberOps

ASSUME A!AccessAssumption /\ M!MembersAssumption

Symmetry == Permutations({u1, u2, u3}) \cup Permutations({r1, r2})

accessVars == <<clock, revokedAt, suspendedAt, failures, tokens, events, accessReq, cached, inflight, accessOps, expired>>
memberVars == <<member, holds, role, named, invitation, mailed, memberReq, memberOps, raced, renamed, barred>>

IsAccess == part = "access" /\ UNCHANGED <<part, memberVars>>
IsMembers == part = "members" /\ UNCHANGED <<part, accessVars>>

\* The first user has e1: the other email in its place gives the same behaviours.
AccountsInit == part \in {"access", "members"} /\ A!Init /\ M!Init /\ \A u \in Users : member[u].email = e1

AccountsNext ==
    \/ \E r \in Calls, c \in Clients : IsAccess /\ A!AskToken(r, c)
    \/ \E r \in Calls, c \in Clients : IsAccess /\ A!Revoke(r, c)
    \/ \E r \in Calls : IsAccess /\ A!ReadClient(r)
    \/ \E r \in Calls : IsAccess /\ A!CheckSecret(r)
    \/ \E r \in Calls : IsAccess /\ A!Sign(r)
    \/ \E r \in Calls : IsAccess /\ A!PublishRevoked(r)
    \/ \E r \in Calls : IsAccess /\ A!Fail(r)
    \/ IsAccess /\ A!Restart
    \/ IsAccess /\ A!SetTenantStatus
    \/ \E k \in Callers : IsAccess /\ A!GetToken(k)
    \/ IsAccess /\ A!SignService
    \/ IsAccess /\ A!Answered
    \/ IsAccess /\ A!FetchFails
    \/ IsAccess /\ A!Tick
    \/ \E r \in Calls : IsMembers /\ M!Ask(r)
    \/ \E r \in Calls : IsMembers /\ M!Serve(r)
    \/ \E u \in Users : IsMembers /\ M!ExpireInvitation(u)
    \/ IsMembers /\ M!CreateRole
    \/ IsMembers /\ M!RenameAdmin

AccountsSpec == AccountsInit /\ [][AccountsNext]_<<part, accessVars, memberVars>>

\* The invariants of Access and Members, on their instances.
StoppedClientsStayOut == A!StoppedClientsStayOut
HandedTokensWork == A!HandedTokensWork
AdminRemains == M!AdminRemains
DisabledStaysOut == M!DisabledStaysOut
=============================================================================
