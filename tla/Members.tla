------------------------------ MODULE Members -------------------------------
(***************************************************************************)
(* The users, invitations and roles of one tenant: services/core users and *)
(* roles.  A handler reads, checks and then writes in one transaction;     *)
(* between its steps the handlers of other requests run.  A user has the   *)
(* one invitation that was created with it.  The permissions of a role are *)
(* left out: no handler of this module looks at them.                      *)
(***************************************************************************)
EXTENDS Naturals, FiniteSets

CONSTANTS Users, Emails, Roles, Requests,
          Admin,    \* the default role named ADMIN_ROLE_NAME
          None,     \* nothing, or a property missing from the body of a PATCH
          MaxOps    \* bound: requests in a behaviour

MembersAssumption ==
    /\ Admin \in Roles /\ MaxOps \in Nat
    /\ None \notin Users \cup Emails \cup Roles \cup {"active", "disabled"}
    /\ \A R \in SUBSET Roles : R # None

VARIABLES user,    \* identity.users
          holds,   \* identity.user_roles
          role,    \* identity.roles
          named,   \* the default role still has its name
          invitation, \* identity.invitations, by user
          mailed,  \* users whose invitation was sent
          req,     \* the requests being served
          ops,     \* requests begun
          raced,   \* ghost: an overtaken request took an admin away
          renamed, \* ghost: the default role lost its name
          barred   \* ghost: users an admin disabled after they had joined

ghosts == <<raced, renamed, barred>>
vars == <<user, holds, role, named, invitation, mailed, req, ops, ghosts>>

Idle == [at |-> "idle"]

\* What a handler holds; stale is a ghost: what it read has changed since.
Req == [at : {"count", "update", "remove", "invite", "mail", "accept", "removeRole"},
        then : {"update", "remove"}, user : Users \cup {None},
        email : Emails \cup {None}, role : Roles \cup {None}, roles : (SUBSET Roles) \cup {None},
        status : {"active", "disabled", None}, stale : BOOLEAN]

Known(u) == user[u].status \notin {"none", "gone"}

Kept(x) == role[x] \in {"custom", "default"}

\* Every variable has its shape; the foreign keys hold.
TypeOK ==
    /\ user \in [Users -> [status : {"none", "invited", "active", "disabled", "gone"}, email : Emails]]
    /\ role \in [Roles -> {"none", "custom", "default", "gone"}]
    /\ holds \subseteq {u \in Users : Known(u)} \X {x \in Roles : Kept(x)}
    /\ invitation \in [Users -> {"none", "open", "accepted", "expired"}]
    /\ mailed \subseteq Users /\ barred \subseteq Users
    /\ req \in [Requests -> {Idle} \cup Req]
    /\ ops \in 0..MaxOps
    /\ named \in BOOLEAN /\ raced \in BOOLEAN /\ renamed \in BOOLEAN

\* TenantsService.create: the default roles and an active admin.
Init ==
    /\ \E u \in Users, e \in Emails :
          /\ user = [v \in Users |-> [status |-> IF v = u THEN "active" ELSE "none", email |-> e]]
          /\ holds = {<<u, Admin>>}
    /\ role = [x \in Roles |-> IF x = Admin THEN "default" ELSE "none"]
    /\ named = TRUE
    /\ invitation = [u \in Users |-> "none"]
    /\ mailed = {}
    /\ req = [r \in Requests |-> Idle]
    /\ ops = 0
    /\ raced = FALSE /\ renamed = FALSE /\ barred = {}

-----------------------------------------------------------------------------

At(r, stage) == req[r] # Idle /\ req[r].at = stage

Exist(R) == \A x \in R : Kept(x)

Taken(e) == \E u \in Users : Known(u) /\ user[u].email = e

\* Faulty variant of OtherAdmins: the status is not looked at.
OtherAdminsAny(u) == {v \in Users \ {u} : <<v, Admin>> \in holds}

\* assertNotLastAdmin: who would remain.
OtherAdmins(u) == {v \in Users \ {u} : user[v].status = "active" /\ <<v, Admin>> \in holds}

Admins == {u \in Users : user[u].status = "active" /\ <<u, Admin>> \in holds}

\* hasAdminRole: by the name of the default role.
IsAdmin(u) == named /\ <<u, Admin>> \in holds

Begin(r, stage, then, u, e, x, R, s) ==
    /\ req[r] = Idle /\ ops < MaxOps /\ ops' = ops + 1
    /\ req' = [req EXCEPT ![r] = [at |-> stage, then |-> then, user |-> u, email |-> e,
                                  role |-> x, roles |-> R, status |-> s, stale |-> FALSE]]
    /\ UNCHANGED <<user, holds, role, named, invitation, mailed, ghosts>>

\* Request r is answered; the others hold a stale reading if the admins changed.
Finish(r) ==
    LET changed == {u \in Users : user'[u].status = "active" /\ <<u, Admin>> \in holds'} # Admins
    IN  req' = [q \in Requests |->
                  IF q = r \/ req[q] = Idle THEN Idle ELSE [req[q] EXCEPT !.stale = @ \/ changed]]

\* The statement failed (a row or a role is gone, the email is taken) or nothing was to do.
Refuse(r) == /\ req' = [req EXCEPT ![r] = Idle]
             /\ UNCHANGED <<user, holds, role, named, invitation, mailed, ghosts>>

\* A stale request that takes an admin away may take the last one.
Races(r) == raced' = (raced \/ (req[r].stale /\ \E u \in Admins :
                        user'[u].status # "active" \/ <<u, Admin>> \notin holds'))

-----------------------------------------------------------------------------
(* Users *)

\* update: the user, the roles of the body and whether an admin is at stake.
BeginUpdate(r, u, R, s) ==
    /\ Known(u) /\ (R # None => Exist(R)) /\ (R # None \/ s # None)
    /\ LET losesRole == R # None /\ ~(named /\ Admin \in R)
           checked == IsAdmin(u) /\ (losesRole \/ s = "disabled")
       IN  Begin(r, IF checked THEN "count" ELSE "update", "update", u, None, None, R, s)

\* remove
BeginRemove(r, u) ==
    /\ Known(u)
    /\ Begin(r, IF IsAdmin(u) THEN "count" ELSE "remove", "remove", u, None, None, None, None)

\* assertNotLastAdmin: 409, or on to the write.
Count(r) ==
    /\ At(r, "count")
    /\ IF named /\ OtherAdmins(req[r].user) = {} THEN Refuse(r)
       ELSE /\ req' = [req EXCEPT ![r].at = req[r].then]
            /\ UNCHANGED <<user, holds, role, named, invitation, mailed, ghosts>>
    /\ UNCHANGED ops

\* The transaction of update: delete and insert the roles, update the user.
WriteUpdate(r) ==
    LET q == req[r]
        u == q.user
        ok == Known(u) /\ (q.roles # None => Exist(q.roles))
    IN /\ At(r, "update") /\ UNCHANGED ops
       /\ ~ok => Refuse(r)
       /\ ok => /\ holds' = IF q.roles = None THEN holds
                            ELSE {h \in holds : h[1] # u} \cup ({u} \X q.roles)
                /\ user' = IF q.status = None THEN user ELSE [user EXCEPT ![u].status = q.status]
                /\ barred' = CASE q.status = "active" -> barred \ {u}
                               [] q.status = "disabled" /\ invitation[u] \notin {"open", "expired"}
                                  /\ \A p \in Requests : ~(At(p, "accept") /\ req[p].user = u) -> barred \cup {u}
                               [] OTHER -> barred
                /\ Races(r) /\ Finish(r)
                /\ UNCHANGED <<role, named, invitation, mailed, renamed>>

\* The delete and its cascades.
WriteRemove(r) ==
    LET u == req[r].user
    IN /\ At(r, "remove") /\ UNCHANGED ops
       /\ ~Known(u) => Refuse(r)
       /\ Known(u) => /\ user' = [user EXCEPT ![u].status = "gone"]
                      /\ holds' = {h \in holds : h[1] # u}
                      /\ invitation' = [invitation EXCEPT ![u] = "none"]
                      /\ mailed' = mailed \ {u} /\ barred' = barred \ {u}
                      /\ Races(r) /\ Finish(r)
                      /\ UNCHANGED <<role, named, renamed>>

-----------------------------------------------------------------------------
(* Invitations *)

BeginInvite(r, e, R) ==
    /\ R # {} /\ Exist(R) /\ ~Taken(e)
    /\ Begin(r, "invite", "update", None, e, None, R, None)

\* The foreign keys and the unique index on the email.
Insertable(r) == Exist(req[r].roles) /\ ~Taken(req[r].email)

\* The transaction of invite; the id of the new user is a fresh one.
WriteInvite(r) ==
    /\ At(r, "invite") /\ UNCHANGED ops
    /\ \/ ~Insertable(r) /\ Refuse(r)
       \/ /\ Insertable(r)
          /\ \E u \in Users :
                /\ user[u].status = "none"
                /\ user' = [user EXCEPT ![u] = [status |-> "invited", email |-> req[r].email]]
                /\ holds' = holds \cup ({u} \X req[r].roles)
                /\ invitation' = [invitation EXCEPT ![u] = "open"]
                /\ req' = [q \in Requests |->
                              IF q = r THEN [req[r] EXCEPT !.at = "mail", !.user = u]
                              ELSE IF At(q, "removeRole") /\ req[q].role \in req[r].roles
                              THEN [req[q] EXCEPT !.stale = TRUE] ELSE req[q]]
          /\ UNCHANGED <<role, named, mailed, ghosts>>

\* sendInvite, after the commit: when it fails the request fails and the user stays.
Mail(r) ==
    /\ At(r, "mail")
    /\ \/ mailed' = mailed \cup ({req[r].user} \cap {u \in Users : Known(u)})
       \/ UNCHANGED mailed
    /\ req' = [req EXCEPT ![r] = Idle]
    /\ UNCHANGED <<user, holds, role, named, invitation, ops, ghosts>>

\* Faulty variant of Acceptable: acceptedAt is not looked at.
AcceptableTwice(u) == u \in mailed /\ invitation[u] \in {"open", "accepted"}

\* accept: found, not accepted, not expired.
Acceptable(u) == u \in mailed /\ invitation[u] = "open"

BeginAccept(r, u) ==
    Acceptable(u) /\ Begin(r, "accept", "update", u, None, None, None, None)

\* The transaction of accept, after the password was hashed; it looks at nothing again.
WriteAccept(r) ==
    LET u == req[r].user
    IN /\ At(r, "accept") /\ UNCHANGED ops
       /\ invitation[u] = "none" => Refuse(r)
       /\ invitation[u] # "none" =>
             /\ invitation' = [invitation EXCEPT ![u] = "accepted"]
             /\ user' = [user EXCEPT ![u].status = "active"]
             /\ UNCHANGED holds /\ Finish(r)
             /\ UNCHANGED <<role, named, mailed, ghosts>>

\* INVITATION_TTL_MS
ExpireInvitation(u) ==
    /\ invitation[u] = "open"
    /\ invitation' = [invitation EXCEPT ![u] = "expired"]
    /\ UNCHANGED <<user, holds, role, named, mailed, req, ops, ghosts>>

-----------------------------------------------------------------------------
(* Roles *)

CreateRole ==
    /\ ops < MaxOps /\ ops' = ops + 1
    /\ \E x \in Roles : role[x] = "none" /\ role' = [role EXCEPT ![x] = "custom"]
    /\ UNCHANGED <<user, holds, named, invitation, mailed, req, ghosts>>

\* update of the default role's name, which the API allows.
RenameAdmin ==
    /\ ops < MaxOps /\ ops' = ops + 1
    /\ named' = ~named /\ renamed' = TRUE
    /\ UNCHANGED <<user, holds, role, invitation, mailed, req, raced, barred>>

Removable(x) == role[x] = "custom" /\ \A u \in Users : <<u, x>> \notin holds

BeginRemoveRole(r, x) ==
    /\ Removable(x)
    /\ Begin(r, "removeRole", "remove", None, None, x, None, None)

\* The delete takes the role from whoever got it after the count.
WriteRemoveRole(r) ==
    LET x == req[r].role
    IN /\ At(r, "removeRole") /\ UNCHANGED ops
       /\ ~Kept(x) => Refuse(r)
       /\ Kept(x) =>
             /\ role' = [role EXCEPT ![x] = "gone"]
             /\ holds' = {h \in holds : h[2] # x}
             /\ UNCHANGED user /\ Finish(r)
             /\ UNCHANGED <<named, invitation, mailed, raced, renamed, barred>>

\* The process stops, or the connection to the database breaks, before the commit.
Fail(r) == req[r] # Idle /\ Refuse(r) /\ UNCHANGED ops

Patches == (SUBSET Roles) \cup {None}

Ask(r) ==
    \/ \E u \in Users, R \in Patches, s \in {"active", "disabled", None} : BeginUpdate(r, u, R, s)
    \/ \E u \in Users : BeginRemove(r, u) \/ BeginAccept(r, u)
    \/ \E e \in Emails, R \in SUBSET Roles : BeginInvite(r, e, R)
    \/ \E x \in Roles : BeginRemoveRole(r, x)

Serve(r) ==
    \/ Count(r) \/ WriteUpdate(r) \/ WriteRemove(r)
    \/ WriteInvite(r) \/ Mail(r) \/ WriteAccept(r)
    \/ WriteRemoveRole(r) \/ Fail(r)

Next ==
    \/ \E r \in Requests : Ask(r) \/ Serve(r)
    \/ \E u \in Users : ExpireInvitation(u)
    \/ CreateRole \/ RenameAdmin

Spec == Init /\ [][Next]_vars
-----------------------------------------------------------------------------
(* Properties *)

\* The tenant keeps an active admin, unless a request acted on a reading of the
\* admins that another one had overtaken (users.service.ts:50), or the default
\* role was renamed, which switches the check off (users.service.ts:90).
AdminRemains == raced \/ renamed \/ Admins # {}

\* A user who had joined and was disabled by an admin gets in again only through
\* an admin.  An invitation that was open when the user was disabled does let the
\* user in (invitations.service.ts:109).
DisabledStaysOut == \A u \in barred : user[u].status # "active"
=============================================================================
