---------------------------- MODULE ConsoleEdits ----------------------------
(***************************************************************************)
(* Screens of the console where an administrator edits rows other          *)
(* administrators edit too: users, roles, tenants, API clients, relational *)
(* tables, field definitions, contact lists and the fields of a contact.   *)
(* A handler sends one request and goes on when it is answered; the table  *)
(* is a copy, an editor starts from it and is sent as a whole.             *)
(***************************************************************************)
EXTENDS Naturals, FiniteSets

CONSTANTS Screens,   \* of AllScreens
          Items,     \* rows: users, roles, tenants, ...
          Parts,     \* what the editor of a row sets: roles, permissions, labels, ...
          First,     \* rows that are there when the screen is opened
          Default,   \* rows that are not deleted: default roles, system fields
          MaxSent,   \* bound: requests after which none is sent that writes
          MaxOpen,   \* bound: requests that are under way when one is sent that writes
          MaxOthers, \* bound: writes of other administrators
          Contested, \* bound: screens where others write
          None, Gone, New, Form

AllScreens == {"users", "roles", "tenants", "credentials", "tables", "fields", "lists", "contact"}

\* Part of a row that has an action of its own: disabled, suspended, revoked.
Off == "off"

ConsoleEditsAssumption ==
    /\ Screens \subseteq AllScreens /\ First \subseteq Items /\ {MaxSent, MaxOpen, MaxOthers} \subseteq Nat
    /\ Off \notin Parts /\ None # Gone /\ \A s \in SUBSET (Parts \cup {Off}) : s \notin {None, Gone}
    /\ {New, Form} \cap Items = {} /\ New # Form /\ None \notin Items

VARIABLES screen,  \* which of them this is
          server,  \* its rows: their parts, None before and Gone after
          table,   \* the rows it shows
          editor,  \* what is edited: a row or a new one, from what, and the draft
          target,  \* row whose removal or status is to be confirmed
          busy,    \* controls disabled while a request is under way
          sent,    \* number of the last request
          asks,    \* requests that are not answered
          answers, \* answers that are not received
          writes,  \* ghost: number of writes that changed parts
          changed, \* ghost: number of the last write of every part
          mine,    \* ghost: number of the last write of every row this screen knows was done
          others,  \* ghost: number of writes of others
          latest,  \* ghost: number of the last load
          missed,  \* ghost: the table is not of the last load, or that failed
          dropped, \* ghost: an answer closed a draft the server did not accept
          undone   \* ghost: a save took back what this administrator had saved

rows == <<screen, server>>
panels == <<editor, target>>
wire == <<sent, asks, answers>>
history == <<writes, changed, others>>
seen == <<mine, latest, missed, dropped>>
vars == <<rows, table, panels, busy, wire, history, seen, undone>>

Asked == asks \cup {a.ask : a \in answers}
Loads == {a \in Asked : a.op = "load"}

Shown(i) == table[i] \notin {None, Gone}

\* Every variable has its shape.
TypeOK ==
    /\ screen \in Screens
    /\ server \in [Items -> (SUBSET (Parts \cup {Off})) \cup {None, Gone}]
    /\ DOMAIN table = Items /\ target \in {None} \cup [id : Items, to : SUBSET {Off}]
    /\ editor # None => editor.id \in Items \cup {New} /\ editor.draft \subseteq Parts
    /\ busy \subseteq Items \cup {New, Form}
    /\ \A a \in Asked : a.n \in 1..sent

\* A load, and what is closed after it: for the write it follows and its editor.
LoadOf(then, by, edit) ==
    [n |-> sent + 1, op |-> "load", id |-> None, draft |-> {}, edit |-> edit, by |-> by, then |-> then]

\* The screen loads its rows when it mounts.
Init ==
    /\ screen \in Screens
    /\ server = [i \in Items |-> IF i \in First \/ screen = "contact" THEN {} ELSE None]
    /\ table = [i \in Items |-> None] /\ editor = None /\ target = None /\ busy = {}
    /\ sent = 1 /\ asks = {[LoadOf("nothing", 1, None) EXCEPT !.n = 1]} /\ answers = {}
    /\ writes = 0 /\ changed = [i \in Items |-> [p \in Parts |-> 0]] /\ others = 0
    /\ mine = [i \in Items |-> 0] /\ latest = 1 /\ missed = FALSE /\ dropped = FALSE /\ undone = FALSE

-----------------------------------------------------------------------------
(* Editors and requests *)

\* An editor of a row or a new one: what it starts from, and the writes it must have, unless
\* rows are loading or the table missed a load.
Opened(i, from) ==
    [id |-> i, from |-> from, draft |-> from, since |-> sent,
     mine |-> IF i = New \/ Loads # {} \/ missed THEN 0 ELSE mine[i]]

Edit(e) == editor' = e /\ UNCHANGED <<rows, table, target, busy, wire, history, seen, undone>>

Open(i) == Shown(i) /\ Edit(Opened(i, table[i] \cap Parts))

Toggle(p) ==
    /\ editor # None
    /\ Edit([editor EXCEPT !.since = sent, !.draft = IF p \in @ THEN @ \ {p} ELSE @ \cup {p}])

Choose(t) == target' = t /\ UNCHANGED <<rows, table, editor, busy, wire, history, seen, undone>>

Editing(i) == editor # None /\ editor.id = i

\* A request, unless its control is disabled; keys are the controls it disables.
Send(op, i, draft, keys) ==
    /\ sent < MaxSent /\ Cardinality(Asked) < MaxOpen /\ sent' = sent + 1
    /\ busy \cap keys = {} /\ busy' = busy \cup keys
    /\ asks' = asks \cup {[n |-> sent + 1, op |-> op, id |-> i, draft |-> draft,
                           edit |-> IF op \in {"save", "create"} THEN editor ELSE None,
                           by |-> sent + 1, then |-> "nothing"]}
    /\ UNCHANGED <<rows, table, panels, answers, history, seen, undone>>

Flipped(i) == {Off} \ table[i]

-----------------------------------------------------------------------------
(* Users: a row is disabled while a request for it is under way *)

HandleInvite == screen = "users" /\ Send("create", New, {}, {New})
StartEditRoles(u) == screen = "users" /\ ~Editing(u) /\ Open(u)
ToggleEditingRole(p) == screen = "users" /\ Toggle(p)
SaveRoles(u) == screen = "users" /\ Editing(u) /\ Shown(u) /\ Send("save", u, editor.draft, {u})
CancelRoles(u) == screen = "users" /\ Editing(u) /\ Edit(None)
ToggleStatus(u) == screen = "users" /\ Shown(u) /\ Send("status", u, Flipped(u), {u})
DeleteUser(u) == screen = "users" /\ Shown(u) /\ Send("remove", u, {}, {u})

(* Roles: only the button that saves is disabled *)

StartEdit(r) == screen = "roles" /\ IF Editing(r) THEN Edit(None) ELSE Open(r)
ToggleCell(p) == screen = "roles" /\ Toggle(p)
SaveRole(r) == screen = "roles" /\ Editing(r) /\ Shown(r) /\ Send("save", r, editor.draft, {Form})
DeleteRole(r) == screen = "roles" /\ Shown(r) /\ r \notin Default /\ Send("remove", r, {}, {})

(* Tenants: one dialog for all; hidden while they load and when that failed *)

NoDialog == editor = None /\ target = None
Hidden == Loads # {} \/ missed

CreateTenant == screen = "tenants" /\ NoDialog /\ Edit(Opened(New, {}))
EditTenant(i) == screen = "tenants" /\ NoDialog /\ ~Hidden /\ Open(i)
SuspendTenant(i) == screen = "tenants" /\ NoDialog /\ ~Hidden /\ Shown(i) /\ Choose([id |-> i, to |-> Flipped(i)])
TenantForm(p) == screen = "tenants" /\ Toggle(p)
HandleCreate == screen = "tenants" /\ Editing(New) /\ Send("create", New, editor.draft, {Form})
HandleEdit(i) == screen = "tenants" /\ Editing(i) /\ Send("save", i, editor.draft, {Form})
HandleConfirmStatus == screen = "tenants" /\ target # None /\ Send("status", target.id, target.to, {Form})

\* Cancel, or Escape, also while a request is under way.
CloseDialog ==
    /\ screen \in {"tenants", "credentials"} /\ ~NoDialog
    /\ editor' = None /\ target' = None
    /\ UNCHANGED <<rows, table, busy, wire, history, seen, undone>>

LoadFirstPage ==
    /\ screen = "tenants" /\ Loads = {} /\ missed
    /\ sent < MaxSent /\ sent' = sent + 1 /\ latest' = sent + 1
    /\ asks' = asks \cup {LoadOf("nothing", sent + 1, None)}
    /\ UNCHANGED <<rows, table, panels, busy, answers, history, mine, missed, dropped, undone>>

(* API clients: a dialog to create, one to revoke *)

NewClient == screen = "credentials" /\ NoDialog /\ Edit(Opened(New, {}))
ToggleScope(p) == screen = "credentials" /\ Toggle(p)
SubmitCreate == screen = "credentials" /\ Editing(New) /\ editor.draft # {} /\ Send("create", New, editor.draft, {New})
AskRevoke(i) == screen = "credentials" /\ NoDialog /\ Shown(i) /\ Off \notin table[i] /\ Choose([id |-> i, to |-> {Off}])
ConfirmRevoke == screen = "credentials" /\ target # None /\ Send("status", target.id, target.to, {Form})

(* Relational tables, fields, lists: nothing is disabled *)

CreateTable == screen = "tables" /\ Send("create", New, {}, {})
ChooseColumns(i) == screen = "tables" /\ Shown(i) /\ Edit(Opened(i, {}))
ColumnInputs(p) == screen = "tables" /\ Toggle(p)
AddColumns(i) == screen = "tables" /\ Editing(i) /\ editor.draft # {} /\ Send("save", i, editor.draft, {})

OpenForm == screen = "fields" /\ editor = None /\ Edit(Opened(New, {}))
EditField(i) == screen = "fields" /\ ~Editing(i) /\ Open(i)
FieldForm(p) == screen = "fields" /\ Toggle(p)
SaveDefinition ==
    /\ screen = "fields" /\ editor # None
    /\ Send(IF editor.id = New THEN "create" ELSE "save", editor.id, editor.draft, {})

CreateList == screen = "lists" /\ Send("create", New, {}, {})
StartRename(i) == screen = "lists" /\ Open(i)
Renaming(p) == screen = "lists" /\ Toggle(p)
Rename(i) == screen = "lists" /\ Editing(i) /\ Shown(i) /\ Send("save", i, editor.draft, {})

\* Cancel of the editor.
CancelEditor == screen \in {"tables", "fields", "lists", "contact"} /\ editor # None /\ Edit(None)

ChooseRemoval(i) ==
    /\ screen \in {"tables", "fields", "lists"} /\ Shown(i) /\ (screen = "fields" => i \notin Default)
    /\ Choose([id |-> i, to |-> {}])
CancelRemoval == screen \in {"tables", "fields", "lists"} /\ target # None /\ Choose(None)
RemoveTable == screen = "tables" /\ target # None /\ Send("remove", target.id, {}, {})
DeleteDefinition == screen = "fields" /\ target # None /\ Send("remove", target.id, {}, {})
DeleteList == screen = "lists" /\ target # None /\ Send("remove", target.id, {}, {})

(* The fields of a contact *)

StartField(i) == screen = "contact" /\ ~Editing(i) /\ Open(i)
Editor(p) == screen = "contact" /\ Toggle(p)
SaveField(i) == screen = "contact" /\ Editing(i) /\ Send("save", i, editor.draft, {})
RecordConsent == screen = "contact" /\ Send("create", New, {}, {})

-----------------------------------------------------------------------------
(* The server *)

\* What a request makes of a row; columns are added, the others are sets that are replaced.
Result(a) ==
    CASE a.op = "save" /\ screen = "tables" -> server[a.id] \cup a.draft
      [] a.op = "save" /\ screen # "tables" -> (server[a.id] \cap {Off}) \cup a.draft
      [] a.op = "status" -> (server[a.id] \cap Parts) \cup a.draft
      [] a.op = "remove" -> Gone

\* Rows it may be about: a new one gets an id that was never used; a consent is not a row here.
Subjects(a) ==
    IF a.op # "create" THEN {i \in {a.id} : server[i] \notin {None, Gone}}
    ELSE {i \in Items : server[i] = None}

Reverted(a) ==
    {p \in Parts : /\ (p \in a.edit.draft) = (p \in a.edit.from)
                   /\ (p \in server[a.id]) # (p \in a.edit.from)}

\* The answer: the row that was written, or all that were loaded.
Answered(a, res, i, row, loaded) ==
    /\ asks' = asks \ {a}
    /\ answers' = answers \cup {[ask |-> a, res |-> res, id |-> i, row |-> row, loaded |-> loaded, writes |-> writes']}

Write(i, row) ==
    LET other == IF row = Gone \/ server[i] = None THEN {}
                 ELSE {p \in Parts : (p \in row) # (p \in server[i])} IN
    /\ server' = [server EXCEPT ![i] = row]
    /\ writes' = IF other = {} THEN writes ELSE writes + 1
    /\ changed' = [changed EXCEPT ![i] = [p \in Parts |-> IF p \in other THEN writes + 1 ELSE @[p]]]

\* The request is done; its answer may not arrive.
Commit(a) ==
    /\ a.op # "load"
    /\ \E i \in Subjects(a), res \in {"ok", "lost"} :
         /\ a.op = "save" /\ screen = "tables" => a.draft \cap server[i] = {}
         /\ LET row == IF a.op = "create" THEN a.draft ELSE Result(a) IN
              Write(i, row) /\ Answered(a, res, i, row, None)
    /\ undone' = (undone \/ (/\ a.op = "save" /\ screen # "tables"
                            /\ \E p \in Reverted(a) : changed[a.id][p] \in 1..a.edit.mine))
    /\ UNCHANGED <<screen, table, panels, busy, sent, others, seen>>

\* A consent is recorded: not in a row of this screen.
CommitConsent(a) ==
    /\ screen = "contact" /\ a.op = "create"
    /\ writes' = writes /\ \E res \in {"ok", "lost"} : Answered(a, res, New, {}, None)
    /\ UNCHANGED <<rows, table, panels, busy, sent, changed, others, seen, undone>>

Read(a) ==
    /\ a.op = "load" /\ writes' = writes /\ Answered(a, "ok", New, None, server)
    /\ UNCHANGED <<rows, table, panels, busy, sent, changed, others, seen, undone>>

\* Another administrator writes a row.
Other(i) ==
    /\ screen \in Contested /\ others < MaxOthers /\ others' = others + 1 /\ server[i] \notin {None, Gone}
    /\ \/ \E p \in Parts \cup {Off} : Write(i, IF p \in server[i] THEN server[i] \ {p} ELSE server[i] \cup {p})
       \/ screen \notin {"tenants", "credentials", "contact"} /\ i \notin Default /\ Write(i, Gone)
    /\ UNCHANGED <<screen, table, panels, busy, wire, seen, undone>>

-----------------------------------------------------------------------------
(* Answers *)

\* Controls a request has disabled.
Keys(a) ==
    CASE screen = "users" -> {a.id}
      [] screen = "roles" -> IF a.op = "save" THEN {Form} ELSE {}
      [] screen = "tenants" -> {Form}
      [] screen = "credentials" -> IF a.op = "create" THEN {New} ELSE {Form}
      [] OTHER -> {}

\* They are enabled again when it is answered, and on one screen whatever happens to it.
Unlock(a, res) ==
    busy' = IF res # "lost" \/ screen = "tenants" THEN busy \ Keys(a) ELSE busy

\* What a write that was done closes at once, and what after the rows are loaded.
Closes(a) ==
    CASE screen \in {"users", "roles", "contact"} -> IF a.op = "save" THEN {"editor"} ELSE {}
      [] screen = "tenants" -> {"editor", "target"}
      [] screen = "credentials" -> IF a.op = "create" THEN {"editor"} ELSE {"target"}
      [] OTHER -> {}

ClosesThen(a) ==
    CASE screen \in {"tables", "fields", "lists"} /\ a.op = "save" -> "editor"
      [] screen = "fields" /\ a.op = "create" -> "editor"
      [] screen \in {"tables", "fields", "lists"} /\ a.op = "remove" -> "target"
      [] OTHER -> "nothing"

\* An editor is closed, whichever is open by now.
Close(what, by, edit, done) ==
    /\ editor' = IF "editor" \in what THEN None ELSE editor
    /\ target' = IF "target" \in what THEN None ELSE target
    /\ dropped' = (dropped \/ (/\ "editor" \in what /\ editor # None /\ editor.since < by
                              /\ (~done \/ editor # edit)))

\* Faulty variant of Refresh: the rows are not loaded again.
RefreshNever(w) == UNCHANGED <<table, sent, asks, latest>>

\* Two screens put the answer in the place of the row, the others load all of them.
Refresh(w) ==
    IF screen \in {"tenants", "credentials"}
    THEN /\ table' = IF w.ask.op = "create" \/ Shown(w.id) THEN [table EXCEPT ![w.id] = w.row] ELSE table
         /\ UNCHANGED <<sent, asks, latest>>
    ELSE /\ sent' = sent + 1 /\ latest' = sent + 1 /\ UNCHANGED table
         /\ asks' = asks \cup {LoadOf(ClosesThen(w.ask), w.ask.n, w.ask.edit)}

Learn(w) ==
    mine' = IF w.id \in Items /\ w.writes > mine[w.id] THEN [mine EXCEPT ![w.id] = w.writes] ELSE mine

Done(w) ==
    /\ w.ask.op # "load" /\ w.res = "ok"
    /\ answers' = answers \ {w}
    /\ Unlock(w.ask, w.res) /\ Refresh(w) /\ Learn(w)
    /\ Close(Closes(w.ask), w.ask.n, w.ask.edit, TRUE)
    /\ UNCHANGED <<rows, history, missed, undone>>

\* Faulty variant of NotDone: the editor is closed before the answer is looked at.
NotDoneClosed(a, res) ==
    /\ a.op # "load" /\ Unlock(a, res) /\ Close(Closes(a), a.n, a.edit, FALSE)
    /\ UNCHANGED <<rows, table, sent, history, mine, latest, missed, undone>>

\* It is refused, or throws before or after it is done: the message is shown, everything stays open.
NotDone(a, res) ==
    /\ a.op # "load" /\ Unlock(a, res)
    /\ UNCHANGED <<rows, table, panels, sent, history, mine, latest, missed, dropped, undone>>

Refuse(a) == \E res \in {"refused", "lost"} : NotDone(a, res) /\ asks' = asks \ {a} /\ UNCHANGED answers
Throw(w) == w.res = "lost" /\ NotDone(w.ask, "lost") /\ answers' = answers \ {w} /\ UNCHANGED asks

Loaded(w) ==
    /\ w.ask.op = "load" /\ answers' = answers \ {w}
    /\ table' = w.loaded /\ missed' = (w.ask.n # latest)
    /\ Close({w.ask.then}, w.ask.by, w.ask.edit, TRUE)
    /\ UNCHANGED <<rows, busy, sent, asks, history, mine, latest, undone>>

\* The write it follows was done all the same; what throws closes nothing.
NotLoaded(a) ==
    /\ a.op = "load" /\ asks' = asks \ {a}
    /\ missed' = (missed \/ a.n = latest)
    /\ \E what \in {{a.then}, {}} : Close(what, a.by, a.edit, TRUE)
    /\ UNCHANGED <<rows, table, busy, sent, answers, history, mine, latest, undone>>

Users == \/ HandleInvite
         \/ \E i \in Items : StartEditRoles(i) \/ SaveRoles(i) \/ CancelRoles(i) \/ ToggleStatus(i) \/ DeleteUser(i)
         \/ \E p \in Parts : ToggleEditingRole(p)
Roles == \/ \E i \in Items : StartEdit(i) \/ SaveRole(i) \/ DeleteRole(i)
         \/ \E p \in Parts : ToggleCell(p)
Tenants == \/ CreateTenant \/ HandleCreate \/ HandleConfirmStatus \/ CloseDialog \/ LoadFirstPage
           \/ \E i \in Items : EditTenant(i) \/ SuspendTenant(i) \/ HandleEdit(i)
           \/ \E p \in Parts : TenantForm(p)
Credentials == \/ NewClient \/ SubmitCreate \/ ConfirmRevoke
               \/ \E i \in Items : AskRevoke(i)
               \/ \E p \in Parts : ToggleScope(p)
Tables == \/ CreateTable \/ RemoveTable
          \/ \E i \in Items : ChooseColumns(i) \/ AddColumns(i)
          \/ \E p \in Parts : ColumnInputs(p)
Fields == \/ OpenForm \/ SaveDefinition \/ DeleteDefinition
          \/ \E i \in Items : EditField(i)
          \/ \E p \in Parts : FieldForm(p)
Lists == \/ CreateList \/ DeleteList
         \/ \E i \in Items : StartRename(i) \/ Rename(i)
         \/ \E p \in Parts : Renaming(p)
Contact == \/ RecordConsent
           \/ \E i \in Items : StartField(i) \/ SaveField(i)
           \/ \E p \in Parts : Editor(p)

Next ==
    \/ Users \/ Roles \/ Tenants \/ Credentials \/ Tables \/ Fields \/ Lists \/ Contact
    \/ CancelEditor \/ CancelRemoval
    \/ \E i \in Items : ChooseRemoval(i) \/ Other(i)
    \/ \E a \in asks : Commit(a) \/ CommitConsent(a) \/ Read(a) \/ Refuse(a) \/ NotLoaded(a)
    \/ \E w \in answers : Done(w) \/ Throw(w) \/ Loaded(w)

Spec == Init /\ [][Next]_vars

-----------------------------------------------------------------------------
(* Properties *)

\* A save never takes back what the administrator was told is saved, unless the editor was
\* opened before the rows were loaded again, after that failed, or after an older load came last
\* (saveRoles, users-screen.tsx:123; save, contact-detail.tsx:117).
OwnChangesStay == ~undone

\* An editor is closed by an answer only when the server has what it holds, or it was opened
\* or changed after that request was sent (saveRole, roles-screen.tsx:70).
DraftsSurvive == ~dropped

=============================================================================
