------------------------------ MODULE Listings ------------------------------
(***************************************************************************)
(* Pages of a list that changes, as the console walks through them: the    *)
(* contacts it searches, the entries of the audit log, the members of a    *)
(* contact list.  The server orders by time and id, newest first, and a    *)
(* page starts after the cursor of the one before.  A walk is a first page *)
(* and those appended to it.                                               *)
(***************************************************************************)
EXTENDS Naturals, FiniteSets

CONSTANTS Rows,      \* a set of natural numbers: ids in their order
          Screens,   \* of "contacts", "audit", "members"
          PageSize,
          MaxTime,   \* bound: milliseconds
          MaxWrites, \* bound: rows that are written
          MaxAsks,   \* bound: requests of the screen
          None

Filters == {"all", "some"}
Cursors == [at : 1..MaxTime, id : Rows]

ListingsAssumption ==
    /\ Rows \subseteq Nat /\ IsFiniteSet(Rows) /\ PageSize \in Nat \ {0}
    /\ {MaxTime, MaxAsks} \subseteq Nat \ {0} /\ MaxWrites \in Nat
    /\ None \notin Filters /\ None \notin Cursors

VARIABLES screen,  \* which of the lists this is
          row,     \* the time of each listed row, 0 of those that are not
          some,    \* rows the filter "some" matches
          time,
          open,    \* transactions that will write a row, with the time they began
          filter,  \* what the form of the screen holds
          shown,   \* how often each row is in the table
          cursor,  \* where the next page starts
          asked,   \* number of the last request
          asks,    \* requests that are not answered
          answers, \* answers that are not received
          writes,  \* ghost: number of writes, and the last one of each row
          walk,    \* ghost: of the table: the filter of its first page, and the writes before it
          mixed,   \* ghost: a page of another walk was appended
          eager    \* ghost: more was asked for with a filter whose first page was not there

server == <<row, some, time, open>>
client == <<filter, shown, cursor, asked, asks, answers>>
walked == <<walk, mixed, eager>>
vars == <<screen, server, client, writes, walked>>

Ask == [n : 1..MaxAsks, filter : Filters, cursor : {None} \cup Cursors]

\* Every variable has its shape.
TypeOK ==
    /\ screen \in Screens
    /\ row \in [Rows -> 0..MaxTime] /\ some \subseteq Rows /\ time \in 1..MaxTime
    /\ open \subseteq Cursors
    /\ filter \in Filters /\ shown \in [Rows -> Nat] /\ cursor \in {None} \cup Cursors /\ asked \in 0..MaxAsks
    /\ asks \subseteq Ask
    /\ \A a \in answers : a.ask \in Ask /\ a.rows \subseteq Rows

NoWalk == [filter |-> None, writes |-> 0]

\* A list somebody wrote before; the screen loads it when it mounts.
Init ==
    /\ screen \in Screens
    /\ row \in {[r \in Rows |-> 1], [r \in Rows |-> IF r = 1 THEN 0 ELSE 1]}
    /\ some \in {Rows, Rows \ {2}} /\ time = 1 /\ open = {}
    /\ filter = "all" /\ shown = [r \in Rows |-> 0] /\ cursor = None
    /\ asked = 1 /\ asks = {[n |-> 1, filter |-> "all", cursor |-> None]} /\ answers = {}
    /\ writes = [n |-> 0, of |-> [r \in Rows |-> 0]]
    /\ walk = NoWalk /\ mixed = FALSE /\ eager = FALSE

-----------------------------------------------------------------------------
(* Rows *)

\* The time of a row is that of the beginning of its transaction: now(), or occurred_at.
Begin(r) ==
    /\ screen = "audit" => row[r] = 0
    /\ writes.n + Cardinality(open) < MaxWrites
    /\ open' = open \cup {[id |-> r, at |-> time]}
    /\ UNCHANGED <<screen, row, some, time, client, writes, walked>>

\* The row is inserted or written, the filter matches it or not; or it is deleted.
Commit(w) ==
    /\ screen = "audit" => row[w.id] = 0
    /\ \/ (screen = "contacts" \/ row[w.id] = 0) /\ row' = [row EXCEPT ![w.id] = w.at]
       \/ screen # "audit" /\ row[w.id] # 0 /\ row' = [row EXCEPT ![w.id] = 0]
    /\ some' \in {some \cup {w.id}, some \ {w.id}}
    /\ open' = open \ {w}
    /\ writes' = [n |-> writes.n + 1, of |-> [writes.of EXCEPT ![w.id] = writes.n + 1]]
    /\ UNCHANGED <<screen, time, client, walked>>

Tick == time < MaxTime /\ time' = time + 1 /\ UNCHANGED <<screen, row, some, open, client, writes, walked>>

-----------------------------------------------------------------------------
(* The server *)

Matches(r, f) == row[r] # 0 /\ (f = "all" \/ r \in some)

Newer(a, b) == row[a] > row[b] \/ (row[a] = row[b] /\ a > b)

\* A faulty variant of After: the id is left out of the cursor.
AfterTime(r, c) == c = None \/ row[r] < c.at
\* (updated_at, id) < cursor.
After(r, c) == c = None \/ row[r] < c.at \/ (row[r] = c.at /\ r < c.id)

Found(a) == {r \in Rows : Matches(r, a.filter) /\ After(r, a.cursor)}

\* The first rows, newest first.
Newest(found) == {r \in found : Cardinality({q \in found : Newer(q, r)}) < PageSize}
Last(page) == CHOOSE r \in page : \A q \in page : q = r \/ Newer(q, r)

\* One more row than the page tells if there is another page.
Page(found) ==
    IF Cardinality(found) <= PageSize THEN [rows |-> found, next |-> None]
    ELSE LET last == Last(Newest(found)) IN
         [rows |-> Newest(found), next |-> [at |-> row[last], id |-> last]]

Answer(a) ==
    LET page == Page(Found(a)) IN
    /\ asks' = asks \ {a}
    /\ answers' = answers \cup {[ask |-> a, rows |-> page.rows, next |-> page.next, writes |-> writes.n]}
    /\ UNCHANGED <<screen, server, filter, shown, cursor, asked, writes, walked>>

\* A request fails: the table stays as it is.
Fail(a) == asks' = asks \ {a} /\ UNCHANGED <<screen, server, filter, shown, cursor, asked, answers, writes, walked>>

-----------------------------------------------------------------------------
(* The screen *)

Request(f, c) ==
    /\ asked < MaxAsks /\ asked' = asked + 1
    /\ asks' = asks \cup {[n |-> asked + 1, filter |-> f, cursor |-> c]}

Still == UNCHANGED <<screen, server, shown, cursor, answers, writes, walk, mixed>>

\* The contacts are searched whenever the form changes, and when one was added.
Search(f) ==
    /\ screen = "contacts" /\ f # filter /\ filter' = f
    /\ Request(f, None) /\ UNCHANGED eager /\ Still

QuickAdd == screen = "contacts" /\ Request(filter, None) /\ UNCHANGED <<filter, eager>> /\ Still

\* The form of the audit log is applied when it is submitted.
EditFilters(f) ==
    /\ screen = "audit" /\ f # filter /\ filter' = f
    /\ UNCHANGED <<asked, asks, eager>> /\ Still

ApplyFilters == screen = "audit" /\ Request(filter, None) /\ UNCHANGED <<filter, eager>> /\ Still

\* After every change of the members.
LoadMembers == screen = "members" /\ Request(filter, None) /\ UNCHANGED <<filter, eager>> /\ Still

\* The next page, for what the form holds now.
More ==
    /\ cursor # None /\ Request(filter, cursor)
    /\ eager' = (eager \/ filter # walk.filter)
    /\ UNCHANGED filter /\ Still

\* By the button or whenever the table is scrolled to its end; by the buttons.
MoreContacts == screen = "contacts" /\ More
MoreEntries == screen = "audit" /\ More
MoreMembers == screen = "members" /\ More

\* Faulty variant of Superseded: every answer is taken.
SupersededNever(a) == FALSE

\* The search of contacts numbers its requests and drops the answer of any but the last.
Superseded(a) == screen = "contacts" /\ a.ask.n # asked

\* A first page replaces the table, another one is appended to it.
Show(a) ==
    /\ cursor' = a.next
    /\ IF a.ask.cursor = None
       THEN /\ shown' = [r \in Rows |-> IF r \in a.rows THEN 1 ELSE 0] /\ mixed' = FALSE /\ eager' = FALSE
            /\ walk' = [filter |-> a.ask.filter, writes |-> a.writes]
       ELSE /\ shown' = [r \in Rows |-> IF r \in a.rows THEN shown[r] + 1 ELSE shown[r]] /\ UNCHANGED <<walk, eager>>
            /\ mixed' = (mixed \/ a.ask.cursor # cursor \/ a.ask.filter # walk.filter \/ a.writes < walk.writes)

Receive(a) ==
    /\ answers' = answers \ {a}
    /\ IF Superseded(a) THEN UNCHANGED <<shown, cursor, walked>> ELSE Show(a)
    /\ UNCHANGED <<screen, server, filter, asked, asks, writes>>

Next ==
    \/ \E r \in Rows : Begin(r)
    \/ \E w \in open : Commit(w)
    \/ Tick
    \/ \E a \in asks : Answer(a) \/ Fail(a)
    \/ \E f \in Filters : Search(f) \/ EditFilters(f)
    \/ QuickAdd \/ ApplyFilters \/ LoadMembers
    \/ MoreContacts \/ MoreEntries \/ MoreMembers
    \/ \E a \in answers : Receive(a)

Spec == Init /\ [][Next]_vars

-----------------------------------------------------------------------------
(* Properties *)

\* Rows of the walk nobody has written since its first page was read.
Calm == {r \in Rows : writes.of[r] <= walk.writes /\ Matches(r, walk.filter)}

\* A walk shows every row nobody writes meanwhile once, or has it still to come: whatever else
\* is inserted, deleted or moved, and however many rows have one time
\* (search, contacts-query.service.ts:106; list, audit-log.controller.ts:87).
EachRowIsListedOnce ==
    (walk # NoWalk /\ ~mixed) =>
        \A r \in Calm : shown[r] = IF cursor # None /\ After(r, cursor) THEN 0 ELSE 1

\* The search of contacts never appends a page to another search, however its answers
\* arrive (contacts-screen.tsx:59): unless more was asked for before the first page was there, or it failed.
SearchesAreNotMixed == screen = "contacts" /\ mixed => eager
=============================================================================
