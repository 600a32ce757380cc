------------------------------ MODULE MCConsole ------------------------------
(***************************************************************************)
(* ConsoleEdits and Listings for TLC, the two halves of the console: the   *)
(* screens that change rows and those that page through them.  They share  *)
(* no state; a behaviour is one screen of either, as part says, and leaves *)
(* the variables of the other alone.                                       *)
(***************************************************************************)
CONSTANTS Screens, Items, Parts, First, Default, MaxSent, MaxOpen, MaxOthers, Contested,
          None, Gone, New, Form,
          Rows, Listed, PageSize, MaxTime, MaxWrites, MaxAsks

VARIABLES part,
          screen, server, table, editor, target, busy, sent, asks, answers,
          writes, changed, mine, others, latest, missed, dropped, undone,
          list, stamp, some, time, open, filter, shown, cursor, asked,
          listAsks, listAnswers, listWrites, walk, mixed, eager

\* Every name differs from those of ExportRun: ConsoleProofs extends both.
E == INSTANCE ConsoleEdits

L == INSTANCE Listings
     WITH Screens <- Listed, screen <- list, row <- stamp, asks <- listAsks, answers <- listAnswers, writes <- listWrites

ASSUME E!ConsoleEditsAssumption /\ L!ListingsAssumption

editVars == <<screen, server, table, editor, target, busy, sent, asks, answers,
              writes, changed, mine, others, latest, missed, dropped, undone>>
listVars == <<list, stamp, some, time, open, filter, shown, cursor, asked,
              listAsks, listAnswers, listWrites, walk, mixed, eager>>

IsEdits == part = "edits" /\ UNCHANGED <<part, listVars>>
IsListings == part = "listings" /\ UNCHANGED <<part, editVars>>

\* The part that does not run is in one state.
ConsoleInit ==
    /\ part \in {"edits", "listings"} /\ E!Init /\ L!Init
    /\ part = "edits" => list = "audit" /\ stamp[1] = 1 /\ some = Rows
    /\ part = "listings" => screen = "users"

ConsoleNext ==
    \/ IsEdits /\ E!Users
    \/ IsEdits /\ E!Roles
    \/ IsEdits /\ E!Tenants
    \/ IsEdits /\ E!Credentials
    \/ IsEdits /\ E!Tables
    \/ IsEdits /\ E!Fields
    \/ IsEdits /\ E!Lists
    \/ IsEdits /\ E!Contact
    \/ IsEdits /\ E!CancelEditor
    \/ IsEdits /\ E!CancelRemoval
    \/ \E i \in Items : IsEdits /\ E!ChooseRemoval(i)
    \/ \E i \in Items : IsEdits /\ E!Other(i)
    \/ \E a \in asks : IsEdits /\ E!Commit(a)
    \/ \E a \in asks : IsEdits /\ E!CommitConsent(a)
    \/ \E a \in asks : IsEdits /\ E!Read(a)
    \/ \E a \in asks : IsEdits /\ E!Refuse(a)
    \/ \E a \in asks : IsEdits /\ E!NotLoaded(a)
    \/ \E w \in answers : IsEdits /\ E!Done(w)
    \/ \E w \in answers : IsEdits /\ E!Throw(w)
    \/ \E w \in answers : IsEdits /\ E!Loaded(w)
    \/ \E r \in Rows : IsListings /\ L!Begin(r)
    \/ \E w \in open : IsListings /\ L!Commit(w)
    \/ IsListings /\ L!Tick
    \/ \E a \in listAsks : IsListings /\ L!Answer(a)
    \/ \E a \in listAsks : IsListings /\ L!Fail(a)
    \/ \E f \in L!Filters : IsListings /\ L!Search(f)
    \/ \E f \in L!Filters : IsListings /\ L!EditFilters(f)
    \/ IsListings /\ L!QuickAdd
    \/ IsListings /\ L!ApplyFilters
    \/ IsListings /\ L!LoadMembers
    \/ IsListings /\ L!MoreContacts
    \/ IsListings /\ L!MoreEntries
    \/ IsListings /\ L!MoreMembers
    \/ \E a \in listAnswers : IsListings /\ L!Receive(a)

ConsoleSpec == ConsoleInit /\ [][ConsoleNext]_<<part, editVars, listVars>>

\* The invariants of ConsoleEdits and Listings, on their instances.
OwnChangesStay == E!OwnChangesStay
DraftsSurvive == E!DraftsSurvive
EachRowIsListedOnce == L!EachRowIsListedOnce
SearchesAreNotMixed == L!SearchesAreNotMixed
=============================================================================
