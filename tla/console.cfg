\* Edits: two rows with one part, four requests, one write of another administrator.
\* Listings: three rows, pages of one, two milliseconds and writes, three requests.
SPECIFICATION ConsoleSpec
CONSTANTS
  None = None
  Gone = Gone
  New = New
  Form = Form
  Screens = {"users", "roles", "tenants", "credentials", "tables", "fields", "lists", "contact"}
  Items = {1, 2}
  Parts = {"p"}
  First = {1}
  Default = {2}
  MaxSent = 4
  MaxOpen = 2
  MaxOthers = 1
  Contested = {"roles", "tenants", "credentials"}
  Rows = {1, 2, 3}
  Listed = {"contacts", "audit", "members"}
  PageSize = 1
  MaxTime = 2
  MaxWrites = 2
  MaxAsks = 3
INVARIANTS OwnChangesStay DraftsSurvive  SearchesAreNotMixed
CHECK_DEADLOCK FALSE
