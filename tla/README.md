# Verification of open-emarsys

TLA+ specifications, model-checking configurations and machine-checked proofs
for open-emarsys: the job queue and handlers of the importer, the transactions,
sessions, consumers and background work of core, and the screens of the console
that edit and list what several people change at once.

Every definition is translated from the source. `PROJECT.json` names the lines
behind each one (`map`), the runs, the faulty variants that show each property
can fail (`mutants`), the findings, the hazards and the theorems.

Run a model with `tlc -config <run>.cfg <module>.tla`, check a proof with
`tlapm <module>.tla`.

## 1. The system

### 1.1 Components

| Component | State it keeps | Operations | Hard because | Module |
|---|---|---|---|---|
| importer, job queue (`services/importer/internal/jobs`) | rows of `importer.jobs`; per process: worker goroutines, reporters | enqueue, claim (SKIP LOCKED), handler, heartbeat and progress, finish, cancel, orphan recovery at start and by a janitor | several replicas, late heartbeats, crashes in a handler, failed COMMITs, cancellation at any time | `JobQueue` |
| importer, import handler (`imports/process.go`) | reading position, batch, senders, limiter slots, counts, `errors.csv` pipe | read row, flush, send with retries, stop, report | four senders, lost answers, cancellation and shutdown in flight | `ImportRun` |
| importer, imports routes (`imports/routes.go`) | uploads and drafts in the bucket, rows of `importer.jobs` | create, preview, start, cancel, public upload | two stores changed one after the other, start is check-then-act | `ImportDrafts` |
| importer, exports (`exports/`) | one object per job, notices | stream, CSV pipe, upload, notify, finish | two services fail independently in mid-stream | `ExportRun` |
| core, contact stream (`contacts-query/contact-stream.service.ts`) | a pool of four connections, a cursor per request | connect, fetch, wait for drain, end or cut | backpressure, clients that leave | `ExportRun` |
| core, contact write engine (`contacts-write/`) | `contacts`, `unique_values`, versions | write (create, update, upsert), delete | concurrent writers, statement snapshots of READ COMMITTED, retry after a lost race | `ContactWrites` (requests), `ContactEvents` (versions and events) |
| core, lists (`lists.service.ts`) | `lists`, `list_members` | add, remove, drop a list | neither locks nor versions the contact | `ContactEvents` |
| core, consents (`consents/`) | a history of rows per contact | the hook of a write | must follow the value | `ContactWrites` |
| core, outbox (`contacts-write/outbox.ts`) | `contacts.outbox`; per process: timer, loop, `again` | insert in the writer's transaction, kick, drain, send, delete | at-least-once over crashes, timeouts and several relays | `OutboxRelay` |
| core, fields and relational data (`fields/`, `relational/`) | definitions kept as JSON arrays, a cache per process, a purge in the background | define, extend, remove, purge, store values | read, extend and write back in separate statements; stale caches | `FieldDefinitions`, `ContactWrites` |
| core, GDPR (`gdpr.service.ts`) | requests, queues of the processes, exported files | export, forget, recovery at boot | database and object storage, several replicas at boot | `GdprRequests` |
| core, sessions (`auth/`) with the routes of the console | refresh-token families, recovery codes, counters; cookies | login, MFA, refresh, logout, settings | check-then-act at READ COMMITTED, one cookie jar for all tabs | `Sessions` |
| core, users, invitations, roles | users, their roles and invitation | update, remove, invite, accept, remove a role | checks apart from the writes | `Members` |
| core, OAuth, API clients, tenants; service tokens of ts-common | clients, revocation list, failure counter; a cached token | token, revoke, suspend, refresh ahead of expiry | tokens outlive what they were signed for | `Access` |
| consumers (`ts-common/nats`, audit, system fields) | durable consumers of JetStream | handle, ack, nak, dead letter; record and announce | redelivery while a handler runs, a loop nothing restarts | `EventConsumer` |
| console, imports and exports (`import-wizard.tsx`, `exports/`, `job-view.tsx`) | the step of the wizard, its draft, the job followed, a timer | upload, start, follow a job until it ends | answers of the job followed before, requests that fail half-way | `ImportDrafts` |
| console, screens that list | rows, cursor, the last request | search, filter, more | the list changes between pages, answers come in any order | `Listings` |
| console, screens that edit | table, editor, dialogs, controls | open, save, remove, load again | others edit the same rows, editors start from copies | `ConsoleEdits` |

### 1.2 How they interact

```
        console (screens that edit, screens that list, session routes), API clients
     |  imports, exports, cancel            |  contacts, lists, gdpr, users, roles, auth
     v                                      v
 importer routes --Enqueue/Cancel--> importer.jobs     core transactions
                                        ^  |               |  rows + event in
            heartbeat, finish, requeue  |  | claim         v  one transaction
                                     job queue          contacts.outbox
                                        |                  | relay (per process)
              +-------------------------+----+             v
              v                              v          JetStream --> consumers
        import handler                 export handler          (audit, system fields)
   batches, retries  \                /  stream of contacts
                      v              v  (service tokens)
                      core HTTP API (internal/v1)
```

The queue promises its clients the life of a job; the import handler relies on
core to apply a batch or not; the export handler relies on core to cut a
failed stream; writers of core rely on the outbox to publish what committed;
consumers rely on versions to order what arrives out of order; every service
relies on consumers to record its audited writes; the console relies on the
answers of core to know when its copy is old.

### 1.3 What makes each part correct

* Job queue: a job is executed by one goroutine at a time, starts no more often
  than allowed, never after it ended, succeeds only when all its rows reached
  core, and ends.
* Import: each row is counted once, on one side; success means every row was
  counted and reported; the run ends.
* Export: a published file is complete; every export ends.
* Drafts: a draft is started once; a queued job has its file, whichever request
  for it failed; the view of a job stops when it shows how the job ended.
* Events: the version orders the snapshots; every version is announced; a
  consumer that keeps the highest version ends with the row and its lists.
* Outbox: published if and only if committed; once per duplicate window; always
  in the end.
* Writes: one live owner per key; a removed field stays away; the history of
  consents follows the values; stored values keep their meaning.
* Sessions: one live token per session; a revoked session stays revoked; a code
  opens once; guesses are bounded; MFA is on only with a proved secret.
* Members and clients: an admin is left; who was put out stays out; a revoked
  or suspended client has no token for longer than the code says.
* Consumers and GDPR: what the server forgets was recorded or buried; every
  event lands and every request settles; an erasure leaves nothing.
* Console: a save does not take back a save; a draft is not lost; a list shows
  each row once.

## 2. The modules

| Module | Models | Code it follows |
|---|---|---|
| `JobLifecycle` | abstract: the life of a job its clients rely on | `store.go` |
| `JobQueue` | the queue of all replicas over `importer.jobs` | `store.go`, `queue.go`, `0001_jobs.sql` |
| `JobQueueProofs` | theorems about `JobQueue` | |
| `ImportRun` | one call of the import handler | `imports/process.go` |
| `ImportDrafts` | import routes over two stores, the wizard, the exports screen, the view that follows a job | `imports/routes.go`, `process.go`, `http.go`, `import-wizard.tsx`, `exports-screen.tsx`, `job-view.tsx` |
| `ImportsProofs` | theorems about `ImportDrafts` and `ImportRun` | |
| `ExportRun` | export jobs over the handler, core's stream and its pool | `exports/run.go`, `routes.go`, `core.go`, `contact-stream.service.ts` |
| `EventDelivery` | abstract: what the outbox promises a writer | `outbox.ts` |
| `OutboxRelay` | the relays of all core processes over `contacts.outbox` | `outbox.ts`, `CONTACTS.json` |
| `OutboxRelayProofs` | theorems about `OutboxRelay` | |
| `ContactEvents` | transactions on contacts and lists, their snapshots, and a consumer | `contacts-write.service.ts`, `lists.service.ts`, `gdpr.service.ts`, `outbox.ts` |
| `ContactEventsProofs` | theorems about `ContactEvents` | |
| `ContactWrites` | requests of the write engine, statement by statement, one custom unique field and its removal, consents | `contacts-write.service.ts`, `key-resolver.ts`, `fields.service.ts`, `field-registry.ts`, `consents.service.ts` |
| `ContactDataProofs` | theorems about `ContactWrites` and `FieldDefinitions` | |
| `FieldDefinitions` | choices of a field and columns of a table against the values stored with them | `fields.service.ts`, `field-registry.ts`, `relational.service.ts` |
| `Sessions` | one account: login, MFA, refresh, logout, lockout, and the cookies of its browsers | `auth.service.ts`, `auth.controller.ts`; the console's `middleware.ts`, auth routes and security settings |
| `Members` | users, roles and invitations of a tenant | `users.service.ts`, `invitations.service.ts`, `roles.service.ts` |
| `Access` | client tokens, their revocation, a suspended tenant, service tokens | `oauth.service.ts`, `api-clients.service.ts`, `tenants.service.ts`, `service-token.ts`, `verifier.ts` |
| `AccountsProofs` | theorems about `Sessions`, `Access` and `Members` | |
| `EventHandling` | abstract: what a consumer promises to those who write | `consumer.explorer.ts` |
| `EventConsumer` | durable consumers, the audit trail, the fields of a new tenant | `consumer.explorer.ts`, `publisher.ts`, `audit.interceptor.ts` of ts-common, `audit/` of core |
| `BackgroundProofs` | theorems about `EventConsumer` and `GdprRequests` | |
| `GdprRequests` | requests of one contact, the queues of the processes | `gdpr.service.ts`, `export-storage.ts`, `relational.service.ts` |
| `Listings` | a list that changes and a screen that pages through it | `contacts-query.service.ts`, `audit-log.controller.ts`, `lists.service.ts`, `contacts-screen.tsx`, `list-detail.tsx`, `audit-view.tsx` |
| `ConsoleEdits` | the screens that edit rows | `users-screen.tsx`, `roles-screen.tsx`, `tenants-client.tsx`, `credentials-view.tsx`, `relational-screen.tsx`, fields, lists, `contact-detail.tsx` |
| `ConsoleProofs` | theorems about `ExportRun`, `Listings` and `ConsoleEdits` | |
| `MCJobQueue`, `MCExportRun`, `MCOutboxRelay`, `MCContactEvents`, `MCSessions` | the instances TLC checks: model values and symmetry | |
| `MCImports`, `MCAccounts`, `MCContactData`, `MCBackground`, `MCConsole` | two components in one run each | |

`JobQueue` implements `JobLifecycle`, `OutboxRelay` implements `EventDelivery` and
`EventConsumer` implements `EventHandling` (the abstract `Spec` is a PROPERTY of a
run and a theorem).
`ImportRun` and `ExportRun` see the queue through what a handler can observe of
it: a cancellation, a shutdown, another run; `ImportDrafts` sees a job as its
status, which `JobLifecycle` governs, and may run by itself because the routes
add jobs and never change one but to cancel it. `ContactEvents` sees the relay as
`EventDelivery` lets it: every committed event, in any order (duplicates are
harmless to a consumer that compares versions).

The modules of the last row run `ImportDrafts` beside `ImportRun`, `Members` beside `Access`,
`FieldDefinitions` beside `ContactWrites`, `GdprRequests` beside
`EventConsumer` and `Listings` beside `ConsoleEdits`. The components of a pair
share no state in the code either, so a behaviour is about one of them: `part`,
chosen at the start, says which, and the variables of the other do not change.
Each module names its own actions; the pair lists them one by one. `MCConsole`
has its two components as instances, `L` and `E`, as their variables have the
same names; its own `OwnChangesStay`, `DraftsSurvive`, `EachRowIsListedOnce` and
`SearchesAreNotMixed` are those of the two.

### 2.1 JobQueue

`status`, `attempts`, `progress` and a heartbeat that is fresh or stale are the
columns of a row. A worker goroutine is a `(replica, slot)` and goes through
`idle`, `claiming` (the transaction of `claim` holds the row lock), `handling`
and `finishing`. `Claim`, `ClaimCommits`, `ClaimRollsBack` and
`ClaimCommitLost` split the claim at its COMMIT: `claim` scans the row before
it commits and returns the job together with the error of the COMMIT, so
`ClaimCommitLost` runs a job whose row is still queued. `HandlerSucceeds` and
`HandlerFails` end a handler, `Finish` and `FinishLost` the row. `Janitor` is
`requeueOrphans` on a timer, `Restart` the same statement (it takes stale jobs
only) before the workers of a new process start, as in `Queue.Run`.
`HeartbeatAges` makes the heartbeat older than `Stale`; the switch
`LateHeartbeats` says whether that may happen to a job that is being handled.
`ClaimCommitFails` switches the lost COMMIT.

### 2.2 ImportRun

The reading loop, the errgroup of `Concurrency` senders, the limiter of the
tenant (other jobs of it hold slots too), `post` with its retries, and
`errors.csv`. Core is external: a request is applied or not, and the answer may
be lost either way (`Unanswered`), so a retry meets rows that exist already.
With mode `create` those come back as errors, with `upsert` as ok; mode
`update` behaves as `upsert` does here and has no run of its own.
`FlushCancelled` is the check of the job's status in `flush`.

### 2.3 ExportRun

Contacts are counted in batches of one FETCH. A request of core holds a
connection of the pool from `Connect` to `Return`, `QueryFails` or a restart;
`Fetch` writes a batch and waits for the response to drain when it is full.
The importer copies batches into the upload; `Publish` is the completed upload,
`BodyCut` the aborted one, `CopyFails` an upload that fails first, which closes
the response. `Notify` and `Finish` are two steps, as in the code. `Recover`
gives a job that lost its process its next run (`JobQueue` shows when).

### 2.4 OutboxRelay

A row id is made before its transaction commits, so `Commit` may add a smaller
id later than a larger one. `pc` is where the loop of a process is (`idle`
means `this.running` is unset, `done` is the moment between the end of the
loop and its `finally`), `again` the flag of `kick`. The transaction of `drain`
is `Select` (FOR UPDATE SKIP LOCKED), one `Send` per row and `Delete` with the
COMMIT; `TransactionTimesOut` frees the rows while the loop of sends goes on.
`SendFails` covers both a message the stream did not get and an answer that was
lost. JetStream is external: it stores a message unless it remembers its id,
and `WindowPasses` makes it forget the ids.

### 2.5 ContactEvents

A session is a request. Its transaction is `Begin` (the reads before the first
change), `Change` (the statement that takes row locks, waits for others and
sees what they committed), `Announce` (the snapshot of `ContactsOutbox` and the
event id) and `Commit` or `Rollback`. `RowClash` and `ListClash` are the lock
conflicts of Postgres between those statements: FOR UPDATE, UPDATE and DELETE
of a contact exclude each other, the foreign key of a new membership (FOR KEY
SHARE) conflicts with FOR UPDATE and DELETE but not with the UPDATE of a soft
delete, whose columns are in no unique index a foreign key can use. A write
that lost its contact retries and then creates another one; that is another
contact, so the operation ends here and is followed in `ContactWrites`. Every
write sets a field of its own, so "the fields of the row" is "every write that
committed". `Publish` is the stream and the rule of
`contracts/events/contacts.upserted.schema.json`: the snapshot with the highest
version replaces the copy.

A change of the lists has no version of its own, so the snapshots of two of
them are not ordered. The ghost `mixed` collects the contacts this can happen
to: those two transactions were about at once, and those with events delivered
out of order. For all others the consumer must end with the lists.

### 2.6 ContactWrites and FieldDefinitions

A request of `ContactWrites` reads outside its transaction (`ResolveKey`,
`CheckUnique`, with the definitions its process has cached) and then runs it in
one step: `Write`, with the locks and unique indexes deciding whether it commits,
is refused or starts again (`Retry`, `Attempts`). The custom field is created
and removed by `ChangeField` and `AnswerField`; the answer invalidates the cache
of its own process only, and the removal starts a purge (`StartPurge`,
`CommitPurge`) that a restart loses. `owner` is `unique_values`; `consent` is
the last row of each contact's history, written by the hook in the same
transaction.

`FieldDefinitions` reads the choices or columns in one step and writes them back
in another, as `updateChoices` and `updateTable` do; a value or a row is
checked against what was read and stored later. A value is a choice id; `meant`
remembers the label it stood for. `raced` marks, per part, that something was
written after what it had been read from changed.

### 2.7 Sessions, Members and Access

In `Sessions` each handler is a chain of database statements, one action each
(`Claim`, `LoadUser`, `Issue`, ...); another request can run between any two,
and `Fail` ends one anywhere. A browser has one cookie jar: it is read when a
request starts and written when its answer arrives, whatever happened between
(`Reply`).

`Members` keeps the check of a handler (`Count`, the readings of `Begin...`)
apart from its transaction (`WriteUpdate`, `WriteRemove`, ...). The ghost
`raced` says that a request acted on a reading another one had overtaken and
took an admin away.

`Access` counts ticks. `AskToken`, `ReadClient`, `CheckSecret`, `Sign` are the
steps of a token request, `Revoke` and `PublishRevoked` those of a revocation;
`GetToken`, `SignService`, `Answered` and `FetchFails` the cached service token
with one request in flight for all callers.

### 2.8 EventConsumer and GdprRequests

`stream` is the server: an event is ready, pending with a process, answered, or
spent after `MaxDeliver` deliveries; `Expire` takes it from a process that is
late, which goes on with it all the same. `Loop` is the body of `for await`,
one event of a consumer at a time. `Die` is the end of a process, with what it
held: a crash, a stop, or the rejection of a promise nobody awaits, which is
what a dead letter that cannot be published does (`BuryFails`), and what an
audit entry that cannot be written does (`AnnounceFails`). The attempt of the code
(`redeliveryCount + 1`) is the number of the delivery, as its integration test has
it (two deliveries with `maxDeliver: 2`). `Tries` and `Answered` are what
`EventHandling` sees of the stream.

In `GdprRequests` a process has a queue and runs one request at a time
(`Claim`, `Read`, `Put`, `Mark` for an export, `Erase`, `Clean` for a forget);
`Restart` takes every request it finds open, also those another process runs.
`Break` is a failure inside a run and `Fail` the write that reports it.
`ResolveRows` and `WriteRows` are a relational upsert that resolved the contact
before it was erased.

### 2.9 Listings and ConsoleEdits

The server of `Listings` orders rows by time and id; a transaction (`Begin`,
`Commit`) has the time of its start and becomes visible later. `Search`,
`EditFilters`, `ApplyFilters`, `LoadMembers` and `More...` are what the screens
do, `Answer` what the server reads, `Receive` what the screen makes of it,
which drops a superseded answer where the code does. A walk is a first page and
the pages appended to it. `shown` counts how often a row is in the table; the
order of the rows of a table is that of the server.

`ConsoleEdits` has one set of rows, `table` (the copy), `editor` (a draft and
where it came from), `target` of a dialog and the controls that are `busy`. The
handlers of each screen are `Users`, `Roles`, ..., `Contact`; `Send` is their
request, `Commit` and `Read` the server, `Done`, `Refuse`, `Throw` and `Loaded`
the answers, with what each handler does then. `Other` is another
administrator.

### 2.10 ImportDrafts

A draft and the file it is for have one name, an id of `upload-url`; a request
and the job it queues have one as well. `objects` are the files in the bucket,
`mark` the job named in a draft's own object, `row` the status of a job.

A wizard goes through `PutFile`, `CreateDraft` and `Preview` (one button, three
calls; `UploadFails` ends it anywhere), the steps of its form (`GoTo`), and
`ClickStart`. `start` is `LoadDraft` (the look at the mark), `Reject` (the body
or the mapping is refused), `Enqueue` (the INSERT) and `MarkDraft`;
`publicImport` is `StoreUpload`, `Enqueue` and, after an error, `Discard`;
an export is its `Enqueue`. `EnqueueFails` is an INSERT that failed or one whose
answer was lost, `Dies` the end of the process anywhere in between. Errors of
`RemoveObject` and of writing the draft are ignored, as in the code.

`Watch` is what the prop of `JobView` does: its effect runs again only for
another id. `Poll` is a tick, `TakePoll` an answer: an answer for a job that is
no longer followed is dropped (the effect was cleaned up), one with a status is
shown and stops the timer if the job ended, and after a 404 the timer is set
again. The wizard passes the id of the draft, not the one `start` answered.

The ghost `excused` collects the drafts a second start may find unmarked:
two starts read it at once, or the first could not write its mark or see its
INSERT commit. `unknown` collects the jobs whose COMMIT was not answered.

## 3. What is checked

| Run | Instance | Shows |
|---|---|---|
| `jobqueue_faults` | 2 jobs (one of a kind without handler), 2 replicas, late heartbeats, lost COMMITs, 1 crash, 1 fault, fair | the queue implements `JobLifecycle`; a success is complete; every job ends |
| `imports` | a wizard and its upload, a screen of exports, 2 requests of any kind, 2 faults; or 6 rows, batches of 2, 2 senders, 1 retry, another job at the limiter; fair | a second start is explained, a queued job has its file, a view that stopped shows the end, an export is shown to its end; no row is counted twice, a success accounts for all, the run of the handler ends |
| `export` | 2 exports, 3 connections, 2 batches, 2 runs, 2 faults, fair | no partial file; every export ends |
| `relay` | 2 processes, 2 events, batches of 2, 1 crash, 2 faults, 1 window, fair | the relay implements `EventDelivery`; every event is delivered |
| `events` | 2 contacts, 2 lists, 3 requests at once, 4 operations, events in any order | versions order the fields, every version is announced, the replica ends with the fields, and with the lists of the contacts whose transactions did not overlap |
| `sessions` | 1 browser, 2 requests at once, 3 tokens, 2 families, 2 recovery codes, 2 secrets, lock after 2 failures, 5 requests | one live token per session, revocation lasts, codes open once, guesses are bounded, MFA has a proved secret, no session ends by the console's own doing |
| `accounts` | 3 users, 2 emails, 2 roles, 5 requests; or 1 client, 4 ticks, lifetimes of 2, 3 requests | an admin remains, who was put out stays out; a revoked client and a suspended tenant stay out, handed tokens work |
| `contactdata` | 2 contacts, 1 email, 1 value, 2 processes, 4 requests; or 1 contact, 2 labels, 2 columns, ids up to 3, 4 requests | a key has one owner, a purged field stays away, the history follows; values keep their meaning, rows fit their table |
| `background` | 2 processes, an entry, a write of core and a tenant (2 of them written), 2 deliveries, 2 faults; or 2 GDPR requests, 2 faults; fair | the consumers implement `EventHandling`, every event lands; an erasure is complete, every request settles |
| `console` | 8 screens, 2 rows, 1 part, 4 requests, 1 write of another administrator; or 3 lists, 3 rows, pages of one, 2 times, 2 writes, 3 requests | saves and drafts survive; each row is listed once, searches are not mixed |

Two runs find a property violated (section 5): `export_drain` and
`drafts_screen`.

Several properties name an exception in a ghost variable (`raced`, `mixed`,
`lost`, `unmarked`, `mishap`, ...). Each is the exact step at which the code
gives the promise up, and the comment of the property names its line; a
property with its exception says that there is no other way. The mutants show
that the exception does not swallow the property.

### 3.1 Bounds, and why they are enough

* Two replicas, processes or requests at a time: every interference in the code
  is between two (a claim and a janitor, two relays, two refreshes, a write and
  a purge). A third one meets the same row locks. `events` has three, because a
  deletion may come between two writes. The theorems of section 4 hold for any
  number.
* `MaxCrashes`, `MaxFaults`, `MaxWindows` bound crashes, failed calls and
  windows. Two failures reach a failure during the recovery from another;
  counters only grow with them, no guard compares them with anything else.
* `Rows = 6`, `BatchSize = 2`, one malformed and one rejected row give full
  batches, a last partial one and two batches in flight behind a third.
* `Batches = 2`, `HighWater = 1` make the response full before the last FETCH.
* `Rows = 2`, `Batch = 2` of the relay give a full batch, which makes the loop
  go on, and a batch of one, which ends it, also with a second event that
  commits while the first is sent.
* `MaxOps = 4` of `events` contains two conflicting writes next to a deletion,
  and every pair of operations on one contact with two contacts in one list.
* Five requests of `sessions` are a login, two refreshes that race, a logout
  and a change of settings; three tokens are a rotation that races with
  another; two failures before a lock let guesses in flight pass the threshold.
* `Pool = 3` in `export` is more than the connections two faults can take out
  of the pool (finding 1); with as many faults as connections an export waits
  for ever. `export_drain` needs one connection only.
* Three users of `accounts` are two administrators who remove each other and a
  user who becomes one. Four ticks with lifetimes of two, a tolerance and a
  skew of one let a token be signed, be revoked or its tenant suspended, and
  run out.
* Two contacts and one email or value in `contactdata` compete for it; four
  requests are two writers, a removal of the field and a write with old
  definitions, or two updates that hand out the same id and a value between.
* `MaxDeliver = 2` in `background` has a delivery that is retried and one that
  is the last; two faults let the dead letter fail after the handler did.
* `MaxSent = 4` of `console` is a save, a load that overtakes it, a second save
  and one of another screen control; others write on the screens of roles,
  tenants and clients (`Contested`), one for each way the code loads its table
  again. Three rows with pages of one have a first page, a middle and an end;
  two times force ties that the id decides.
* One draft of `imports` is all that one wizard has at a time (a failed upload is
  repeated under a name of its own and meets nothing of the first); two
  requests are two starts of one draft, a start beside an export, or two exports
  of which the screen follows the second; two faults fail a request and the
  removal after it.

`Symmetry` is used where a run has model values that nothing orders and checks
no liveness.

CHECK_DEADLOCK is off where the system really stops: all jobs ended, the
handler returned, or the requests of the bound are used. It is on for the
relay, whose timer never stops.

### 3.2 Fairness, and why the code justifies it

* `JobQueue`: workers poll in a loop, handlers process their rows, the janitor
  ticks, the orchestrator restarts a process (weak fairness each). A heartbeat
  ages when nobody works on its job.
* `ImportRun`: the goroutines run, a request is answered or times out, slots
  of the limiter are handed out in turn, and other jobs release theirs.
* `ExportRun`: goroutines and event loop run what is ready (weak); `pg.Pool`
  serves its waiters in order (strong fairness of `Connect`, since a
  connection is taken and given back repeatedly).
* `OutboxRelay`: the interval fires, queries return, and a process that ended
  is started again. Kicks by writers are not assumed: the timer must do.
* `EventConsumer`: the loop of a process takes what it holds, its publishes and
  records end, the server delivers and expires, a process that ended is started
  again (weak).
* `GdprRequests`: the queue of a process goes on, a process that ended is
  started again (weak).
* `ImportDrafts`: the timers and callbacks of the browser run, the queue claims
  and finishes jobs (weak; `jobqueue_faults` shows that every job ends).

Nothing is assumed of failures, cancellations, clients, users or
administrators. `Sessions`, `Members`, `Access`, `ContactWrites`,
`FieldDefinitions`, `Listings` and `ConsoleEdits` answer requests and promise
nothing without one: only safety is checked of them.

## 4. What is proved

Checked by TLAPS for every value of the constants, under the named assumptions
of the modules only (counts are naturals, limits positive, `None` and `NoJob`
are no members of the other sets). A theorem about one component of a pair is about
that component's own `Spec`, over the variables the pair gives it.

`JobQueueProofs`
* `TypeCorrect`, `AttemptsBounded`, `ClaimsExclusive`: from `TypeInv`, which
  adds to the types that a worker not idle has a job (`HoldsAJob`). The three
  need each other: a commit of a claim keeps the attempts in their bound only
  because the claimed row is still queued, and it is queued because no other
  claim has it.
* `SuccessIsComplete`: from `CompleteInv`, which adds that the rows a run has
  done are in core and counted (`RunsAreCounted`) and that a handler about to
  finish with success has done all (`ResultsAreHonest`). The invariant speaks
  of every run, since one given up on may still write the row.
* `EndedStaysEnded` (an action property), from `TypeInv`.
* `AtMostOneRun`: with heartbeats on time and claims that commit, from
  `OneRunInv`, which adds that a job being handled has a fresh heartbeat
  (`HeldIsFresh`), so no orphan recovery takes it.
* `Refinement`: every step is a step of `JobLifecycle` or a stutter.

`OutboxRelayProofs`
* `TypeCorrect`.
* `StoredOnce`: from `WindowInv`, which counts the copies of an id by whether
  the stream remembers it.
* `NothingLost`: from `RelayInv`. `BatchInv` says that what a process has
  already sent of its batch was delivered, also after its transaction timed out
  and another process took the rows; it is what makes the DELETE safe.
* `Refinement`: `Delete` maps to `Settle`, a send to `Deliver` or a stutter, a
  commit to `Accept`.

`AccountsProofs` (over `Sessions` and `MCAccounts`, where the operators of `Access` are
`A!...` and those of `Members` `M!...`)
* `SessionsTypes`, `OneLiveToken`, `RevokedForGood`: from `SInv`. A family has
  at most one holder (`OneHolder`): a live token, or a request between its
  claim and its issue, which is about to create one; two claims of one token
  exclude each other, since the statement that claims also rotates. `ClosedInv`
  says of a revoked family that it has neither, and `FamiliesInv` and
  `CookiesInv` that requests and cookies only name tokens that were issued, so
  no new token can enter it.
* `CodesOpenOnce`: a code that opened a session, or is opening one, is used.
* `GuessesBounded`: from `GuessInv`. A wrong guess is counted or still with its
  request, and the count reaches the threshold only while a request is about to
  lock the account.
* `MfaConfirmed`: from `SettingsInv`, which says what each change of the settings
  has read and is about to write, for changes that do not overlap.
* `SessionsLast`: from `ConsoleInv`. A token is in one place (an answer, a cookie),
  one refresh of a session is in flight at a time and only it uses the token,
  and what is revoked was logged out.
* `StoppedClientsStop`, `HandedWork`: from `AccessInv`. No client had been stopped
  when a token that is not late was signed (`SignedInv`), which rests on what its
  request read before (`DecidedInv`). The answer that fills the cache of service
  tokens is no older than `Latency` (`ServiceInv`), so the token lasts as long as the
  cache holds it, given `Latency <= Skew + Tolerance` (`AccessAssumption`).
* `MembersTyped`, `AdminStays`, `BarredStayOut`: from `MembersInv`. A request that
  takes an admin away has checked that others remain, and they do until another
  request changes the admins, which is then a race (`CheckedInv`); the default role
  stays (`RoleInv`). A user barred for good has no open invitation and no acceptance
  under way (`BarredInv`).

`BackgroundProofs` (over `MCBackground`, where the operators of `GdprRequests` are `G!...`)
* `TypeCorrect`, from `StreamInv` and `HeldInv` (only published events are held).
* `AnsweredKept`: from `LoopInv`. What a process is about to acknowledge is
  recorded and what it is about to give up is buried, also after the server took
  the event from it.
* `Refinement`: a step maps to `Write`, `Try`, `Keep`, `Bury` or `Answer`, or to a
  stutter. From `HandlingInv`, which adds that a process holds a delivery the server
  counted, and the last one if it is to be buried (`TriesInv`), so a late process
  buries no sooner than one in time.
* `ErasureComplete`: from `ErasureInv`. While the contact is there every request is
  linked to it (`LinkedInv`), so the erasure sees every key that was recorded; a
  request it erases a second time was created after the first erasure, by a process
  that had seen the contact before. Uploads are of requests that exist (`ClaimedInv`).

`ContactDataProofs` (over `MCContactData`, where the operators of `FieldDefinitions` are `D!...`)
* `TypeCorrect`, `OneOwnerEach`: from `KeysInv`. Every live contact's value has
  that contact as its owner until the field is removed (`OwnsInv`), two live
  contacts have no email in common (`EmailInv`), a contact that was never created
  has neither (`FreshInv`).
* `PurgeCleans`, `HistoryIsKept`: from `PurgeInv`. Once a purge has locked its
  rows, every other contact with a value was given it after the removal, and that
  remains so after its commit; the history ends with what a request found.
* `DefinitionsTyped`, `ValuesMean`, `RowsFitted`: from `DefinitionsInv`. An update
  of a field leaves out no choice that was in use when it read (`RequestedInv`) and
  the id it gives is free (`NextIdIsFree`, from the well-foundedness of the naturals),
  so what a value meant (`MeantInv`) changes only if the update was overtaken; rows
  that were checked and are not stored yet fit, too (`FitInv`).

`ContactEventsProofs`
* `TypeCorrect`, `VersionsOrder`, `EveryVersion`: from `HistoryInv`. One transaction
  at a time changes the row of a contact (`LockInv`), so what it found and merged is
  true until its COMMIT (`FoundInv`), and the snapshots that were taken, committed or
  not, are no newer than the row and ordered by their versions (`SnapshotsInv`).
  The property alone is not inductive: the snapshots of list changes are taken
  without a lock on the row, some time before they are in the log.
* `Replica`: from `CopyInv` (a copy is a snapshot, no older than any that was
  published) for the fields and from `ListsInv` for the lists. Transactions about a
  contact that did not overlap (`AloneInv`) announce its lists as their COMMIT leaves
  them (`PendingInv`), the ids of its events follow their commits (`IdsInv`), and the
  last event tells the lists (`LatestInv`).

`ConsoleProofs` (over `ExportRun`, and over `MCConsole`, where the operators of `Listings` are
`L!...` and those of `ConsoleEdits` `E!...`)
* `TypeCorrect`, `FilesAreComplete`: from `FileInv`. A response ends only after
  everything was fetched (`StreamsInv`), what a run has read and what is buffered
  for it is what was fetched for it (`CopyInv`), and a run to come has fetched
  nothing (`RunsInv`).
* `RowsListedOnce`: from `ListInv`. An answer has, of the rows nobody wrote since
  it was read, those between its cursor and the next one (`PageInv`), however the
  other rows move while it is on its way. That a page divides what was found
  rests on `PageSplits`: a set of rows has a newest and an oldest one (`Least`, from the
  well-foundedness of the naturals), and the rows with fewer than `PageSize` newer
  ones are those up to the last of them.
* `SearchesKeptApart`: from `LastInv`. The last request replaces the table or starts at
  its cursor with its filter; all others are dropped, as requests have different
  numbers (`NumbersInv`). The exception is `eager`: more was asked for before the first
  page was there.
* `DraftsKept`: from `WireInv`. An editor that is older than a request is the one the
  request was sent with (`Kept`).
* `SavesStay`: from `TableInv`. What an editor started from was the row once, and
  everything that is different by now was written later than what this screen
  knows to be done (`Fresh`). This holds of what is in an editor, in a request, on the
  way back and in the table. The screen of tenants puts the row of an answer in its
  table and loads nothing: there it needs that one write is under way at a time
  (`OneWrite`, `DialogInv`) and that an answer is newer than what was done (`AnswersInv`).

`ImportsProofs` (over `MCImports`, where the operators of `ImportRun` are `R!...`)
* `TypeCorrect`, `SecondStartExplained`, `FileKept`, `EndIsShown`: from `IInv`. A
  draft that may be started was created and has its upload (`DraftsInv`); one that
  is not excused has one start that may go on, and then no mark (`StartsInv`); a
  public import keeps its upload until its request fails (`FilesInv`); an answer
  that says how a job ended stays true (`ViewInv`).
* `RunTypeCorrect`, `RowsOnce`, `SuccessAccounts`: from `RunInv`. A row that was
  read is in one place at most (`PlacesInv`: the batch, one sender, or counted
  once) and, until a sender fails or the cancellation is noticed, in one at least
  (`KeptInv`); the report has the rows that failed (`ReportInv`); where the
  handler is tells what is left to do (`EndInv`). `EachRowOnce` alone says nothing
  of the rows on their way, and `SuccessAccountsForAll` nothing before the end.

No run checks the types, `ClaimsAreExclusive`, `AttemptsAreBounded`,
`EndedNeverRuns`, `OneRunPerJob`, `StoredOncePerWindow`, `PublishedIffCommitted` and
`AnsweredIsKept` (which `ImplementsHandling` implies): the theorems say more than
an instance could.

Only model-checked: liveness under fairness and ENABLED, which are out of reach
of the prover (each run's temporal properties but the refinements). Every safety
invariant a run checks is a theorem. No module needs a recursive operator.

## 5. Findings

Two are shown by a run:

1. `export_drain`: a client that leaves while core waits for the response to
   drain is never noticed (contact-stream.service.ts:59); the stream does not
   resolve and keeps one of four connections.
2. `drafts_screen`: the wizard follows the id of the draft instead of the id of
   the job that `start` answered (import-wizard.tsx:368): the importer has no such job
   and the view asks for ever. job-view.tsx:10 says it stops at the end of the job.

Others were met while modelling and are what the exceptions of the properties
describe:

* The notice of an export is published before its row is finished
  (exports/run.go:27) and may contradict it.
* List changes publish snapshots without a new version (lists.service.ts:233);
  two at once leave a consumer without one of the lists. Dropping a list
  announces its soft-deleted members again (lists.service.ts:130).
* Choice ids are given again when the last choice is removed
  (fields.service.ts:39; the comment at line 37 says they are not), and an
  overtaken update or a stale cache then gives values another label.
* Two administrators who remove each other at once leave a tenant without an
  admin (users.service.ts:50), and a renamed default role switches the check
  off (users.service.ts:90).
* A dead letter that cannot be published ends the process
  (consumer.explorer.ts:118); the events it held at their last delivery are
  never tried again.
* An export of personal data uploaded by a second process after the erasure is
  left behind (gdpr.service.ts:143), as is one whose removal failed after the
  erasure committed (line 146).
* `claim` returns the job together with the error of a failed COMMIT and `work`
  runs it (queue.go:120): the row stays queued, the run is not counted, and the
  job can run more often than `MaxAttempts` (the comment at queue.go:50).
* `start` reads the draft, queues the job and only then marks the draft
  (routes.go:282 to 297); a second click meanwhile (import-wizard.tsx:363: the button
  stays enabled) queues a second job for the same file. The contract answers the
  second start with 409 (importer.yaml:110).
* The importer answers `succeeded` (store.go:21, 0001_jobs.sql:9), its contract
  (importer.yaml:313) and the console (api.ts:5) know `completed`; the view stops
  on any status that is not waiting, and so shows it all the same.
* `publicImport` removes its upload after every error but a malformed body
  (routes.go:357).
* The console polls an export while it is `queued` or `running`, but core
  answers `pending` (gdpr-actions.tsx:19): it never polls.

## 6. What is not modelled, and why

* The Go consumer of `libs/go`: no service calls it. The NestJS one is.
* Parsing, validation, rendering, HTTP, token formats and telemetry: data or
  libraries. They appear as the outcomes they can have (a malformed row, a
  rejected row, a failed call, a right or wrong secret).
* Batches of several contacts in one write: one transaction over several
  contacts, which locks them in an order of its own. Deadlocks between two of
  them end one with an error, as `Fail` does.
* Profiles, lookups and other reads that change nothing and are one statement.
* Object storage keeps or does not keep an object; multipart uploads are atomic.
* Postgres and JetStream are taken at their word: row locks, statement
  snapshots, foreign keys, the duplicate window, delivery counts.
* Tenants do not interact except through the limiter and the pools; one tenant
  is modelled.
* The pages of the tenants and clients screens, the secret shown once, forms
  that keep nothing after their request, the mapping
  the wizard suggests, and the tables of past jobs.

## 7. The plan

Written, in this order: `JobLifecycle`, `JobQueue`, `ImportRun`,
`EventDelivery`, `OutboxRelay`, `ContactEvents`, `ExportRun`, `Sessions`,
`Members`, `Access`, `ContactWrites`, `FieldDefinitions`, `EventConsumer`,
`GdprRequests`, `Listings`, `ConsoleEdits`, `ImportDrafts`, `EventHandling`.

Next: liveness by refinement, that is, abstract specifications with fairness for the
ends that are only model-checked, should a prover for them be at hand; and the
transactions over several contacts that section 6 leaves out.
