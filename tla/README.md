# Verification of the notification relay

TLA+ models of the notification relay, the TLC runs that check them on small
instances, and TLAPS proofs of all the safety properties for instances of any size.
Line numbers refer to `src/`.

## The system

The relay is one process around one SQLite database. The database has a single
writer connection (`db/connect.go:30`), so each query is atomic, and one after the other.

| Component | State | Operations | Hard because |
|---|---|---|---|
| Publish handler (`api/handlers.go`) | rows of `events`, `notifications`; the job channel (256) | validate, resolve or create the event, end it, insert the notification, offer the job | the queue may be full after the row was stored; the event may change under it |
| Dispatcher (`notify/dispatcher.go`) | worker goroutines, the semaphore, one goroutine per delivery; `notifications.status`, `deliveries` | take a job, expand groups and destinations, send with retries, record, close | two levels of concurrency, many exits, lost provider answers, cancellation, crashes |
| Poller (`notify/poller.go`) | `deliveries.status`, `poll_attempts` | list rows in flight, ask Twilio, settle or give up; recheck given-up rows at start | two goroutines over one table, counting and giving up are two queries |
| Events and sweeper (`api/resources.go`, `notify/sweeper.go`) | `events` | create, update, end; close what is open too long | every handler reads first and writes later |
| Subscriptions (`api/subscribe.go`, `api/subscriptions.go`) | `sms_subscriptions` | subscribe, unsubscribe, by web form or API; the welcome SMS | check, insert, welcome and delete are queries of their own; names are compared in two ways |
| Admin tables (`api/sync_groups.go`, `api/templates.go`, `api/cram_credentials.go`) | `sync_groups`, `email_templates`, `smtp_cram_credentials`, `audit_log` | create, update, delete; each with an audit entry | check in one query, write in another, audit in a third |
| Directory sync (`ldap/sync.go`, `ldap/client.go`) | `group_members` | list groups, drop what is not listed, find a group and then its members, replace them in a transaction | the list is read at the start of a cycle; the directory changes between two queries of one search, and its backup lags behind; the transaction holds the only writer connection |
| Authentication (`ldap/auth.go`, `ldap/cache.go`, `api/middleware.go`) | LRU list and index with expiry | look up, search, bind, store; groups to roles to permissions | two structures that must stay in step; the directory changes in between |
| UI sessions (`api/ui_session.go`, `api/ui_auth.go`) | map of tokens, sliding expiry | create, get, delete, sweep | the sweeper takes the time before the mutex |
| SMTP ingestion (`smtpapi/`) | per-connection session | AUTH, MAIL, RCPT, RSET, DATA | one message becomes several jobs, the queue may fill half way |
| Template rendering (`notify/template.go`), configuration, logging, web pages, `nrcli` | – | – | functions of their input, or no state |

Components talk through the database and the job channel. The signal context
cancels the workers' queries, retries and tickers; HTTP handlers run on the
request's own context and Twilio requests on none.

What makes each component correct:

- **Dispatcher**: tokens are neither leaked nor returned twice; a row is unique per
  target and tells the truth about the provider; a closed notification is finished;
  "completed" means every target has its row; enqueued jobs are closed.
- **Poller**: one goroutine at a time has a row in hand; terminal statuses are the
  provider's and final; a row is given up exactly at the limit; every row settles.
- **Events**: what a caller was told stays true; an ended event never opens again;
  the sweeper gets to whatever is left open; ending twice and partial updates do what
  the API says (they do not, see *Findings*).
- **Subscriptions**: registrations and rows agree one to one; a queued welcome message
  passes the dispatcher's gate; who unsubscribed is gone (it is not, see *Findings*);
  nobody gets an SMS without an active subscription (neither).
- **Admin tables**: what an administrator was told stays true until another changes it;
  the audit log accounts for the rows. **Sync**: stored members are a snapshot of the
  directory; a group off the list loses them for good, one on it is mirrored in the
  end, and loses everybody at once only if it was removed or moved (see *Findings*); nobody waits for the writer for ever.
- **Authentication**: list and index agree and implement an expiring map; nobody is let in
  on what was not true lately. **Sessions**: gone when they must be, there when they may be.
- **SMTP**: the answer tells what became of the message, and a message reaches whom its
  client named for it.

## Modules

| Module | Models |
|---|---|
| `Lifecycle` | the abstract specification: what a reader of the API sees of a notification and its deliveries |
| `Dispatcher` | publishing and dispatching, with shutdown, restart and failing queries |
| `DispatcherTypes`, `DispatcherProofs`, `DispatcherRefines` | proofs about `Dispatcher`, each extending the one before |
| `Poller` | the status poller |
| `Events` | events: handlers, publishing's part, the sweeper |
| `PollerProofs`, `EventsProofs` | proofs about `Poller` and `Events` |
| `Directory` | the LDAP directory, the clock and the faults everything below reads; external |
| `Registry` | the handlers of the admin tables |
| `GroupSync` | the group syncer, extending `Registry`: they share tables and writer connection |
| `GroupMirror` | the abstract specification of the syncer: `group_members` as its readers see it |
| `AuthCache` | the list and the index of the authentication cache |
| `ExpiringMap` | the abstract specification of that cache |
| `Access` | Basic requests, logins and UI sessions, over `Directory` and `AuthCache` |
| `DirectoryServices` | `GroupSync` and `Access` composed, with crashes |
| `AccessProofs`, `RegistryProofs` | proofs about `DirectoryServices`: authentication and sessions; tables, syncer and types |
| `JobQueue` | the dispatcher's channel as its producers see it |
| `SmtpSession` | e-mail as a way in |
| `Subscriptions` | the subscription handlers and the welcome message |
| `Intake` | `SmtpSession` and `Subscriptions` composed over one queue |
| `IntakeProofs` | proofs about `Intake` |
| `MC…` | constants of the TLC instances |

### Dispatcher

| Action | Code |
|---|---|
| `PublishInsert`, `PublishEnqueue` | `handlePublishNotification` 225-324: store the row, then the non-blocking send; a full queue is 503 and the row stays `pending` |
| `Take`, `Stop` | the `select` in `worker` |
| `Load`, `Mark`, `ListMembers`, `ExpandMember`, `SpawnDestinations`, `Finish`, `CountMembers` | the queries of `processJob`, in order, with the goroutines it starts between them |
| `Acquire` … `RecordDelivery` | a delivery goroutine: all six `dispatch…` functions. They differ in when the subscription is read, in retries (e-mail has none), and in preparation |
| `Cancel`, `Restart` | SIGTERM; the end of the process, by a crash or because `main` waits for `dispatcher.Run` but not for its workers, and the next start |
| `Subscribe`, `Unsubscribe`, `SyncGroup` | the rest of the program, as the dispatcher sees it |

A target (`Key`) is a notification's entry in its groups list with a member and a
channel, or its entry in the destinations list. A row keeps its status and attempt
count; Twilio's initial status and "sent" for an e-mail are both "accepted". A send may be
accepted, fail, or be accepted with its answer lost. `DbOk` and `DbError` are the
outcomes of a query made with the dispatcher's context: it fails after cancellation
and may fail before (`DbMayFail`). What the code does on each error (drop the job, skip
the group, only log) is the second branch of each action.

Left out: error messages of rows, delivery times, and the parse errors of stored lists
(they are written by `json.Marshal`). Looking up a subscription and recording
"not_subscribed" are one step.

### Poller

`ListVoice` and `ListSms` are the two queries of `pollPending`; `ListFailed` and `Reset`
those of `RunPollFailed`; `Malformed`, `Fetch`, `WriteStatus` are the branches of
`checkDelivery`; `CountFailure` and `GiveUp` the two queries of `recordPollFailure`.
`remote` is the provider's side: a status that moves until it is terminal. A fetch gets
the current one or no usable answer. `lost` counts decisions to give a row up that were
taken and never written, `again` records that the last look said "still in flight";
neither influences an action.

### Events

`Receive` is everything a handler does up to its first write: read the row and decide.
`Insert`, `Close`, `Update` are the writes, with what the handler read in between;
`Fail` is a failing query (500). `Sweep` is the sweeper's one UPDATE. Times are steps of
a clock; a time the handler takes itself lies anywhere between its read and its write.
Two of the four mutable fields are kept; clearing a field with `""`, URLs, severities and
the audit log are left out.

### Directory services

`Directory` is code of somebody else, modelled from the queries of `ldap/`. `contents` is the sequence of
all it has contained: the groups, where in the tree each is (`Places`) and who is in it, and the passwords.
The primary server has the last one. With a backup server, edits reach it in their
order, each at any time later (`Replicate`): `gone` says which contents have left the directory, and when.
Two things are assumed of it: the backup takes over whole edits, in order, and
the pages of one search are answered from one content. A behaviour starts with a `load`:
what is asked for, whether there is a backup, and how many faults, crashes, directory changes
and clock steps may happen.

`Registry`: a handler is a sequence of queries, `CheckAbsent` or `CheckPresent`, `VerifyGroup`,
`Insert`, `UpdateTemplate`, `RereadTemplate`, `Delete`, `Audit`, and any may fail (`CallFails`). What
a row holds is named by the request that wrote it, so a lost or replaced write shows.
`held` is the writer connection while the syncer's transaction has it (`WriterFree`).

`GroupSync`: `List`, `ListNames`, `CleanGroup`, `CleanDone` are `syncOnce` up to the cleanup, `Connect`
the choice of a server. `Resolve` and `Search` are the two queries of `SearchGroupMembers`: where the
group is (unknown is an error, and the group is skipped), and who has the group, named by that place,
in `memberOf` (nobody is no error). Between them the directory may change, and the connected server may
be the backup. `BeginTx`, `InsertMember`, `Commit` are the rest of `syncGroup`; the
failures of each follow. A crash rolls the transaction back, as SQLite does. `floor`, the oldest
content a server had when the cycle began, is history only; `GroupMirror` needs it to say
how old what is stored may be.

`Access`: `LookupHit`, `LookupMiss`, `SearchUser`, `BindUser`, `Store` are `AuthenticateUser` of
`ldap/cache.go` around that of `ldap/auth.go`, search and bind on whichever server the connection went to;
nothing bounds the time between them. `Login`, `LoginForm`,
`Page`, `Logout` are the handlers over the session store, each call atomic under
its mutex; `SweepStart` and `Sweep` are apart because the sweeper takes the time before
the mutex. A cache key is a name and a password. The code keys by a hash of `user:pass`
(`ldap/cache.go:104`), so the model assumes two things of it: the hash has no collisions, and no user
name has a colon (`a:b` with `c` and `a` with `b:c` are one key; Basic credentials cannot have such a name,
the login form can). `late` is how long an authentication took, kept for the property.

### Intake

`JobQueue` is the channel: `Offer` never waits and drops what finds it full; `Take` is a worker.
`SmtpSession`: the commands of a connection, in the order go-smtp admits them. `Data` checks
the whole message first; then `InsertEvent`, and for each recipient `InsertNotification` and `Enqueue`,
which answers 452 when the channel is full; `InsertFails` is 451. Addresses are reduced to
what decides. The challenge exchange of AUTH is library work; its outcome is a set of roles.
`Subscriptions`: subscribing is `LookupUser`, `CheckSubscribed`, `Insert`, `StoreWelcome`, `sendWelcomeSMS` and,
for the API, `Reread`; unsubscribing `CheckRegistered` and `Delete`. `Fails` is the error path of each:
a failed check reads as "no row", a failed welcome is only logged. `Spelling` and `Fold`
keep the two ways the queries compare names apart.

## Runs

| Run | Shows |
|---|---|
| `dispatch` | tokens exact, rows truthful, completion recorded, silence after closing: two notifications, two workers, queue and semaphore of one, two tries, shutdown at any point |
| `faults` | types, "failed" means nothing sent, the member count, and the refinement of `Lifecycle`: two groups, a group and a destination of other channels, a channel without a provider, any query failing, one restart, one change of a subscription or a group's members; rows stay truthful over all of that |
| `live` | every enqueued job is closed (`FairSpec`): two workers and two tokens, two notifications of up to two deliveries each, two tries |
| `consent` | violated: SMS only to subscribed people |
| `poll` | all properties of the poller: one call, one message, limit 2, one database error, one restart |
| `poll_again` | violated: a row still in flight is checked again |
| `events` | all properties of events that hold: three concurrent requests of any kind, the sweeper, failing queries |
| `events_end` | violated: ending is idempotent |
| `events_fields` | violated: an update changes only its own fields |
| `directory` | all properties of `Registry`, `GroupSync`, `AuthCache` and `Access`, that the syncer implements `GroupMirror` and the cache `ExpiringMap` |
| `intake` | all properties of `SmtpSession` and `Subscriptions` that hold |
| `unsubscribe` | violated: who unsubscribed has no subscription left |

**Bounds.** Races here are between two actors and one resource: two workers competing for
one token, a queue of one slot that a second publish overflows, two poller goroutines and
one row, three handlers (one creates, two race). A limit of 2 is the smallest with a retry, a
backoff and a limit that is not the first failure. `MaxRestarts` and `MaxChanges` bound the
environment; one restart is enough to meet a half-done state, and the program keeps no
memory of earlier ones. `MaxFaults` bounds the poller's database errors, `MaxTime` the clock
of events: it passes the TTL of what starts first. In `dispatch` workers are symmetric; runs
with liveness use no symmetry. In `live` both workers can wait for their deliveries while those want
a token: a worker that took one for itself would do no harm alone, but two that did would wait for
ever. The run follows no behaviour past a shutdown (`CONSTRAINT MCRunning`):
there `EnqueuedIsClosed` holds at once and for good, and a shutdown is never due. A retry limit of 0
is in no run, nor a full queue in `faults`; the theorems `RowsAreTruthful` and `LifecycleIsImplemented` cover them.
`CompletedIsRecorded` is about runs without failing queries: an insert that fails after the provider accepted is
only logged (`notify/dispatcher.go:310`), and nothing in the program could tell.

`directory` and `intake` choose a load at the start; each load activates the parts that
interact and leaves the rest idle, so the state spaces add up instead of multiplying.
The loads of `directory`: a sync group added, removed and added again (or another one added)
while the syncer runs, with a fault, a restart, or a changing directory; with a backup server, a sync group that is
edited, removed or moved there, and two requests of one person; three administrators on
one row of each other table; three Basic requests of one person, with two passwords, or of two
persons, while memberships and passwords change, with a cache of one entry so that
eviction and replacement both happen, and a TTL that two clock steps exceed; a login whose
session two others use and end. A third request is what it takes to see a deletion
between two creations. The loads of `intake`: a connection with every kind of address and message,
two envelopes and two recipients, enough for leftovers and for a message queued half way into
a queue of one; two connections on that queue; three requests on two spellings of one name
and a person without a number; a message against a welcome.

`CHECK_DEADLOCK FALSE`: the program may be told to stop, and the bounds end the rest.
That nothing blocks is the subject of `live`, of `EveryoneServed` and of the other liveness
properties.

**Fairness.** `Dispatcher`: each worker and delivery that can take a step takes one (Go
schedules goroutines; the SMS client has a timeout of 30 seconds, the voice client and
the SMTP dialer `delivery_timeout`), and a handler that stored a row goes on to offer it. No fairness of
subscriptions, cancellation or restarts. A provider call is one step, so weak fairness of a
delivery as a whole says only that it ends, in whatever way. `Poller`: the ticker ticks,
requests end (15 seconds), and a message or call ends some day; never that a poll succeeds.
`Events`: time passes and the sweeper's ticker ticks; no handler is assumed to go on.
`DirectoryServices`: the syncer's loop and the session sweeper keep going; a handler goes on, and gets the
writer connection if it is free again and again (strong fairness: `database/sql` serves those
who wait for a connection in order). None of the directory, of faults or of clients, nor of the backup catching
up: `ListedIsMirrored` is about a directory that has stopped changing and whose servers agree.

## Findings

1. `SmsOnlyToSubscribed` (`consent`): consent is read when a notification is expanded
   (`notify/dispatcher.go:151`), not when the SMS goes out. Unsubscribing while the
   delivery waits for the semaphore or for a retry does not stop it (`README.md:306`, `:366`).
2. `CheckedAgain` (`poll_again`): a `poll_failed` row that turns out to be in flight at
   startup keeps its status, so it is not "checked again next poll cycle" (`notify/poller.go:161`).
3. `EndIsKept` (`events_end`): the idempotency check of `handleEndEvent` and its write are
   two queries; a second end, or one after the sweeper's, replaces the first, and an
   event that a caller ended may stay flagged `auto_closed`.
4. `OmittedKept` (`events_fields`): a partial update writes back what it read.
5. `UnsubscribedIsGone` (`unsubscribe`): the check before a deletion ignores the case of the name
   (`db/queries.sql:214`), the deletion does not (`:226`). Somebody who unsubscribes
   with another spelling is told so and keeps the row.

One more disagreement has no run of its own, since `GroupMirror` says it outright (`Members`, `Replace`): a
listed group that is moved in the directory between the query for its name (`ldap/client.go:96`) and the query
for its members (`:113`) has nobody under the old name, which is no error. `syncGroup` commits an empty
group, and until the next cycle nobody in it is notified, although "syncGroup replaces all rows for groupName
with the current LDAP membership" (`ldap/sync.go:117`). Deleting a group at that moment
empties it too, while deleting it earlier leaves its members as they were. After falling back
to a backup server that lags behind, the membership stored need not be the current one either.

## Proofs

All hold for every value of the constants that satisfies the named assumptions of the modules.

**Dispatcher** (finite sets of notifications, workers, members, groups; positive capacities;
any retry limit; any validated requests; queries that fail or not). `Consistent` is the inductive
invariant `DispatchInv`; `TypeCorrect`, `SemaphoreIsExact` and `RowsAreTruthful` are parts of it;
`ClosedIsQuiet`, `CompletionIsRecorded` and `LifecycleIsImplemented` (every step is one of `Lifecycle` or a
stutter) follow from it. Uniqueness of rows is not inductive by itself: it needs to know that a target is touched
once, which needs that a job has one owner. `DispatchInv` therefore says who owns a
notification: not yet offered, in the queue once (`OneOwner`), with one worker, or done;
that what nobody has begun is clean (`UnbegunClean`); how far a worker has expanded its job
and that the rest is clean (`ExpandInv`); that a delivery in progress belongs to a
notification some worker waits for (`ActiveOwned`); and what each stage of a delivery knows
of tries, messages and rows (`TaskInv`). The semaphore's count is a bijection argument:
each delivery step adds or removes one holder and one token (`DeliverySemaphore`).
The counts need a second invariant, `CountInv`, proved from the first (`CountsConsistent`): the
targets a worker touched and the members it still has to expand are never more than
`totalMembers`, each group listing adding as many members as it leaves to do, and once a count is
stored nobody works for that notification any more (`Over`). With no target counted nothing
was touched, which is `FailedIsEmpty`; the stored count covers the rows, which is `CountsCover`.
`DispatcherTypes` proves `TypeOK` action by action and what one delivery
step does, to one target only; `DispatcherProofs` that each kind of step keeps `DispatchInv`;
`DispatcherRefines` the action properties, the refinement and the counts from it.

**Poller** (any rows, limits, faults). `PollConsistent` is `PollInv`; from it `PollTypeCorrect`, `CheckedByOne`,
`StatusIsTrue`, `AttemptsAreBounded`, `SettledStays`, `GivenUpAtLimit`. The point is what a goroutine
that lists a row may assume while it works on it: the loop lists rows in flight
and the startup check rows given up, rows pass from one kind to the other only by
the hand that has them, and so neither list goes stale in a way that matters.

**Events** (any events, requests, times, TTL). `EventsConsistent` is `EventInv`: a handler that is about to close or
update has seen a row, rows never go, one that has not answered owes nothing, and what
it answered holds. `AnswersStayTrue`, `CreatedOnce` and `EventsTyped` are parts of it. Every step
keeps starts and keeps ends set (`Kept`), which carries the promises of the other handlers
and is `EndedStays`.

**Subscriptions** (finite requests, any names, numbers and e-mail traffic beside them).
`SubscriptionsConsistent` is `SubInv`; `RegistrationsHaveRows` and `WelcomeIsSubscribed` follow. The first is a counting argument: a
registration adds one row where there was none, a deletion moves one from
the table to `deleted`. For the second, a queued welcome job needs to be traced to the
request that stored it, and the e-mail jobs in the same queue kept apart from it.

**E-mail** (any connections, envelopes, recipients, and any other producer of jobs). `MailConsistent` is `MailInv`;
`AnswersTell` and `NobodyIsLeftOver` follow. What is stored for an envelope is always the notifications of its
first recipients (`Note`), so one number, how many, says everything; `Processing` relates it to
the recipients a connection has left and to what is queued. A step of anybody else leaves
an envelope as it is (`Same`): a welcome message shares the queue, never the jobs.
`IntakeTyped` adds the types of both halves and of the queue (`MailTypes`): that no notification lacks
its event or a channel needs to know that the event is stored first, and that a
message is refused before anything is stored if one of its recipients has no channel (`Stage`).

**Authentication** (any directory, cache size, TTL, visitors, and any other activity of
`DirectoryServices`). `AccessConsistent` is `AccessInv`; `CacheInStep`, `RevocationIsBounded` and `CacheRefinesMap` follow.
The list is shown to have no repetition under removal, insertion at the front and removal of the
last (`WithoutFacts`, `ConsFacts`, `FrontFacts`), so hits, misses and stores keep both structures in step (`HitKeeps`,
`MissKeeps`, `PutKeeps`) and its length is the size of the map (`ListingSize`). A request and a cache entry
carry the time from which the directory vouched for them (`VisitOK`, `EntryOK`); what was once vouched
for stays so as the directory changes (`VouchedStays`), an older bound is weaker (`VouchedBefore`), and a hit
within the TTL moves the bound no further than the TTL. `SessionsConsistent` is `SessionInv`, from which
`SessionsAreHonest` follows: a session expires one TTL after its last use, the sweeper's time has
passed when it removes, and a token that was answered is never given out again, so what ended stays so.

**Tables** (any clients, rows, and any other activity of `DirectoryServices`). One assumption on the loads is
new to the proofs: a request names a table and a row there is (`AsksAssumption`; the routes see to it).
`TablesConsistent` is `TableInv`, which counts: the creations of a row are never more than its deletions and
the row that is there (`RowOK`); while nothing has failed (what is spent of the budget does not
come back, `BudgetInv`) every write has its entry in the log or its request still has to
write it (`EntryDue`); and a created row that is not there as written was deleted or updated
by another request (`UndoneByOther`). `ToldStaysTrue` and `AuditIsComplete`
follow by counting. The counts are cardinalities of sets of clients (`Made`), so a step
adds one client to at most one of them (`MadeGrows`), and leaves all other rows alone (`OthersStay`).

**Syncer** (any groups, persons, places, directory and lag of its backup, faults and crashes). `SyncConsistent` is `SyncInv`:
where the group at hand was found, some content had it that is no older than `floor` (`PlacedAt`); what the
search returned are its members under that name in the same or a later content (`FoundAt`), whatever the
directory is by now; and the writer connection is held exactly while the transaction is open.
`MembersAreSnapshots` follows: under one name a group's members are all it had in one content, or nobody.
`MirrorIsImplemented` maps every step to one of `GroupMirror` or a
stutter: a commit to `Replace`, a cleanup to `Drop`, the reading of the list to `Begin`, what ends a cycle or
crashes it to `End`, an edit and its replication to themselves, and all between to none. It rests on
`MirrorConsistent`: in addition, a cycle cleans nothing on the list it read and searches nothing off it (`CycleInv`).
What readers may count on is therefore this. A listed group is replaced at once, by all its members in one
content that some server had when the cycle began or that came later. It may go back
to an older content than it showed before, when the connection falls back to a
backup that lags behind. It loses everybody without anybody leaving it only if it was removed or moved between
the two queries, or if the list of the cycle did not have it. That is not the list as it is now: a group added since
is emptied too, and one removed since is filled again, until the next cycle. `ServicesTyped` adds the types of the
whole composition.

Only model-checked: liveness (`EnqueuedIsClosed`, `Settles`, `OpenIsSwept`, `RemovedIsCleaned`, `ListedIsMirrored`,
`EveryoneServed`, `ExpiredIsSwept`), which is out of the prover's reach. Every other property of a passing
run is a theorem.

## Not modelled

- The command line client and the web pages: requests and rendering, no state of their own.
- Configuration and logging: read once, decide nothing later.
- Rendering of templates, JSON, MIME, the encryption of secrets and LDAP filters: functions of their
  input. Pages of an LDAP search: the server is taken to answer them from one content. That an update of a template keeps what it does not name is a
  matter of one statement.
- The challenge exchange of AUTH LOGIN and CRAM-MD5 (go-smtp and go-sasl); its outcome is modelled.
- Crashes while mail or a subscription is processed: what is stored stays, and nothing reads
  it back, which `dispatch` and `faults` show for the publish handler.
- Hazards without a property (final provider statuses the relay
  does not know, a default end before the start, repetition after 452, quotes in a
  subject, a record lost after a send, a group that could not be listed) have their reason in `PROJECT.json`.

## Plan

What is left: the comment of `RenderTemplate` (`notify/template.go:34-39`, a missing key is an error)
against its option (`missingkey=zero`, line 53), to be stated with a model of rendering; the path lookup of templates as a function against a reference definition; more of
the queries in `db/`, where a property depends on one.
