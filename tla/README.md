# A TLA+ verification of notifique

notifique accepts notifications over HTTP, puts them on a priority queue and lets
workers deliver them by e-mail and in-app. This directory holds TLA+ models of its
core, the TLC configurations that check them on small instances, and theorems that
TLAPS proves for every value of the constants.

The models are translated from the Go source. Where the source and a document
disagree the model follows the source, and section 5 lists the disagreement.

## 1. The system

| Component | Source | State it keeps | Operations | Modelled in |
|---|---|---|---|---|
| Notification handlers | `service/internal/controllers/notifications.go` | none of their own | POST, cancel, delete, PATCH status, GET status, report of recipients | `Notifications`, `DynamoNotifications` |
| Priority publisher | `service/internal/publish/` | none | `Publish`: queue, cache, registry | `Notifications` |
| Notification registry (PostgreSQL) | `service/internal/registry/postgres/notification.go` | notifications, status log, recipients' status log | save, update status, delete, read | `Notifications`, `Worker` |
| Notification registry (DynamoDB) | `service/internal/registry/dynamodb/notification.go` | items, a log of statuses, two tables of recipients' statuses | the same, as calls without a common transaction | `DynamoNotifications` |
| Delivery | `worker/internal/worker/worker.go` | one attempt per message | `ProcessNotification` | `Worker` |
| Consumers | `worker/internal/consumers/` | the message in flight | receive, ack, redelivery | `Worker` |
| Distribution lists (PostgreSQL) | `controllers/distribution_lists.go`, `registry/postgres/distribution_list.go` | a row per list with a count, a row per recipient | create, delete, add, remove | `DistributionLists` |
| Distribution lists (DynamoDB) | `registry/dynamodb/distribution_list.go` | the same in two tables | the same, call by call | `DynamoLists` |
| Pagination | the listings of both registries, `worker/internal/providers/notification_service.go` | a token, the pages read so far | thirteen queries, `consumePaginatedApi` | `Pages` |
| Live stream | `controllers/users.go`, `service/internal/broker/redis.go` | a map of subscriptions, a goroutine and a bounded channel for each | subscribe, publish, forward, stream, unsubscribe | `LiveStream` |
| Response cache | `service/internal/middleware/cache.go`, `shared/cache/redis.go` | cached responses | read through, store, invalidate, expire | `UserConfig` |
| User preferences | `registry/*/user_config.go` | one row per user | first read with its defaults, update | `UserConfig` |
| HTTP client of the worker | `worker/internal/clients/`, `sender/`, `providers/` | the token and its mutex | token, request with retries, pages | `ServiceClient` |
| Authentication, rate limit | `service/internal/middleware/` | counters in Redis | one answer per request | the answers in `ServiceClient` |
| Templates | `controllers/templates.go`, `registry/*/templates.go`, `validators.go` | templates | create, delete, read, list | under `Notifications`, `DynamoNotifications`, `Pages` |
| User notifications | `registry/*/user_notification.go` | a row per user and notification | create, list, mark as read | `LiveStream`, `Pages` |
| Routes, SMTP and Cognito wrappers, wiring, configuration, table definitions | the rest | none | | not modelled: no behaviour of their own |

The abstract specifications are `NotificationRegistry` (implemented by `Notifications`
and `DynamoNotifications`) and `Lists` (implemented by `DistributionLists` and
`DynamoLists`).

How they interact:

- A **POST** handler looks for the hash of the request in Redis, saves the notification
  (registry), caches its status, sets the hash key, answers 204 and starts a goroutine
  that publishes. The publisher puts the message on the queue of its priority and writes
  QUEUED or FAILED to the cache and to the registry; when it returns an error the
  goroutine drops the hash key.
- **Cancel, delete, PATCH and GET** handlers run at the same time, and each is a sequence
  of calls to the same cache and registry: what one has read may be stale when it writes.
- A **worker** receives the message, asks the service for the status (CANCELED is
  skipped), for the recipients of the distribution list page by page, for the statuses of
  an earlier attempt, for the users and the template; it sends in-app, then e-mail,
  reports SENT or FAILED, records one entry per recipient and channel, and acknowledges.
  Whatever fails before the acknowledgement makes the message come back.
- **Distribution lists** change while workers read them, by transactions of PostgreSQL
  at READ COMMITTED that share a pool of connections, or by single calls to DynamoDB
  whose reads may be stale.
- The worker reaches the service through one **HTTP client**, which keeps a token under a
  mutex; each request may be lost, refused, limited or answered 500. The client is written
  for several goroutines; this worker starts one.
- **Different notifications** share the hash key (every request has the same hash), the
  queues, and on SQS the deduplication id of a message, which is that hash.
- What a worker sends in-app is saved and **published** in Redis; the handlers of the
  user's live connections forward it to their streams.
- GET requests pass the **response cache**; writers invalidate it.

What is hard: requests that interleave between two calls; answers that are lost after the
call took effect; redelivery, visibility timeouts and crashes in an attempt; existence
checks outside the transaction that relies on them; counts stored next to the rows they
count; pages of a table that changes; handlers that answer before the work is done; reads
that lag behind writes; batches written in part; a map and channels shared without a lock;
retries of requests that were done. What must nevertheless be right:

- delivery: no recipient lost, no false SENT, copies bounded by the faults, the message
  removed at last;
- notifications: 404, 400, 204 and QUEUED mean what they say, deletion is final, a
  repetition is detected, the cache agrees with the registry;
- lists: whole requests or none, no orphans, the stored count is the count, every request
  is answered;
- pages: a reader misses nothing that stays, reads nothing twice, and ends;
- live stream: nothing lost or reordered, no send on a closed channel, no handler that
  waits for ever but the known one;
- preferences: a choice is replaced only by a choice, stale answers end;
- client: one token at a time, no repetition but the code's, every call returns.

`PROJECT.json` lists the hazards with their lines and the properties that cover them.

## 2. The modules

### Worker

One notification, any number of workers. `pc[w]` is the next network call of
`ProcessNotification`; each action is one call with what the code computes from its
answer, and every early return goes where the code goes (`failProcess`, or back to the
queue). A call *answers*, *fails before it took effect*, or *takes effect and still returns
an error*; the last two, crashes and expired timeouts are faults, counted by `faults`.

| Code | Model |
|---|---|
| the message in SQS or RabbitMQ | `queue`, `holder`, `Receive`, `Expire` (SQS visibility timeout), `Restart` (worker dies; RabbitMQ requeues when the channel closes) |
| `GetNotificationStatus`, skip of CANCELED | `GetStatus`, `AckCanceled` |
| SENDING | `MarkSending` |
| `getRecipientsToSendNotifications` | `GetRecipients`, `MarkAllSent` when nobody is left |
| user look-ups, template | `GetUserInfo`, `GetTemplate` |
| the senders | `SendInApp`, `SendEmail`: on an error any part of the batch may have been reached |
| outcome, log, ack | `MarkOutcome`, `Record`, `Ack` |
| `failProcess` | `FailProcess` |
| a handler of the service writes the status meanwhile | `ServiceWrites` |

`timeout` says which queue it is: SQS hides a delivered message for its visibility timeout,
RabbitMQ until the channel closes. It is a variable that never changes, so that one run and
the theorems cover both. `Answers` is the statuses query: the worker asks for the SENT
entries of its channels, the service binds neither filter (the structure has no `form` tags)
and answers with every entry. So recipients that are FAILED on every channel are left out of
the retry. What the worker was written for, `AckMeansReached`, is therefore false
(`worker_unreached`); what is left of it is `UnreachedIsTold`: whom a processed message did
not reach, the log calls FAILED on both channels, or its user information was missing.

`Worker` models `worker.go` over its interfaces, where a call can succeed. Over the
implementation of them that is in the repository no call that writes is ever reported done
(`ServiceClient`, theorem `WritesFail`): a 204 is an error, and the status, which is sent as a
PUT where the service has a PATCH, is answered 404 and never written. Every attempt fails at
its first such call. In `Worker` such failures are faults, and what `WriteStatus` writes is
what reaches the service once the method is right. Its safety theorems hold for any number of them; the liveness of
`EventuallyRemoved` is that of a client that sends a PATCH and takes a 204 for what it is. `ServiceWrites` is
any write of a status by the service in between; it writes more often than the handlers
of `Notifications` can.

`Payload.Channels` is never consulted when sending, in the code and in the model. A FIFO
queue also holds back the messages of a group (`MessageGroupId`) while one of them is
delivered; the model has one message.

### Notifications

The handlers of `notifications.go` and the publisher over one registry row (`row`) and
one cache entry (`cached`) per notification. `step[n]` walks a POST and its goroutine
(`CheckHash`, `Save`, `CacheCreated`, `SetHash`, `Publish`, `CacheOutcome`, `CheckRow`,
`StoreOutcome`, `DropHash`); the slots `Calls` run the other handlers (`Begin`,
`ReadCache`, `ReadRow`, `WriteCache`, `CheckCallRow`, `WriteRow`, `Remove`), one call to
cache or registry per action. `Restart` kills goroutines between two calls, `Forget` is
a cache key that expires or a deduplication interval that ends, `DeleteTemplate` the foreign key that deletes the notifications
of a template with it. The registry is the PostgreSQL one. `UpdateStatus` uses the id of
the body, not of the path; the model has one id.

Requests are hashed after the body was read, so every request has the hash of an empty
body: `hashKey` is one key for all of them. The hash is also the `MessageDeduplicationId` of
their messages (`publish/sqs.go:29`), and the queues of SQS are FIFO (`fifo`): a queue that got
a message within the interval (`window`) takes the next one, whatever it says, without an
error and discards it (`Discarded`, `Enqueue`). `Queue` and `Template` tell which requests
share a queue or a template. The properties of a POST say what is true in spite of both:
`QueuedIsPublished` and `SavedIsQueued` allow for a discarded message only if another
request's is in the same queue, and `AcceptedOrRepeated` for a request that was taken for a
repetition only if another one was saved.

### DistributionLists

The transactions of `registry/postgres/distribution_list.go`, one action per statement,
with the locks PostgreSQL takes: an inserted recipient share-locks the row of its list
(foreign key), the UPDATE of the count and the deletion of the list lock it exclusively,
deleted recipients stay locked to the end of the transaction. A statement sees committed
rows and its own (`View`). `Check` and `Begin` need a free connection. `Panic` is the nil
summary of a list without recipients: gin answers 500, the transaction is never ended,
and its locks (`stuck`) and connection (`lost`) are gone. `Abort` is PostgreSQL's deadlock
detection. A batch of inserts is one statement here; the deadlocks two batches can have
row by row end like a failing statement, which the model has.

The number of recipients in `Init` is consistent, the tables otherwise arbitrary.

Its refinement of `Lists`: `size` is the stored count, `loose` the lists two open
transactions changed at once. The commit is the step of `Lists`; everything before it is a
stutter, for only committed rows are in `lists`, `members` and `count`.

### DynamoLists

The same four handlers over `registry/dynamodb/distribution_list.go`: one action per call
(`Exists`, `Scan`, `QueryRows`, `Put`, `Batch`, `UpdateCount`, `DeleteSummary`), no
transaction. `flux` and `recent` are what an eventually consistent `GetItem` or `Query`
may still answer wrongly, until `Converge`. `Batch` writes any part of a batch, and is refused
beyond `BatchMax` items (`BatchWriteItem` takes 25; nobody splits a batch or looks at
`UnprocessedItems`). `Scan` names every recipient of the request in one `IN` and is refused
beyond `InMax` of them (DynamoDB takes 100, a request 256). `UpdateCount` is `ADD`, which the SDK may repeat (`Repeats`) and which
creates an item that is gone. `Error` of a creation answers 201, as the handler does.

Its refinement of `Lists` moves the step to where the outcome is decided: a creation counts
from its summary (`Filled` adds the batch still to be written), an addition or removal and a
drop from the batch. `loose` collects the lists touched by overlapping requests, by a
decision on a stale read, or by a call that failed half way.

### DynamoNotifications

The notification's life on DynamoDB, call by call: `CheckVariables` reads the template,
`Put` and `WriteStatus` save (two calls, between them the eventually consistent
`CheckExists`), `WriteStatus` of any status is one transaction with its entry in the log and
a condition that the item exists, `ReadStatus` and `RemoveItem` delete, `LogResults` and
`PutLatest` write what became of recipients in batches, to the log and to the table whose
pages the worker reads. `former` and `stale` are what a `GetItem` may answer a while longer.
A call fails with or without its effect. The cache of statuses is in `Notifications`, which has
the same handlers over PostgreSQL.

`NotificationRegistry` is what both promise of a row: saved once, its status written while
it is there, never back after its deletion. The refinement maps `row` to `row`: what needs an
argument is that no handler's write, decided on a read of long ago, breaks it.

### Pages

A walk over any of thirteen queries, in the loop of `consumePaginatedApi`. A query is a
record of what distinguishes it in the code: what is checked before a page, whether a page
behind a token is restricted to its owner (`owned`), whether a request filters, whether the
limit counts rows before the filter (DynamoDB), whether the order leaves ties, whether the
query takes back the token it gave. `Selected` is the `WHERE` clause, `IsPage` the `ORDER
BY` and `LIMIT`, `More` the condition for a next token. `Write` is any change of an owner's
rows meanwhile; on DynamoDB it is also another replica that answers. Ghost variables remember
what was there all the time (`always`), at some time (`ever`), and whether later owners had
rows (`alone`). Rows of two owners may hold the same item; for the notifications of users,
whose ids are unique, that is more than can be. PostgreSQL's plan usually puts the channels of
a user in order; the query does not ask for it.

### LiveStream

The connections of one user. `entry` is the user's entry in the broker's map, which the
handlers of all users read and write without a lock; a subscription has the messages Redis has
sent it (`inbox`), the one its goroutine is forwarding (`held`) and the Go channel
(`buffer`). `Connect`, `Suscribe`, `Event`, `BlankEvent`, `Disconnect`, `Quit`, `Close` and
`Delete` are a handler's steps; `Take` and `Forward` the goroutine's; `Attach` and
`Publish` are Redis. `Unsubscribe` looks the user up again: its `target` need not be the
subscription it reads. `QuitPanics` is the send on a closed `Quit`; `Crash` is Go's answer to
an unsynchronised map. go-redis' own queue of 100 messages, which drops one it could not
hand over for a minute, is left out: `inbox` has no limit.

### UserConfig

The preferences of a user behind the response cache. Slots run GET (`Lookup`, `Read`,
`Create`, `Store`) and PUT (on DynamoDB `Read`, `Create`; `Write`, `Invalidate`). `registry`
is a variable, so that one run covers both. The keys are modelled by what they do: a
response is stored under the digest of its path, while the key to delete has the digest of
the path with an asterisk, and a `SCAN` matches neither (`Matches`). `ReadFails` on
PostgreSQL answers the zero value, since only `ErrNoRows` is looked at. `Create` on DynamoDB
has no condition.

### ServiceClient

The worker's calls over its client. `ReadToken`, `LockToken` and `GenerateToken` are
`AddAuth` with its two locks; `Page`, `NoContent`, `NotFound`, `ServerError` and `SendFails`
are a request with what the service answers; a status is put (`PutStatus`) where the service
has a patch, so it is answered 404 and nothing is done. `Callers` may be several: the
provider of the token locks for them, and what holds with several holds with the one
goroutine this worker starts, whose behaviours are among those of the model. `Wake` ends the pause before a repetition. `prefixed`
says whether a proxy adds what the client omits ("Bearer " and the user): without it every
request is a 401. A repeated post may have lost its body (Go's transport rewinds it only in
some cases), which is one more way of `SendFails`. The branch that waits for
`X-RateLimit-Reset` is dead: the service does not send that header.

## 3. What TLC checks

| Run | Instance | What it shows |
|---|---|---|
| `worker_delivery` | 2 workers, 2 recipients (one direct, one of the list), both channels, template, 3 faults, SQS or RabbitMQ | `AckMeansLogged`, `UnreachedIsTold`, `SentEntryIsTrue`, `DuplicatesNeedFaults`, `RecordedNeverResent`, `SentReportAccountsForAll`, `EventuallyRemoved` |
| `notifications_status` | 1 notification with its publisher, 2 handlers of any kind, 2 faults | `NotFoundIsFinal`, `RefusalIsTrue`, `CacheAgrees`, and `RegistryHolds`: it implements `NotificationRegistry` |
| `notifications_intake` | 3 POSTs, two of them of one template, over 2 queues of either kind, 1 fault | `AcceptedOrRepeated`, `QueuedIsPublished`, `RepeatsDetected`, `SavedIsQueued` |
| `notifications_dynamo` | 1 notification with a template, 2 recipients, batches of 1, 2 handlers, 3 requests, 2 faults | `LogTellsStatus`, `ToldIsLatest`, `RegistryHolds` |
| `lists_postgres` | 1 list, 2 recipients, 2 handlers, 3 requests over any tables, pool of 2, 1 fault | `NoOrphans`, `CountIsTrue`, `AllOrNothing`, `Answered`, and `ListsHold`: it implements `Lists` |
| `lists_dynamo` | 1 list, 3 recipients, batches and filters of 2, 2 handlers, 3 requests over any tables, 1 fault | `TypeOK`, `SuccessIsTrue`, `ListsHold` |
| `pages` | 13 queries, 2 owners, 4 items of which 3 pass the filter, pages of 2, 1 write | `DoneIsComplete`, `NothingTwice`, `WalkEnds` |
| `live_stream` | 2 connections, 2 subscriptions, a channel of 1, 2 notifications | `NoSendOnClosed`, `NothingLost`, `EventsAreReal`, `Arrives`, `Departs` |
| `user_config` | 3 requests at a time, 2 updates, 1 fault, both registries | `AnswersAreReal`, `UpdateSticks`, `StaleAnswersEnd` |
| `service_client` | 2 callers, 2 retries, queries of up to 2 pages, 3 tokens | `OneUsableToken`, `TwiceOnlyBlurred`, `CallsReturn` |

Two runs end in a counterexample. In `worker_unreached` both channels fail for a recipient,
the retry is answered its FAILED entries, takes it for done and acknowledges
(`AckMeansReached`). In `worker_skip_undone` the acknowledgement of a canceled message fails,
`failProcess` writes FAILED over CANCELED, and the redelivered message is sent
(`SkippedStaysUnsent`).

Type invariants are proved (section 4); that of `DynamoLists`, which says that no batch is
empty, is also run.

### Bounds, and why they are enough

- *Workers, handlers: 2.* Every race of the code is between two parties on one row, key or
  message. `lists_postgres` was also explored with three handlers (1.5 million states,
  same result). One notification is enough for the handlers of an id: those of different
  ones share the hash key, a queue with its deduplication id and a template, which
  `notifications_intake` has with three requests, two of one queue.
- *Recipients: 2.* One direct and one of the list, or one that fails and one that does not.
  Pages need 4 items for two full pages and a rest, two of them of one recipient.
  A batch and a filter of a DynamoDB run are one smaller than the recipients: some requests
  fit, some do not. In the code a filter takes four batches; `lists_dynamo` was also explored
  with 4 recipients, filters of 3 and batches of 2 (4.2 million states, same result).
- *Faults: 1 to 4.* Two suffice for a fault and one in the handling of it (`failProcess`,
  the dropped hash key); the worker has more so that a third attempt happens.
  `MaxCount` (delivery counters) is above `1 + MaxFaults`, so saturation hides nothing.
- *Requests: 3* over any consistent tables: two that race and one that meets the result.
- *MaxWrites: 1* during a walk replaces all rows of an owner at once.
- *LiveStream:* two connections share, replace or close each other's subscription; a second
  subscription is what a first one is mistaken for; one message fills the channel and one
  waits for it.
- *UserConfig:* a first read, an update and a third request that carries an old answer over
  the update.
- *ServiceClient:* two callers compete for the mutex; the third token follows one that
  expired in a call and one that expired between calls.

Deadlock is checked for the preferences and for the client; in `worker_delivery` a handler of
the service can always write, so that a message nobody receives shows in `EventuallyRemoved`. Where a configuration says `CHECK_DEADLOCK FALSE` the system
stops legitimately: all requests are answered and the bound on new ones is reached, a walk
has ended, or (lists on PostgreSQL, the live stream) the handlers left wait for ever for what
the code has lost, which `Answered` and `Departs` speak of.

### Fairness

- Worker, `FairSpec`: weak fairness of each worker's calls, of receiving, and of the
  visibility timeout. Each call of the Go code blocks in a client and returns; SQS
  redelivers what was not deleted. Faults are never fair. On RabbitMQ an unacknowledged
  message returns only when the channel closes, and nothing closes it after a failed
  attempt, so `EventuallyRemoved` is stated for SQS (`timeout`) alone. The clients use
  `http.DefaultClient`, which has no timeout: a call that hangs for ever is outside the
  assumption.
- Notifications: weak fairness of each POST handler and its goroutine. A restart kills
  the goroutine, so `SavedIsQueued` promises nothing after a fault.
- DistributionLists: weak fairness of each handler's next statement. PostgreSQL grants a
  lock that is free and detects deadlocks. `Answered` ends with the first lost transaction.
- Pages: weak fairness of the walk, a loop of calls.
- LiveStream: weak fairness of each handler's steps and of each goroutine's, which is Go's
  scheduler. Nothing makes a client leave, Redis send or a user connect. `Departs` allows for
  the wait that has no end: a full channel that nobody reads any more.
- UserConfig: weak fairness of each request's calls, of the expiry of a cached response (its
  time to live) and of DynamoDB's replication.
- ServiceClient: weak fairness of each caller's requests, strong fairness of taking the mutex:
  Go's `RWMutex` starves nobody. Only retries with a limit and queries of finitely many pages
  let `CallsReturn` hold.

## 4. What TLAPS proves

For every value of the constants that satisfies the named assumption of the module.

**WorkerProofs** (`WorkerAssumption`: finite recipients, at least one worker, counters up
to at least 2). `NobodyLost` and `LogIsTrue` are not inductive: that a message is
acknowledged only when everyone is logged depends on what the attempt did many calls
earlier. The invariant `IInv` records for each worker what its program counter implies:
whoever is not in its batch already has an entry (`OthersLogged`), at the acknowledgement
its batch has entries as well (`BatchLogged`), and a channel that returned no error reached
the whole batch (`SentIsDelivered`). Other workers only add entries and deliveries, so the
facts survive interleaving. `SentReport` is an action property from the same invariant.
`UnreachedTold` follows from `IInv` and from `BothLogged`, that an attempt logs a recipient on
both channels or on none: an entry is SENT, and true, or both are FAILED. `RecordedNeverResent`
speaks of queues without a visibility timeout: there a busy worker is the only holder of the message (`OneHolder`), so
nobody else records while it sends, and its batch stays without answered entries
(`BatchUnanswered`). With a visibility timeout two attempts can hold the message; `timeout` never changes.

`DuplicatesPaidFor` counts over all workers. Its invariant is a balance (`Budget`): the copies
a recipient has on a channel, the attempts that may still send (`Pending`), and one for a
message that will come back without another fault (`Again`) are together at most one more
than the faults. A receipt turns the message that is due into an attempt; an attempt that ends
badly, or at the same time as another, was paid for by the fault that made it so. The
hypothesis that nobody is named both directly and by the list is needed: such a recipient is
in the batch of records twice, recording fails, and everybody is sent to at every redelivery
without a fault (section 5).

**NotificationsProofs** (`NotificationsAssumption`). `IInv` says of every local variable
what is true of the shared state while it is held: a pending 404 is about a deleted row, a
pending 400 about a patched one, an outcome QUEUED about a published message, a handler at
a write about a notification that was saved. `NotFound`, `Refusal` and `Queued` follow.
`Queued` needs of a FIFO queue that it remembers only what
it got (`WindowIsTaken`): a message is discarded where another one was taken, and what was
taken stays so (`TakenStays`). `Implements` maps every step to a step of `NotificationRegistry`:
a status is written where the row is, removed notifications were there, and everything else is
a stutter. `Accepted` has no hypothesis: the hash key is set only by a request that was saved
and is then answered 204, so whoever meets the key has one to be a repetition of. `Repeats` rests on the hash key: it is there from the first 204
on, and only a publication that returned an error drops it. `CacheIsTrue` follows the one
writer of a status through its two writes (`Midway`: the first is still there until the second
is made), the publisher through its own (`InStep`), and shows that a notification that is not
raced has one of them at a time (`TakeTurns`).

**DynamoNotificationsProofs** (`DynamoNotificationsAssumption`). The promise of the registry
rests on two things: a write of a status has a condition in its own transaction, and until
the item is put a POST has its notification for itself (`Posting`). `Consistent` ties each
call to its operation, without which a `WriteStatus` could be that of a deletion.
`LogTellsStatus` is inductive with `Posted`; `ToldIsLatest` needs `Reporting`: whom a report
calls FAILED is known from the request on, so a report that writes over another's SENT is
one of the exceptions the property names.

**DynamoListsPagesProofs**, on `Pages` (`PagesAssumption`: numbers, a positive page size; the
names of this specification begin with `Walk` where those of `DynamoLists` would be the
same, for one module holds the theorems about both). `Complete` says that
nothing that stayed was skipped up to the token. It is inductive though rows of later owners
are in the pages and can move the token backwards, and though a page of DynamoDB may end
anywhere: whatever follows the token and is not in the page comes after all of the page.
`Upwards` says that without later owners the walk only goes up, hence `ReadOnce` and
`OwnItems`.

**LiveStreamProofs** (`StreamAssumption`). `NoSendOnClosed` needs `Ended`: a goroutine
returns with empty hands, and a handler about to close has made one return, whichever
subscription it looked up. `NothingLost` is an equation of sequences kept by every step
(lemmas `Shown`, `Taken`, `Forwarded`, `Sent`); `Wired` says that whoever reads or ends a
subscription has one. `EventsAreReal` needs `Alone`: a connection that was alone so far reads
the subscription in the map, which is open until it closes it itself.

**UserConfigProofs** (`ConfigAssumption`: preferences differ from the defaults and from the
zero value). `AnswersAreReal` is inductive with the types, which keep the zero value out of
the store. `UpdateSticks` is an action property: once everybody reads preferences nobody
starts a creation any more, and on PostgreSQL a creation that had started does nothing.

**ServiceClientProofs** (`ClientAssumption`). `Locking` says what the write lock means: who
has it asks for a token while none is usable, and only the latest token can be. `Progress`
bounds what was done for a call by its retries. `WritesFail` is inductive with the kinds of
the calls: only a page of a query ends in a success.

**DistributionListsProofs** (`ListsAssumption`: at least one name, finite sets, a pool of at
least one connection). `NoOrphans` speaks of committed rows only, so it says nothing of what
a commit is about to add. `LockInv` adds what a lock means: a share, update or drop lock
stands for a list that is there; a new row for one that is not; whoever inserted recipients
holds a lock on the list; whoever is about to commit a drop has every row of the list among
its deletions; and `Exclusive` names the locks two transactions do not hold at once.
`Orphanless` follows. `ExactInv` adds that two open transactions that wrote the same list
are recorded in `raced` (`Serial`), and, for any list not in `raced`, what each transaction
has written and counted so far (`Exact`). `WholeCommit` derives from it what a commit
leaves, and with it `CountsAreTrue` and the action property `WholeRequests`. Both properties
leave raced lists out because there they fail in the code, as TLC shows once the exclusion
is dropped: two concurrent additions each count without the other's rows, and the later
UPDATE stores too small a number; a removal that runs beside an addition does not see the
recipient that is being added.

`Implements` of `DistributionListsProofs` shows that the commit of a list that is not raced
is a step of `Lists`, and every other step a stutter or a disturbance of a raced list.

**DynamoListsPagesProofs**, on `DynamoLists` (`DynamoAssumption`: at least one name, finite
recipients, a positive size of the batch). Each handler carries in `batch` what it read, and
there is no transaction that would keep it true. The invariant `LInv` says that it is,
as long as the list is not loose: `Knows` is what a handler may assume of its list at each call
(the list is there, the rows it is about to write are those that are missing or left, by how
much the number is off, a clean-up follows a fault or a refused batch), `Settled` what is
stored when nobody is between two writes, `Kinds` which calls an operation makes. Steps of other
handlers cannot disturb it: a step that writes while another handler is in the middle of
the list makes the list loose (`Local`), and a read touches nothing. `TablesAgree` and
`SuccessesAreTrue` follow. `DynamoListsImplementLists` then goes through the calls: the
creation happens at `Put`, the addition and removal at their `Batch`, the drop at the `Batch`
that empties the list or, if it had no rows, at the query that finds none, an undone
creation is dropped at the refusal of its batch, and every other call is a stutter
(`UpdateCount` because `Lists` already sees the number it will make).

Only model-checked: liveness (`EventuallyRemoved`, `SavedIsQueued`, `Answered`,
`WalkEnds`, `Arrives`, `Departs`, `StaleAnswersEnd`, `CallsReturn`), which is out of the
prover's reach. Every safety invariant, action property and refinement that a run checks is
also a theorem.

## 5. Where code and documents disagree

The models follow the code in each of these.

- *Worker.* The statuses query ignores its filters, so a retry takes FAILED recipients for
  done (`shared/dto/notifications.go:76`; run `worker_unreached`). A recipient named directly and by the list makes
  recording fail, and everybody is sent to at every redelivery (`worker.go:149`). The channels
  of a request are not heeded (`worker.go:366`). A failed acknowledgement of a canceled message
  undoes the cancellation (`worker.go:285`; run `worker_skip_undone`).
- *Client of the worker.* The status is put where the service registers a patch
  (`sender/notification_service.go:45`). 204 is an error
  (`clients/notification_service.go:94`), the header
  of a 429 is not the one the service sends (line 73), the token lacks its "Bearer "
  (`clients/auth.go:103`).
- *Notification handlers.* All bodies have the hash of an empty one
  (`controllers/notifications.go:116`), so a request within the hash's time to live of another
  is answered 204 and not saved; where it is saved, a FIFO queue of SQS discards its message and
  QUEUED is written nevertheless (`publish/sqs.go:29`). A cancellation can overwrite SENDING or SENT (line
  271). On DynamoDB the CREATED of a POST can overwrite a cancellation
  (`dynamodb/notification.go:212`). On PostgreSQL a notification for a list alone is not found
  (`postgres/notification.go:153`).
- *Handlers that go on after an error.* `CreateDistributionList` answers 201
  (`controllers/distribution_lists.go:48`), `GetTemplateDetails` 200 with an empty template
  (`controllers/templates.go:117`).
- *Distribution lists on DynamoDB.* An addition or removal of more than 100 recipients always
  fails (`dynamodb/distribution_list.go:462`).
- *Live stream.* The response of a stream that ended is cached, and answers the user's next
  request for one (`middleware/cache.go:83`).
- *Pages.* Behind a token the recipients of other lists (`postgres/distribution_list.go:338`)
  and the notifications of other users (`postgres/user_notification.go:119`) are in the
  pages, and the worker's loop over a list does not end while a later list has recipients;
  the statuses are ordered by less than the token (`postgres/notification.go:211`); a token of
  a query by name is refused (`postgres/templates.go:215`).

`PROJECT.json` quotes the documents.

## 6. Plan

1. `Delivery`: `Worker` composed with `Notifications`, in place of `ServiceWrites`, so that
   cancellation, deletion and the deletion of a list or template meet a message in flight;
   with it, the message of a deleted notification, which is never acknowledged
   (`worker.go:275`).
2. The receive loops of the consumers: messages that cannot be parsed, several at a time.
3. The variables of templates against their types and regular expressions.

## 7. Not modelled, and why

- The limiter (redis_rate), the verification of a JWT, SMTP and Cognito are libraries, and
  appear as a call that answers or fails. Scopes, routes and security headers are checks of
  one request. Wire's generated code, configuration, table and queue definitions have no
  behaviour.
- The validation of a template's variables is a function of one request. `SetReadStatus` is
  one statement. `GetNotification` on PostgreSQL is one query.
- Keys of the cache beyond their path, durations, formats of tokens and dates.
  (DynamoDB sorts its log by RFC3339Nano strings, which drop trailing zeros and so are not in the order of time; the model's logs are sets.)
- The SDK's own repetitions of a `PutItem` without a condition have the effect of one call
  and are not told apart from it. Failures of Redis other than a failing call.
- Handlers invalidate the response cache at their end; that of the preferences is in
  `UserConfig`, the others call the same function with other paths. The stream of live
  notifications passes the middleware too, which stores the events of a stream that ended,
  or nothing, with a context of its own (`shared/cache/redis.go:83`), and answers the user's next
  request with them until they expire. `LiveStream` has the requests that get through.
