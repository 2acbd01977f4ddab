# Verification of the library system

TLA+ models, TLC model-checking runs and TLAPS proofs for the Django library
system of this repository (`src/`): readers reserve, return and extend loans of
books; a Celery task marks loans overdue and others recompute statistics and send e-mails; book data is cached in two tiers and indexed in
Elasticsearch; small resilience, rate-limiting, LRU and trie libraries support it.

Run everything from this directory: `tlc -config <run>.cfg <module>.tla` for a
run of the table below, `tlapm <module>.tla` for the proof modules.

## 1. Inventory

| Part | Source | State it keeps | Operations | Hard behaviour |
|---|---|---|---|---|
| Reservation service | `apps/reservations/` | table of reservations, copies of each book | reserve, return, extend; inherited update, partial update, delete | no transaction and no row lock anywhere: every statement commits alone, and `save()` writes back a whole row read earlier |
| Overdue task | `apps/notifications/tasks.py:49-75` | none of its own | mark rows OVERDUE, one e-mail each | rows are read before the loop and saved in it; a crash between mark and mail; redelivery (`acks_late`) |
| Confirmation tasks | `apps/notifications/tasks.py:12-46`, `strategies.py`, `factory.py` | task queue | send, retry | late acknowledgement repeats a task that was already done; the e-mail strategy swallows errors, so `self.retry()` answers database errors only |
| Book catalogue | `apps/books/` | books, genres, ratings | CRUD, rate, CSV export, `populate_real_books` | PATCH and DELETE of a book overlap reservations; ratings are unique per reader; the command counts, fetches and lists books at different times |
| Two-tier cache | `core/caching.py`, `core/cache.py`, `clear_cache` of `apps/dashboard/views.py` | an LRU dictionary per process, Redis | get, set, invalidate, clear | fills that race with invalidation, the L1 of the other processes, promotion with another TTL, Redis errors that are swallowed |
| Events and audit | `core/events.py`, `core/signals.py`, `apps/analytics/models.py` | a producer per process, Kafka topics, audit table | publish, append | a flush that gives up while the event stays buffered, errors swallowed |
| Analytics | `apps/analytics/consumers.py`, `tasks.py`, and the seed scripts | one row per book | recompute, rebuild, replace | concurrent recomputation of one row, redelivered tasks, a table that is replaced without a transaction |
| Resilience | `core/resilience.py` | breaker state, failure counter | call, reset, retry | late answers of concurrent calls |
| Rate limiting | `core/rate_limiter.py`, `core/throttling.py` | token bucket per client | allow, clean up | a bucket dropped while another thread uses it; one limiter per process |
| Autocomplete | `core/trie.py`, `apps/search/trie_service.py` | trie per process | insert, delete, search, autocomplete | pruning; walks without the lock; refresh reaches one process only |
| Search | `apps/search/` | Elasticsearch index, a client per process | search, reindex | index refreshed by hand from rows read earlier; a client that is given up for good; fallback to the database |
| Observability | `core/tracing.py`, `middleware.py`, `health.py` | list of traces in Redis | record, probe | none that touches the library's data |
| Users and accounts | `apps/users/` | users | register, log in | account, event and audit row are written one after the other, each may fail |
| Seed scripts | `scripts/seed.py`, `scripts/seed_massive.py` | none of their own | fill all tables | run beside the service, bypass signals and tasks, die half way |
| Exports, dashboard, settings | `core/exports.py`, `apps/dashboard/`, `config/` | none | read, display | none of its own but `clear_cache` |

How they interact: a request runs in a gunicorn process (synchronous workers, several
processes) or a task in a Celery process. They share PostgreSQL and Redis. A
command of `apps/reservations/commands.py` writes the book and the reservation,
invalidates the cache, queues two Celery tasks, publishes a Kafka event and
appends an audit row, in this order, with no transaction around any of it
(`ATOMIC_REQUESTS` is not set). A process may be killed at any point (gunicorn's
`--timeout 120`, a redeployment), and every one of these calls may raise.

What makes the parts correct:

* Reservation service: copies are neither lost nor made up, no more copies are
  lent than owned, at most one active reservation per reader and book, a returned
  loan stays returned, and what was confirmed, published or audited is in the database.
  None of this survives every overlap of two handlers, so the properties say exactly what breaks
  it and for which book or loan, and that nothing else does.
* Overdue task: a row marked OVERDUE has been announced.
* Cache: whoever changes a book invalidates the cache afterwards; what is served is
  out of date for a bounded time only.
* Resilience: state and counter agree; nobody is let through an open breaker; a
  recovered service becomes reachable again; every call ends.
* Rate limiting: no more than `burst + rate * t` requests of a client in any period `t`.
* Trie: a read misses no word that was stored all the time and reports none that never was; when no writer is
  at work, autocomplete returns exactly the stored words with that prefix, best first.
* Search: an answer is right about every book that a complete reindexing has brought up to date since it changed;
  fetching titles ends.
* Analytics: once the tasks have run, the row agrees with the tables it summarises.
* Notifications and accounts: nothing that is owed (an e-mail, an event, an audit row) gets lost without somebody
  having been told, and no e-mail is repeated but for a worker that died.

## 2. Modules

| Module | Role |
|---|---|
| `Reservations` | the reservation service and the overdue task, one action per database statement or broker call |
| `Lending` | the abstract library the service promises: lend, give back, fall overdue, mislay |
| `ReservationsLending` | what of the service is the library: the refinement mapping, and `ImplementsLending` |
| `MCReservations` | constants for TLC |
| `ReservationsProofs` | its safety properties and the refinement of `Lending`, proved |
| `CircuitBreaker` | `CircuitBreaker` and `retry_with_backoff` around it, called by several threads |
| `TwoTierCache` | the cached book list: L1 of each process, Redis, readers, writers |
| `MCTwoTierCache` | constants for TLC |
| `TwoTierCacheProofs` | its safety properties, proved |
| `RecencyCache` | what an LRU cache promises: a bounded list of entries, last used first |
| `LRUCache` | `core/cache.py`: nodes, links, sentinels and dictionary |
| `LRURecency` | what of the list is the abstract one: the refinement mapping, and `ImplementsRecency` |
| `MCLRUCache` | constants for TLC |
| `LRUCacheProofs` | type correctness, `WellLinked` and the refinement of `RecencyCache`, proved |
| `RateLimiter` | the token buckets of one throttle scope, used by several threads |
| `MCRateLimiter` | symmetry for TLC |
| `ResilienceProofs` | the safety properties of `CircuitBreaker` and `RateLimiter`, proved |
| `Analytics` | the analytics rows, the Celery tasks that recompute them, the handlers that queue the tasks |
| `Seeding` | extends `Analytics` by the seed scripts, and is what the run and the proofs are about |
| `AnalyticsProofs` | the safety properties of `Seeding`, proved |
| `Trie` | the prefix tree, one memory access of a reader or store of a writer per step |
| `MCTrie` | constants for TLC |
| `TrieProofs` | its safety properties, proved |
| `Catalogue` | the books table and `populate_real_books` |
| `Search` | extends `Catalogue` by the search view, the index and `reindex_books` |
| `MCSearch` | constants for TLC |
| `SearchProofs` | type correctness of both and `AnswersRight`, proved |
| `Notifications` | registration with its signal, event and audit row; the confirmation tasks; the users of `seed_massive.py` |
| `NotificationsProofs` | its safety properties, proved |

`TwoTierCache` uses of the L1 cache what `RecencyCache` promises (an entry is found until its time is
up or it is evicted), and does not instantiate `LRUCache`; nor does `Reservations` instantiate
`TwoTierCache`: it shows that every change of a book's copies is followed by an invalidation
(`StaleOnlyInFlight`), which is where the `Command` of `TwoTierCache` starts from.

Operators whose comment begins with MUTANT are variants of the definition that follows them,
each with a plausible bug. Nothing uses them; replacing the definition by one of them must
make a run find its property violated, which shows that the property can tell.

### Reservations

`book` and `res` are the two tables, `effects` the messages and audit rows sent,
`dirty` the books whose cached copies have not been invalidated since they
changed, `now` the clock. `job[w]` is what process `w` is doing: where it is
(`pc`), and what the handler holds in its variables: the copy of the book row
it read (`book`) and of the reservation rows it will save (`rows`). That memory
is the point of the model: the code reads with the serializer or `get_object()`,
computes on the copy, and `save()` writes all columns back.

| Operation | Actions in the order of the code |
|---|---|
| `POST /reservations/` | `Reserve` (serializer loads the book), `ReserveValidate`, `TakeCopy`, `Invalidate`, `CreateReservation`, `Emit` four times |
| `POST .../return_book/` | `Return` (load and validate), `CloseReservation`, `ShelveCopy`, `Invalidate`, `Emit` four times |
| `POST .../extend/` | `Extend` (load and validate), `SaveExtension` |
| overdue task | `CheckOverdue` (fetch), then per row `MarkOverdue`, `NotifyOverdue` |
| PATCH/DELETE of a reservation | `PatchReservation`, `SavePatchedReservation`, `DeleteReservation` |
| PATCH/DELETE of a book | `PatchBook`, `SavePatchedBook`, `DeleteBook` (cascades) |
| environment | `Abort` (a process dies or a call raises), `Tick` |

A write that breaks a CHECK constraint or a foreign key ends the handler with
nothing written, as IntegrityError does. `Model.save()` inserts a row that no
longer exists, so a stale save can bring a deleted reservation back.
A failure of Kafka is swallowed by `publish_event`, one of Redis by
`cache_invalidate_pattern` and one of the mail server by the strategy; the last is part
of `NotifyOverdue`, which records the attempt. Any other error ends the handler: `Abort`.

Two variables are history: no action reads them, and only properties do. `mishaps` records what went
wrong and for which book, row or reader:

| Mishap | What happened |
|---|---|
| `lost_update` | the row of this book was saved over a change that the handler had not seen |
| `stale_row` | the row of this reservation was saved over a change that the handler had not seen (`Outdated`) |
| `patched` | the copies of this book were set by PATCH |
| `moved` | this reservation was moved to another book by PATCH |
| `deleted` | this reservation was deleted, by itself or with its book |
| `twice` | two requests of this reader for this book were in flight at once |
| `unsent` | the overdue task died between marking this reservation and its e-mail |

`mislaid` counts the copies of a book that no row accounts for any more, because the handler that had them in its
hands (`InHand`) ended half-way, or because a running loan was deleted. Every conclusion that a mishap puts off
names the kind of mishap and the book or row it must have hit.

### CircuitBreaker

Each step is one critical section of the breaker's lock (`state`, `_on_success`,
`_on_failure`, `reset`), with the Python around it; the call of the service lies
between two steps. The state is advanced from OPEN to HALF_OPEN by whoever reads
it, as in the code. `Admit` is that reading and the decision to call: the call itself (line 80) begins a little
later, without a look at the state, so `FailFast` speaks of who is let through and not of when a call begins. A rejected call raises or, with a fallback, answers with that (`FallBack`). The caller is `retry_with_backoff` around `circuit_breaker`,
the two decorators the design document puts around external calls; no module of
the repository applies them yet.

The failure counter is kept at the threshold once it has reached it: the code only compares
it with the threshold. `age`, the time since the last failure, stops at the recovery
timeout for the same reason. So the instance is finite without any bound on the
length of a behaviour. The length of the back-off delay is not modelled; it
decides nothing but when `Wake` happens. `BreakerInit`, `BreakerNext` and the like carry their prefix
so that `ResilienceProofs` can extend this module and `RateLimiter`.

### TwoTierCache

`l1` and `redis` hold the entries, `job[p]` the request that process `p` is handling. A process is
a synchronous gunicorn worker: one request at a time, killed after `--timeout` (`MaxRequest`),
with an L1 of its own. Each call of Redis or of the database is a step of its own.

| Operation | Actions in the order of the code |
|---|---|
| `GET /books/` | `List` (L1), `LookupRedis`, then `Promote`, or `QueryDatabase`, `FillL1`, `FillRedis`; `Respond` |
| reserve, return, rate | `Command` (the write), `ClearL1`, `DeletePattern` |
| POST, PATCH, DELETE of a book | `WriteBook`, which invalidates nothing |
| POST of `clear_cache` | `ClearCache` (the L1 of the process that gets it), `Flush` (all of Redis) |
| environment | `RedisError`, `Kill`, `Evict`, `Tick` |

The model does not keep what a response says, only which query string it answers and its `age`:
how long ago the database ceased to say the same. Ages and lifetimes are relative, so there is no clock
that grows, and the instance is finite without a bound. `causes` records what has happened that
the code has no answer to: a fill that overlapped a write (`race`), a route that does not invalidate,
a Redis error during an invalidation, a process that died before its invalidation.

The lifetimes of the code are 30, 60 and 120 seconds and the timeout is 120; the run keeps their
order as 1, 2 and 3 with a timeout of 1. `StalenessBounded` is proved for all values, and with those of
the code it says 3 * 120 + 120 + 60 = 540 seconds: far more than the 120 of `l2_ttl`, because a fill,
a promotion and a response may each hang for as long as gunicorn allows.

### LRUCache

`heap` is the memory, `dict` the dictionary, `answer` what the last method returned. A method is one
step, since it holds the lock from its first look at the dictionary to its end, except that `put()` computes the
expiry date before it takes the lock (`CallPut`, then `Put`). `in` is a `Get` whose answer is compared with None
(`cache.py:139-141`), so it refreshes or drops the entry as `get()` does; `size` changes nothing and is left out.
The refinement mapping reads the list from head to tail.

### RateLimiter

`registry` is the entry of `_limiters` for the scope, `tables` the dictionary of buckets of each limiter,
`heap` what the buckets hold, `thread[t]` how far a request has got. A step is what one lock covers, or one access
of `_limiters`, which has no lock. The clean-up runs inside `_get_bucket`, so it is part of `GetBucket`
(`Due`, `Stale`, `Swept`, `Kept`). It takes the lock of one bucket after another; a token that another thread
takes in between leaves the same buckets as one taken just after the clean-up, which the model has.

| Operation | Actions in the order of the code |
|---|---|
| `allow_request()` | `Request`, `Register` if the scope has no limiter yet, `GetLimiter`, `GetBucket`, `Consume` |
| `wait()`, after a refusal | `GetLimiter`, `GetBucket`, `WaitTime` |
| environment | `Tick` |

Tokens are counted in units of what a tick adds, so a request costs `Cost` units and
rates that are no whole number of tokens per tick are covered. Times stop counting where the code stops telling them
apart (`idle` at `Burst`, `cleaned` at `CleanupInterval`), so the instance is finite without a bound.
A bucket or a limiter that nothing refers to any more is blank memory again (`Collect`); `Buckets` and `Limiters` have room for
all that can be in use at once.

`credit` is what a bucket of the client that is never dropped would hold, the definition of "burst and rate" the properties compare with.
`excess` records an admission beyond it. `abandoned` records the two things that
cause one: a thread took a token from a bucket that a clean-up had dropped between its `_get_bucket()` and its
`consume()`, or both threads found `_limiters` without the scope. Both need two threads in a process. The
gunicorn workers of the repository have one thread each, so as deployed neither happens, but each worker has
limiters of its own, and a client is held to the limit by each of them, not by the service.

### Analytics and Seeding

`books`, `ratings`, `reservations` and `analytics` are the tables, `queue` the messages in the broker, `web[h]` the book
that a handler has written and not yet queued a task for, `task[w]` what a worker is doing: its message (kept until the
end, since Celery acknowledges late), the books it still has to do, and what it has read. Each statement of
`update_book_analytics()` is a step.

| Operation | Actions in the order of the code |
|---|---|
| reserve, return, rate | `Reserve`, `Return`, `Rate` (the last write before the task), then `Delay` |
| PATCH/DELETE of a reservation | `MoveReservation`, which queues nothing |
| DELETE of a book | `DeleteBook` (cascades) |
| POST of a book | `CreateBook` |
| `update_book_analytics_task`, `rebuild_all_analytics` | `StartRebuild`, `Fetch`; per book `GetBook`, `GetOrCreate`, `Aggregate`, `Count`, `Save`; `Acknowledge` |
| `seed.py` | `StartSeeding`, `GetOrCreateBook`, `EndBooks`, `GetOrCreateRating`, `EndRatings`, then as a rebuild of the books it lists |
| `seed_massive.py` | `StartSeeding`, `AddBooks`, `EndBooks`, `RateBooks`, `EndRatings`, `ReserveBooks`, `EndReservations`; per book `TakeBook`, `Aggregate`, `Count`, `KeepRow`; `DeleteRows`, `InsertRows` batch by batch, `EndSeeding` |
| environment | `Drop` (a handler dies or the broker refuses), `Crash` (the message comes again), `Error` (the task or the script raises, and is over) |

Not modelled is the deletion of a user on the admin site, which cascades to the user's ratings and reservations and queues no
task. The books concerned would have to be excused, as by `MoveReservation`; in `Reservations` it is a `DeleteReservation` of each of the user's loans.

One process, `Seeder`, runs a script at a time. What a script keeps of the rows it has computed is `kept`, until `InsertRows`
puts them into the table it has emptied: a book that has gone, or a row that a task has made meanwhile, raises, and the rest is never inserted.

The average, the count and the popularity score are functions of the ratings and of the number of reservations;
the row keeps those, so that a row computed from other ratings never looks right by chance.

The code does not make every row right, and `excused` holds the books whose row may stay wrong: a reservation was
moved or deleted (no task), a handler, task or script failed, the script deleted a row it had none for, or two tasks or scripts of the book overlapped, when the one that read
first may save last (`spoiled` are the workers that may). A save by a worker that is not spoiled takes the
excuse back, so it is never a permanent one; the next undisturbed task of the book must put the row right whatever happened before.

### Trie

`heap` holds the `TrieNode` objects, each with the only path it can ever have; a path may have several, since a node that
was pruned can be inserted again while a reader still holds the old one. `words` is what the trie should contain, `seen[t]` what
was stored while the read of thread `t` ran.

| Operation | Actions in the order of the code |
|---|---|
| `insert()`, `bulk_insert()` | `Insert` (takes the lock); per word `Link` node by node, `Mark`, `Weigh`, `Name` |
| `delete()` | `Delete` (takes the lock), `Unmark`, `Unname`, `Unweigh`, `Prune` node by node, `EndDelete` |
| `search()`, `starts_with()` | `Read`, then `Look` and `Follow` character by character, `Found`; `Return` |
| `autocomplete()` | as above, then per node `Visit`, `ReadWeight`, `ReadValue`, `Iterate`, `NextChild`; `Return` |

A reader that meets a half-done write may get a KeyError (the child went between the test and the look-up), a RuntimeError
(a dictionary changed its size while it was iterated) or suggest the empty string (a word is marked before its spelling is stored).
When the keys of a dictionary changed and their number did not, CPython's iterator does not notice, and which children it still
yields depends on the hash table: `NextChild` allows all of them, and `skipped` records it.

Texts are numbers in alphabetical order, so that `Before` compares results as `sort(key=...)` does; `SortOrder` is the
permutation that puts them in order, and `Best` the spellings of the first `limit`.

### Catalogue and Search

`rows` is the books table with the titles, `feed` what `populate_real_books` is doing; `docs` is the index, `client[p]` the `_available`
of worker `p`. `unindexed` are the books that changed since the last complete reindexing read them.

| Operation | Actions in the order of the code |
|---|---|
| POST, PATCH, DELETE of a book | `CreateBook`, `EditBook`, `DeleteBook`; none touches the index |
| `populate_real_books` | `StartFeed`; per genre `NextGenre` (count), `Page` or `PageError` until there are enough works, `ListBooks`, `UpdateBook` one by one; `KillFeed` |
| `GET /search/` | `Search` (the client), `Query`, `Filter`; or `Like`; `Return` |
| `reindex_books` | `StartReindex`, `CreateIndex`, `IndexBook` one by one, `EndReindex`; `KillReindex` |
| environment | `Restart` (gunicorn replaces a worker) |

A query is a title and matches the books that have it. Ranking is any choice of `Limit` matches. The refresh interval of the
index is left out, so that a document is found as soon as it is sent.

### Notifications

`users` and `audit` are tables, `topic` is Kafka's, `buffer[p]` what the producer of process `p` has accepted and not sent,
`queue` the broker's messages, `task[w]` what a worker is doing. `excused` holds what was given up when somebody was
told (a log line, an error response) or a process died.

| Operation | Actions in the order of the code |
|---|---|
| `POST /users/register/` | `Register` (serializer), `CreateUser`, `Connect` and `Publish` (the signal), `Record` (audit row) |
| `seed_massive.py` | `SeedUser` (then `Connect` and `Publish`) or `BulkCreate` (no signal); processes in `Seeders` |
| the confirmation tasks | `Ask`, `Fetch`, `LookUp`, `Send` or `Retry`, `Acknowledge` |
| environment | `LateEvent` (Kafka's sender thread), `KillWeb`, `KillWorker` (the message comes again), `DeleteUser` (admin site) |


## 3. Runs

| Run | Instance | Shows |
|---|---|---|
| `ReservationsLibrary` | 2 processes, 2 readers, 1 book of 2 copies, 2 reservations, every route but `extend()`, deaths and broker failures, up to the second mishap or lost copy | `TypeOK`, `ReturnedIffStamped`, `OverdueIsAnnounced`, `CopiesAccounted`, `OneActivePerReader`, `ImplementsLending`, `OnlyForward`: until the first mishap the service is a library, and after it only what it hit is wrong |
| `ReservationsConcurrent` | 2 processes, 1 reader, 1 copy, 2 reservations, the commands and the task, any number of mishaps, no failures, fair | `StaleOnlyInFlight`, `PromisesKept`, `OnlyForward`, `EffectsFollow`: with extensions, and however often rows are saved over |
| `ReservationsOverlend` | 2 processes, 2 readers, 1 copy | violation of `NoOverlending`: the check-then-act race for the last copy |
| `ReservationsReopen` | 2 processes, 1 reader, 1 reservation | violation of `ReturnedIsFinal`: an extension reopens a returned loan |
| `CircuitBreaker` | 3 threads, threshold 2, timeout 2, 1 retry, fair | all its properties, with the liveness ones |
| `TwoTierCache` | 2 processes, 1 key | `TypeOK`, `StalenessBounded`, `RedisIsInvalidated`, `OldListsExpire` |
| `LRUCache` | capacity 3, 4 keys, 2 values, 1 pending `put()` | `TypeOK`, `WellLinked`, `ImplementsRecency` |
| `RateLimiter` | 2 threads, 1 client, a token every 2 ticks, a burst of 1.5 tokens, clean-up every 4 ticks | `TypeOK`, `AdmissionBound`, `DeniedOnlyWhenSpent` |
| `Seeding` | 1 worker, 1 script, 1 handler, 1 book, 1 reader, 1 death or error, fair | `AnalyticsTypeOK`, `SummariesAreRight`, `CaughtUp`: rows agree once the work is done, and none stays wrong |
| `Trie` | 1 writer, 1 reader, the words "A", "AB", "ab", "ac" | `TypeOK`, `WellFormed`, `ReadsAreRegular` |
| `Notifications` | 2 web processes, 1 script, 2 workers, 1 name, 1 confirmation, 1 retry, 2 deaths, fair | `TypeOK`, `NothingForgotten`, `MailedOnce`, `ConfirmationsEnd` |
| `Search` | 1 worker, 2 reindexings, 2 books, 2 titles, 1 edit, answers of 1 book, fair | `TypeOK`, `AnswersRight`, `FeedEnds` |

Bounds. `MaxReservations`, `MaxNow`, `MaxDue` and `MaxCopies` only end behaviours, so the
runs of `Reservations` do not check for deadlock: the system stops when they are used up.
Two processes are enough for every race of two handlers, and no handler of this code waits for
another. In `ReservationsLibrary` two readers may hold both copies or return one twice. More readers
add no new interaction, nor does a second book (the rows of two books never meet, except through
`PatchReservation`: with one book it writes its row back, or finds the book deleted; that it moves a loan is left
to the proofs, which have any number of books). `extend()` has the shape of the other saves of a row, and `ReservationsConcurrent` has it.
`OneMishap` ends a behaviour of `ReservationsLibrary` at the second mishap or lost copy: what a
property says of a book or loan that was not hit, the first mishap elsewhere already puts to the test, and what a
mishap excuses, another one does not unexcuse. `ReservationsLibrary` keeps its states apart by `TablesAndJobs`, which leaves out `dirty` and
all of `effects` but the overdue e-mails: no guard reads them and no property of that run does. The proofs do not have these bounds.

One key is enough for the ages of `TwoTierCache`: keys are filled and expire independently, and are
deleted together. The second process is what makes a fill overlap an invalidation, and what has another L1.
A capacity of 3 has a first, a middle and a last node, and the fourth key makes `put()` evict. In that
run an entry lives until the next tick, so live and expired entries mix; `Threads`, 1 there, only says how many `put()`
may wait for the lock at once.

One client is enough for `RateLimiter`: a client never touches the bucket of another, except that its request may
run the clean-up, which the second thread does as well. A token costs two ticks, so that buckets hold parts of a token, and
the clean-up interval is longer than a bucket takes to fill, so that a clean-up finds full and part-filled ones.

In `Seeding` the script and the one worker are what overlaps two recomputations of a book: a rebuild, a task of the book or
a second task that comes while the first is in hand. `MaxBusy` bounds how many of them work at once; 2 is both.
`MaxQueue` holds back a handler while a message for its book waits in the queue, not while workers are busy with the book, so that
a change can still fall between any two statements of either; what it leaves out are queues of several messages for one book, which
the proofs have, as they have several workers. One failure, of a handler, a worker, a task or a script, is allowed
(`MaxFailures`), and one reservation of the book (`MaxReservations`), which may come and go without end. With one book
`MoveReservation` is only a DELETE, and an id is not given out twice, so each behaviour has the book made once; the proofs
cover the PATCH, several books, and batches of several rows.

The words of `Trie` have two spellings of one key ("AB", "ab"), a word that is a prefix of another, and two branches at one
node. `bulk_insert()` of two words holds the lock over both. `MaxOverlap` 1 lets one writer start while a read runs, besides the one that was
at work when it began: the second is what may put back what the first took away. `MaxCopies` 2 gives a path a node in the tree and
one that a reader still holds.

In `Search` two books and answers of one book let an answer be full, two reindexings overlap with an edit between, and
a page of Open Library may bring too few, enough, only known, or no works. `MaxOffset` 3 is two pages. To keep the instance small, `populate_real_books` and
`reindex_books` do not run at once: to a reindexing the former's writes are edits like those of the API, which do overlap with it.
In `Notifications` one name is what two registrations, or a registration and the script, may fight for. `MaxUsers` is 1, so that a
name is taken once; the proofs have any number. Two deaths send one message back twice, which is what `MailedOnce` counts.

Fairness. `FairSpec` of `Reservations`: a process that has started a
handler goes on with it (no failures in that run). Nobody has to send requests, and nothing
says that the overdue task runs: its schedule is not in the repository, it is a
row of the database that `DatabaseScheduler` reads.
`FairSpec` of `CircuitBreaker`: time passes, a sleep ends, a call of the service
ends. `BusySpec` adds that somebody keeps calling, without which `Recovers`
says nothing: an idle breaker stays OPEN.
`FairSpec` of `Seeding`: a handler goes on to queue its task unless it is killed, a worker and a script go on with their work, a stage of a
script has an end, and each message is fetched in the end (strong fairness, since a message may wait while workers
are busy with others): RabbitMQ delivers a queue in order. Nobody has to send a request or start a rebuild or a script.
`FairSpec` of `Notifications`: the same of workers and messages; nothing is assumed of web processes.
`FairSpec` of `Search`: `populate_real_books` goes on with its work; what Open Library answers is free.

The abstract library has an action the code's authors would not want: `Mislay`.
A crash between `TakeCopy` and `CreateReservation`, or between
`CloseReservation` and `ShelveCopy`, loses one copy from the count for good. `CopiesAccounted`
counts these copies (`mislaid`) and says that nothing else loses one.

## 4. Disagreements between the code and what is said of it

Two are violation runs; `PROJECT.json` quotes the lines.

* `ReservationsOverlend`: the promise "No copies available." (`commands.py:34`) holds for one request at a time and not for two.
  The same race lets one reader have two active reservations of one book.
* `ReservationsReopen`: an extension that read its row before a return saves it after, and the loan is ACTIVE again, though
  `commands.py:195` says "Can only extend active reservations.". It can then be returned a second time, against "Book already returned."
  (`commands.py:120`). An overdue mark does the same (`tasks.py:65`).

Others were met while modelling and have no run:

* The key of the cached book list (`books/views.py:44`) leaves out `cursor` and `ordering`, so the "next" link of a cached page
  leads to the same page, though `README.md:69` announces cursor pagination.
* Extensions, overdue marks, deletions and edits write no audit row, while `analytics/models.py:39` says "captures all mutations".
* `analytics/models.py:7` says that rows are updated by Kafka consumers; the code uses Celery tasks, and no
  consumer of a topic is in the repository.
* HALF_OPEN counts no trials, so every thread that asks before the first answer is let through, while `resilience.py:7`
  says "Allows one trial request".
* `trie.py:85` says that `delete()` "Returns True if the word was found and deleted."; it returns what `_delete()` says of the root, which is whether
  the trie is empty afterwards. Nothing in the repository but a test (`test_trie.py:128`, on a trie of one word) looks at the answer, and `Trie` does not model it.
* `trie.py:10` says "Thread-safe via threading.Lock for concurrent read/write"; the reads take no lock and may raise, see `Trie`.
* `reindex_books` says it rebuilds the autocomplete trie, but rebuilds that of its own process, which then ends; and
  it reports success when books could not be indexed.
* A mail error never leads to a retry, though the tasks have `max_retries`: the strategy returns False, which nobody looks at, and the
  log says that the confirmation was sent.
* `seed_massive.py` makes ACTIVE reservations without taking copies and draws the copies that are available at random, so a
  library filled by it does not start with its copies accounted for. `Reservations` starts from an empty reservation table.

## 5. Proofs

Every theorem assumes the named assumption of its module about the constants
(`ConstantsAssumption`, `TTLAssumption`, ...), which TLC evaluates in each run, and nothing about
how many processes, readers, books, copies, keys, messages or failures there are. One theorem supposes more, in its
`ASSUME`: `NoStaleEnd` that nothing fails and that PATCH and DELETE of books are not offered, since a swallowed Redis error, or a death,
leaves the cache stale, and those two routes never invalidate it. All others of `ReservationsProofs` are about the code as deployed: every route, every
overlap, every failure. Where an overlap breaks a promise (section 4), what is proved is that nothing else does.

`ReservationsProofs`:

* `TypeCorrect`: `TypeOK` is inductive because `JobOK` says, for every place
  in the code, what the handler's variables hold there. One lemma per operation
  group (`TypeRequest`, `TypeStep`), each with one case per action.
* `ReturnedStamped`: the invariant is not inductive by itself, since a row in a handler's memory will be saved as it is:
  `StampedInv` says the same of those rows, and that the overdue task holds no RETURNED row.
* `NoStaleEnd`: `StaleOnlyInFlight` is inductive once `OpsOffered` says that what a handler does is one of the routes, so
  that nobody is about to save a patched book.
* `OverdueAnnounced`: `AnnouncedInv` says the same of OVERDUE rows in memory, which a patch or an
  extension may bring back after the row in the table has been overwritten. `Traced` is what every step of a worker
  has in common: an OVERDUE row appears only out of the memory of a handler, or with the task that will announce it or dies.
* The theorems that follow share two passes over the actions. `JobNext` says what a step does to a job (it ends, stays, goes on or starts),
  `RowsStep` what it does to the rows (`RowFollows`: the next version of the row, a new row, or the next version of an outdated copy). `Known` is what all
  of them need: types, ids that only grow, that what a handler has read is what its query asked for (`Sound`), and finitely many busy workers.
* `LoansMoveOn` is `RowsStep` read for one row.
* `PromisesHold`: `PromisesInv` adds that a handler at its messages has its row in the database as it will say (`CanPromise`).
* `OneActive`: `ActiveInv` adds that a reserve which has validated keeps its reader without an ACTIVE loan of the
  book (`Free`), and that two requests of one reader for one book in flight are on record.
* `CopiesCounted`: the sum of `CopiesAccounted` for one book (`Balance`) is kept by each step that does not spoil it; a
  save of a book row that is current changes the shelf by what it puts into or takes out of hands (`BookSaved`), a save of
  a current reservation row at most takes its copy into the hands of the handler. `OneElement` does the counting.
  `NeverOverlends` is a corollary.
* `IsALibrary`: `LibInv` adds that an id is left for each reservation in the making (`Counted`). The copy
  that a handler holds between two statements counts as on the shelf, so a reserve becomes a `Lend` when its row is created,
  a return a `GiveBack` when the row is closed, a handler that ends with a copy in its hands is `Mislay`, and other statements change
  neither table as the library sees it. Until the first mishap every save is of a current copy (`CalmRow`), which is what each of these rests on.

The other components:

* `ResilienceProofs`, the breaker: `BreakerInv` adds to `ClosedBelowThreshold` that in
  HALF_OPEN the last failure is exactly a recovery timeout old, which is why a single failure opens
  the breaker again and why `FailFast` holds. `TypeCorrect` carries the bound of each caller's attempts.
* `TwoTierCacheProofs`: `StalenessIsBounded` follows the oldest path a list can take. `AgeInv` gives
  each place (a fill, Redis, a promotion, L1, a response) a bound on the sum of the age of a
  list there and the time it can still stay; each action moves a list to a place with room for what
  it brings. `RedisInvalidated` and `OldListsDie` rest on `FreshInv`, which speaks of behaviours in which none of the
  `causes` has happened yet: a fill then brings the present list, an old list in Redis has been old for no longer
  than a command with its invalidation still to do has been running, and a promotion puts one in L1 that is two requests old at most.
* `LRUCacheProofs`: `CacheInv` is `Consistent(dict, heap)`, the dictionary with its keys and the links among its nodes, with the capacity. The methods
  are compositions of few operations on the memory, and the lemmas about those (`Unlinks`, `Links`, `Moves`, `Takes`, `Fills`,
  `Evicts`) speak of any set of nodes and any memory, so that `get()`, `put()` and `delete()` are short.
  `LeastRecentlyUsed` is the refinement of `RecencyCache`. `WellLinked` alone would allow a ring of nodes beside the list; `RecencyInv` adds
  that one path (`Path`) leads from the head over all nodes of the dictionary, each once, to the tail, and that a `put()` which waits for the lock has a time
  to live that is still running. A method takes a node out of the path (`SkipsNode`) or puts one in front (`LeadsNode`), the entries read on it follow
  (`TakesEntry`, `MovesEntry`), and each is an action of `RecencyCache`. That the walk of the mapping follows the path is shown by a least counterexample (`WalkFollows`).
* `ResilienceProofs`, the limiter: `TypeCorrect`, `AdmissionIsBounded` and `DenialsAreFair`. `CreditInv`
  says that no bucket a client may still use holds less than its credit, hence nobody is denied too early;
  `ExactInv` that it holds no more either, as long as nothing was abandoned. Both need
  `MemoryInv`: no two clients share a bucket, and a dropped one is full, so making a new one gives nothing away.
* `AnalyticsProofs`: `TypeCorrect`, where the part to carry is that a book that
  has gone has no row, and `SummariesStayRight`, for tasks and scripts together. `PlaceInv` says what a task or script holds at each
  place, `FreshInv` that a book whose id was not given out yet is in nobody's hands, so a new one starts right.
  `SettledInv` says that the row of a book is right or excused, or
  somebody will put it right (a message, a handler about to send one, a task or script that has the book to do or whose reads
  still hold, rows kept for the insertion included), and that whoever's reads no longer hold is spoiled or not the last one.
* `NotificationsProofs`: `TypeCorrect`, `NothingIsForgotten` and `SentAtMostOnce`. Of the script's users nobody
  owes an audit row, which `SeedersInv` adds to the invariant: whoever a process of `Seeders` has in hand is excused from it, so `AfterSignal` may skip it.
  `MailedOnce` is not inductive, since copies of one confirmation may be in the queue and with several workers; `SentOnce` bounds the sum of the e-mails sent,
  the copies in the queue and the tasks at work by one more than the workers that died.
* `SearchProofs`: `TypeCorrect`, of `populate_real_books` as well, and `AnswersAreRight`. `IndexInv` says that a book the index is wrong about is
  unindexed, `JobInv` that a reindexing holds the present title of a book, or has brought it to the index, or is known to miss the book, which is what makes
  two reindexings safe that overwrite each other's documents; `HitsInv` that what Elasticsearch found still holds up when the rows are fetched. Ids are
  given out once (`Given`), without which a hit could come to be another book. One assumption was added for the proofs: there are finitely many titles, as
  there are of a column of bounded length.

* `TrieProofs`: `TypeCorrect`, `TrieWellFormed` and `ReadsRegular`. The tree is defined by a walk from the root, so what holds of all
  its paths is an induction over their length; the provers cannot instantiate the induction theorems of the library, and
  the proofs take a shortest counterexample instead (`LeastNumber`, `Shortest`). `AtEdit` is the fact all else rests on: a new or a pruned link changes
  the walk to one path and no other. `WriterInv` says what holds between two stores of the thread that has the lock (`Busy`): a node outside the
  tree is as `TrieNode()` left it, so a pruned one may be reached by a late reader and tells it nothing; a branch without a word is the one being made or pruned.
  `ReaderInv` says of a read that every word stored all the time is reported or still ahead of it, below a node that is in the tree
  because the word keeps it there (`Alive`, `Covered`), and that any spelling it may come across has been stored while it ran (`Meets`). `Harmless` is
  what a step of a writer can do to a read at most, and `ReadBearsWrite` that this breaks nothing. While no writer is at work, `QuietInv` adds that the branches
  ahead are disjoint and behind none of the results, so no word is reported twice; the answer is then the sorted list of the very words, and
  `SameBest` says that two lists of the same distinct results are sorted alike, in whatever order the tree was walked.

Only model-checked are the liveness properties (`EffectsFollow`, `CallsEnd`, `Recovers`, `CaughtUp`, `ConfirmationsEnd`, `FeedEnds`), which need
fairness and ENABLED, out of the prover's reach. Every invariant, action property and refinement that a passing run checks is also a theorem, `StaleOnlyInFlight` under the
hypotheses named above.

## 6. Plan

1. The composition of `LRUCache` with `TwoTierCache`, if the instance can be kept small.
2. The dashboard and the export, if they come to hold state.

## 7. Not modelled

* Observability (`core/tracing.py`, `middleware.py`, `health.py`): request traces, headers and probes, which no
  other part reads and which change nothing of the library.
* The dashboard's pages and the CSV export: they read and format. `benchmark.py`, `memory_demo.py` and `script.py` demonstrate and
  measure, and nothing of the service uses them.
* Login, tokens and permissions are library code; genres and user profiles are single rows that one request writes.
* Of `trie_service.py`, `get_trie()` and `refresh_trie()`: each assigns a whole tree to a variable of its process.
* Of the seed scripts the genres and audit rows, which nothing reads back, and the users of `seed.py`, whose `get_or_create()` sends
  their event within its transaction.
* `cache_delete()`, `BookRepository.get_by_id()`, `delete_book()`, `reset_client()` and the in-app and push strategies have no caller.
* Settings beyond those the models quote, deployment files and migrations.
