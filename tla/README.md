# A verification of the TradeXV2 brokers package in TLA+

This directory holds TLA+ models of `src/brokers`, the package through which
TradeXV2 talks to Dhan and Upstox and to a paper broker: TLC configurations that
check the models on small instances, and proofs that TLAPS checks for every value
of the constants. `PROJECT.json` maps every definition to the lines it models and
lists the runs, the mutations, the hazards and the theorems by name.

Paths below are relative to `src/brokers/` unless they say otherwise. `domain.*`,
`infrastructure.*` and `config.*` are imported by the package but are not in the
repository; the SDKs, the brokers' servers and these packages are external.

## 1. The system

| Component | State | Operations | Talks to | What is hard, and what makes it correct |
|---|---|---|---|---|
| **Resilience** `common/resilience/` | breaker state, two counters, opening stamp; tokens of a bucket; attempt of each caller | `allow_request`, `on_success`, `on_failure`, `reset`, `state`; `acquire`; `execute`, sync and async | under every HTTP call | results that arrive in a later state of the breaker; it half-opens only by being read. Open periods are served in full, opening needs failures in a row, closing needs probes, and after an outage it closes |
| **Dhan orders** `dhan/orders.py` | the idempotency cache under one RLock | `place_order`, modify, cancel, slice | HTTP client, risk manager, event bus | two threads under one id, a POST repeated after a time-out, eviction, expiry, restart. One order per id as long as nothing is forgotten or unanswered; one event per order |
| **Upstox orders** `upstox/orders/` | a cache locked per call | the same | the same | look-up and put are two steps; the event goes out before the put |
| **Dhan tokens** `dhan/http_client.py`, `factory.py`, `token_scheduler.py`, `common/auth/token.py` | token in the manager, the store, the client and each feed; refresh lock, cooldown, backoff | refresh on 401, scheduled renewal, broadcast, reconnects | Dhan, the feeds | several threads are rejected together, a refresh kills the token of another, copies go stale, a save fails after the state has changed. Memory and store part only then; clients and feeds get back to an accepted token |
| **Stream orchestrator** `common/stream_orchestrator.py` and the handles of `common/adapters/market_data_gateway_adapter.py` | sessions, handles, consumers, monitors, a handle lock per broker | `subscribe`, `unsubscribe`, `stop`, reconnect, failover | gateways, router, event loop | asyncio tasks interleave at awaits, `stop` takes no lock while it disconnects, a threading lock is held over an await. Subscribers have streams; lost sessions come back; nobody's feed is taken down |
| **Dhan subscription engine and market feed** `dhan/subscription_engine.py`, `dhan/websocket/market_feed.py` | references, modes and callbacks; the set of subscriptions, two flags, a thread | `subscribe_market`, `unsubscribe_market`, `start`, `stop`, `_run`, `_on_connect` | SDK, admission, tokens | subscriptions during a connect, a replay or a loss; consumers in different modes; silence. A line is subscribed as long as someone uses it, the replay misses none |
| **Admission of feeds** `dhan/connection_admission.py`, with `websocket/market_feed.py` | a lock file of the host, a file with cooldown and streak of 429s, a flag in each process | `try_acquire`, `release`, `record_rate_limit_cooldown`, `clear_cooldown` | other processes on the host | a lock given up by a `stop` whose thread still runs. One connection to an account |
| **Order streams** `dhan/websocket/order_stream.py`, `upstox/websocket/portfolio_stream.py` | last cumulative quantity by order, thread or tasks | connect, disconnect, order updates, trades | event bus, position manager | updates late, twice, lost; two readers; a bus that raises. What is published adds up to what was filled |
| **Depth feeds** `dhan/depth_feed_base.py`, `depth_200.py` | subscriptions, socket, books | subscribe, unsubscribe, start, stop, packets | Dhan, gateway threads | subscriptions without a lock, flags that outlive the socket, packets that do not name their instrument. Dhan is asked for what is subscribed; no book has another's levels |
| **Upstox streams** `upstox/websocket/market_data_v3.py`, `v3_subscription_manager.py`, `adapters/stream_manager.py` | callbacks, modes, counts, socket, reader | subscribe, unsubscribe, connect, reconnect, disconnect | event loop, threads without one | connects that overlap, consumers that leave meanwhile, limits, readers bound to a socket. Consumers are asked for and get ticks |
| **Upstox tokens** `upstox/auth/` | snapshot, holder, file, a leader | refresh on 401, before expiry and daily, webhook, restart | HTTP client | one leader, followers that wait, three writes without a lock. A new token reaches those who send |
| **Quota scheduler** `common/quota_scheduler.py` | buckets with a reserve | `acquire`, `register_profile` | historical coordinator | priorities, deadlines, a bucket replaced under waiters. Data traffic does not starve executions |
| **Historical coordinator** `common/historical_coordinator.py` with registry and router | plan, answers, ledger | fetch, fall back, merge | scheduler, router, gateways | some chunks fail, brokers disagree, the registry changes meanwhile. The plan shares the request out, loss shows, conflicts are seen |
| **Idempotency of the port** `common/idempotency/` | memory, file and Redis caches | get, put, lock | nothing in production: neither order path is wired to it | a crash between cutting off and writing, a lock that locks nothing. An order answers for its id |
| **Paper broker** `paper/paper_orders.py` | orders, trades, positions, two counters | place | order manager | counters raised outside the lock, correlation ids that repeat. Every fill a caller is told of is booked once |
| Reconciliation `common/reconciliation/engine.py` and the brokers' services | two snapshots | compare | orders, portfolio | snapshots of different moments. Real drift is reported, nothing else |
| Readiness and health `common/connection/`, `broker_health_monitor.py` | probe results | probe, refresh | tokens | a refresh without the lock |
| Connection pool `common/connection_pool.py` | HTTP sessions | get, close | HTTP clients | a session handed out while it is closed |

Not components of their own for this purpose: gateways and façades (delegation),
instruments and resolvers (look-up tables), mappers, decoders and validators
(conversion), observability (logging and metrics), configuration and factories
(wiring), product adapters such as super or GTT orders (request builders without
state).

How they interact. An order goes from a gateway through the order adapter (cache,
risk, payload) into the HTTP client, which retries, asks the breaker and the
bucket, and refreshes the token when it is rejected. Ticks go from the SDK's
socket through the feed and the subscription engine to the handles of the gateway
adapter, which the stream orchestrator opens, watches and replaces. The token
scheduler and rejected requests compete for one refresh lock; the winner's token
reaches the client, the store and, from the scheduler only, the feeds.

## 2. The modules

| Module | Models | Role |
|---|---|---|
| `CircuitBreaker` | `common/resilience/circuit_breaker.py` | a breaker as a record, each locked method a function on it |
| `RetryExecutor` | `retry.py`, `retry_async.py`, `rate_limiter.py` | callers over one breaker and one bucket; EXTENDS `CircuitBreaker` |
| `OrderService` | what the idempotency caches promise | abstract specification |
| `DhanOrders` | `dhan/orders.py` over `_request` of `dhan/http_client.py` | implements `OrderService` |
| `UpstoxOrders` | `upstox/orders/order_command_adapter.py`, `idempotency.py`, `upstox/auth/http.py` | keeps a weaker promise |
| `DhanTokens` | `dhan/http_client.py`, `factory.py`, `token_scheduler.py`, `common/auth/token.py`, the feeds' tokens | |
| `StreamOrchestrator` | `common/stream_orchestrator.py`, `market_data_gateway_adapter.py` | |
| `SubscriptionEngine` | `dhan/subscription_engine.py`, `dhan/websocket/market_feed.py` | |
| `UpstoxStreams` | `upstox/adapters/stream_manager.py` over `upstox/websocket/market_data_v3.py`, `v3_subscription_manager.py` | |
| `HistoricalCoordinator` | `common/historical_coordinator.py` with `registry.py`, `router.py`, and `history` of `intelligent_market_gateway.py` | |
| `QuotaScheduler` | `common/quota_scheduler.py` | |
| `UpstoxTokens` | `upstox/auth/token_manager.py`, `http.py`, `totp_scheduler.py` | |
| `FillStream` | `dhan/websocket/order_stream.py`, `upstox/websocket/portfolio_stream.py` | |
| `DurableIdempotency` | `common/idempotency/file_cache.py` under `service.py` and `port_adapter.py` | |
| `PaperOrders` | `paper/paper_orders.py` | |
| `DepthFeed` | `dhan/depth_feed_base.py`, `depth_200.py` | |
| `FeedAdmission` | `dhan/connection_admission.py` with the thread of `websocket/market_feed.py` | |
| `MCServices` | | `UpstoxOrders` and the eight modules before it, side by side |
| `RetryExecutorProofs`, `DhanOrdersProofs`, `DhanTokensProofs`, `StreamOrchestratorProofs`, `SubscriptionEngineProofs`, `UpstoxStreamsProofs` | | theorems about the module of that name |
| `ServicesProofs` | | theorems about `MCServices`: admission, depth feeds, Upstox tokens, quota, historical bars, the types of all |
| `ServiceOrdersProofs` | | theorems about `MCServices`: Upstox orders, the cache in a file, paper, order streams |
| other `MC*` | | symmetry and sets that a `.cfg` cannot write down |

Definitions introduced by "Mutation:" are plausible bugs. No specification uses
them; each is substituted for one definition in turn, and one property must then
fail. They show that the property depends on the code.

### CircuitBreaker, RetryExecutor

Every method of the breaker holds its RLock, so it is one function on the record
`[state, failures, successes, elapsed]`. The nanosecond stamp became the ticks
elapsed since, counted up to the open period, because the code only asks whether
the period is over. Counters stop at `CountBound`, at least both thresholds: the
code only compares them with the thresholds. One attempt of `execute` is the steps
`check`, `limiter`, `fn`, `sleep`; other callers run between them, so a result is
recorded in whatever state the breaker has by then. `exposed` says whose call was
running while the remote end was down and may fail. `run`, `streak` and `rest` are
history: what an observer counts, from the events alone.

### OrderService, DhanOrders, UpstoxOrders

`OrderService` says: an id that is known is answered with the order known; every
order beyond the first under an id has a *lapse* of its own, either an order that
was forgotten or a request that left and was never answered. No service over an
unreliable wire can promise more.

`DhanOrders` has one step per part of `place_order`: look-up, checks, each attempt
of the POST, the put with its eviction, the event. The lock is held throughout,
whatever the id, as in the code. `limbo` holds the requests that ended without an
answer and may yet be taken; a crash puts those on the wire there and empties the
cache. The refinement maps `known` to the cached order or the one the holder of the
lock is about to cache.

`UpstoxOrders` is the same protocol without the lock. Each overlap of two calls under
one id is counted in `overlaps`, and extra orders are bounded by lapses and overlaps
together.

### DhanTokens

Tokens are numbered as Dhan generates them; those up to `dead` are rejected, those up
to `expired` are known by their time to be invalid, which is less. A refresh has the
steps of the code: cooldown and backoff checked with a clock read first, the wait for
the lock (which may time out), `force_refresh` or `acquire` under it, the token
installed after it. The scheduler holds the lock until its broadcast is over. The
market feed asks the client for its token, a depth feed has a copy.

A new token is in memory (`auth`) before it is in the store: the change of the state and
`Save` are two steps. The save may raise (`SaveRaises`), with the file as it was or cut off:
`force_refresh` then answers as if nothing had been generated and falls through to `acquire`,
while `acquire` itself raises. At any point the process may die and be started again from
the store or the environment file (`Restart`). `unsaved` is history: the tokens whose save
failed or was cut off.

### StreamOrchestrator

A step is what the event loop runs between two awaits. `lock` is the orchestrator's
asyncio lock, `held` the adapters' threading locks, and `frozen` the loop that waits
for one of them. `streamed` and `failed` record which instruments a session has a
stream for and which were refused in a merge. `stray` are brokers with active handles
that nobody will disconnect: merges and reconnects leave them behind, and they keep
the feed up. Session ids are used again once nothing refers to them.

### SubscriptionEngine

A consumer is a stream handle of the gateway adapter: its own callback, paired calls.
A line is an instrument in a mode. `subscribed` is the set the feed replays, `feed`
what the SDK object was built with, `asked` what Dhan streams on the socket. Subscribe
is one step under the engine's lock; the call of `connect` that follows is a second
one, during which the feed's thread may run. The thread goes through `check`, `run`,
`open`, `replay`, `live`, `silent` and `dead`. Of the SDK the model assumes what the
code relies on: a connected feed asks for the lines it was built with, and `run()`
returns when the feed was closed or has reported an error. `close_connection` may raise on
the thread of its caller, as the docstring of the feed says, and the code suppresses that
wherever it calls it: then nothing is closed (`NotClosed`), the socket stays open and the
feed counts as disconnected (`unclosed`).

### UpstoxStreams

A consumer is a callback; `Calls` are the subscriptions consumers make. Each
`connect()` schedules a reader, which takes the `recv` of the socket that is current when it
first *runs* (`Start`, `bound`): by then another connect may have replaced the socket, and
of two readers on one socket the second raises. `disconnect()` awaits the reader it
cancelled and then the close, and a reconnect awaits its close; each then forgets the
reader or socket that is current *by then*, so these are steps of their own (`DisconnectTask`,
`DisconnectSocket`, `ReconnectClosed`; `leaving` is where `disconnect()` is). `crossed` is history:
a connect finished while another step was between two of these. `sent` is what
Upstox streams on each socket, `mode` what the manager has recorded: the two part
when a request is refused or cannot be sent, which `unserved` remembers. A consumer
in a thread without a loop runs `connect()` on a temporary loop; its reader ends with
that loop (`stillborn`), and the connect may raise there, with the callback registered
(`SubscribeInThreadFails`). A connect that finishes after its consumer has left asks for
the key all the same (`late`).

### HistoricalCoordinator

Days are numbers, and what one broker answers for a chunk is kept whole. The lists of the code
are functions of positions: the sort by look-back is the relation `Sorted`, of which
`Short` and `Long` are the ends, and `Chunks` gives each chunk by its number. A step is
what the loop runs between two awaits: routing, planning, the question and the answer
of each chunk, each fallback, the merge. The registry may change at any time, so a
broker may be gone between routing and planning, or be asked in vain. `Bars` of an
`Early` broker begin a day early, as Upstox's do; a `Swallows` broker returns no bars
instead of an error. A `Close` for each broker stands for the price: two that differ
are outside the tolerance.

### QuotaScheduler

A tick is a polling interval; tokens are counted in units, so that a rate below one
token in an interval is exact. The bucket a thread waits at is the one it looked up;
`RegisterProfile` replaces it for those that come later. `since` is history: the time
since an execution was served.

### UpstoxTokens

Tokens are numbered by issue. `snapshot` (`_state`, by which expiry is judged),
`holder` (what requests send) and `stored` (the file) are written one after the other
by an OAuth refresh, by the load of the file and by the fallback of a log-in (`Bring`,
`Hold`, `Save`), together under a lock by the webhook and by a log-in that succeeds. A
log-in that fails, or comes within its cooldown, raises, or falls back to `_acquire_initial`
when there is a refresh token too (`LoginFails`): the access token of the settings, token 1, is
installed whatever its age and counts as a success, although the comment at
`token_manager.py:560` says that it is not to be reused in TOTP mode. A thread
that finds a leader waits for it, for a time at most, and never learns of its failure.
`origin` says whether the token in the holder was new when it came, or one of the file or
the settings; `crossed` records a webhook between the writes of a refresh.

### FillStream

One order, with what the exchange has filled of it, and updates that carry the sum so
far. Updates stay in `mail`, so that each may come at any time, often or never. Dhan's
thread is one; Upstox adds a task with each connect and cancels the last only. A message
publishes `ORDER_UPDATED` first, then is remembered, then makes a `TRADE`. An error of the
conversion or of the first publication skips the other two (`MessageFails`); when the
`TRADE` raises, its quantity is counted in `refused`.

### DurableIdempotency

The file is absent, torn, live or expired. Opening it for writing cuts it off, closing
it writes the text. The lock between processes is left out because it does nothing:
`acquire` drops the only reference to the lock file, which closes it. So an expired file is
read in one step and removed in another (`Look`, `Remove`): what is removed may be the file
another process has just written, or has open, and writes on into nothing (`gone`). `excused`
counts the overlaps, crashes, failed writes, mixed files, expiries and such removals since
which another order may be placed.

### PaperOrders

Without an order manager a placement is one step under the lock. With it, every access
to a counter is a step, because none is locked. A caller may give a correlation id (`Ids`);
otherwise one is made of the number. The order manager, external, answers
a correlation id that it knows with the order it has (`SubmitKnown`), and takes a trade id
once. The code does not notice such an answer: the known order is listed once more, and a
second trade and position are booked, although `paper_orders.py:122` says that the order
manager gives idempotency. `repeated` counts these.

### DepthFeed

Gateway threads subscribe in three steps without a lock: check, list, hand the message
to the loop. The thread waits, opens, greets with all that is subscribed, and reads.
`connected` and `ws` are the flags of the code and outlive the socket as they do
there. `unsubscribe` takes the first entry of an instrument off the list, which may hold
it twice, or empties the list; neither tells Dhan. A packet fills one side of one book; of
200 levels it does not name its instrument. `second` records that a connection of 200 levels was asked for a second
instrument.

### FeedAdmission

Processes share the lock file and the cooldown file. A thread takes the lock, waits
out the cooldown, connects. `stop` may give the lock up with the thread still in the
socket (`left`). A dead process's lock is freed by the host; a new process reads the
streak.

### MCServices

The nine components share no state in the code, so their product would only multiply
their states. In each behaviour one of them runs through its specification; the others
rest in an initial state. The reachable states are those of each component, under one
configuration.

## 3. What is checked

| Run | States | Shows |
|---|---|---|
| `RetryExecutor` | 285k | open periods are served in full; failures of an older outage and late results never open or close the breaker early; it recovers |
| `DhanOrders` | 670k | `place_order` implements `OrderService`; duplicates are excused, no order is announced twice |
| `UpstoxOrders_race` | violated | overlaps alone duplicate an order |
| `DhanTokens` | 242k | memory and store part only while a refresh is at work or when a save has failed; the client and the market feed recover |
| `StreamOrchestrator` | 299k | subscribers keep sessions and streams, no feed is taken down under a stream, sessions bound to their broker recover |
| `StreamOrchestrator_failover` | violated | a session that failed over is not watched any more |
| `StreamOrchestrator_stop` | violated | `stop()` can block the event loop for good |
| `SubscriptionEngine` | 403k | no consumer's line is given up, no replay misses a line, and whoever stays is streamed, unless a socket could not be closed |
| `SubscriptionEngine_silent` | violated | a silent socket is kept for ever |
| `UpstoxStreams` | 1.05M | a registered consumer is asked for, or its request was refused; what Upstox streams is what the books say; the first ticks come |
| `UpstoxStreams_resume` | violated | after a loss no tick comes again |
| `Services` | 1.87M | see below |

`Services` asks of each component what it promises:

- `EventsMatchOrders`, `ExtraOrdersAccounted` (Upstox orders): no order is announced twice;
  an extra one has a lapse or an overlap of its own.
- `PlanShares`: no day is planned twice or beyond a broker's reach, every day that is within
  reach is planned, and no day outside the request is, unless the request ends before the
  window of a broker that was asked begins. That exception is real: the older range ends a
  day before the recent window, not at the end of the request, so too much is fetched.
- `LossShows`: a requested day without a bar is in a gap, or the series is degraded, unless
  the gateway hid the error (Upstox's `history` returns an empty frame); bars of fallbacks
  are marked and degrade the series. `ConflictsSeen`: brokers that disagree are found out.
- `OnlyExecutionsExhaust`: an execution goes away empty-handed only when another was served
  from its bucket within the time of a token.
- `RefreshReachesRequests`: a request retried after a refresh carries another token than the
  one refused, and requests take the token by which expiry is judged. Nothing is promised to a
  retry with a token that was not new: TOTP mode answers a 401 with the token at hand while
  that has not expired, or with the file's; a failed log-in falls back to the settings'; a
  follower hears nothing of a failure or a time-out; one may join when the leader has written
  its token. After a webhook between two writes, requests and snapshot part until the
  next refresh, log-in or webhook.
- `FillsAddUp`: what is published of an order adds up to what was told of it, at most twice
  when the cache has forgotten it. Dhan loses a fill whose first update has no price yet, and
  both lose one when the bus raises for the `TRADE`; when it raises for the `ORDER_UPDATED`
  before, the next update makes up for it. Upstox publishes trades as well as the fills of order
  updates, which the position manager must tell apart.
- `RepeatsExcused`: one order to an id, and another at most for each overlap, crash, failed
  write, mixed file, expiry, and fresh file that goes with an expired one.
- `FillsBooked`: positions and trade book have every fill a caller was told of, whatever
  overlaps; the order manager has a trade for each and an order for each that did not repeat an id,
  unless placements overlapped, because they may then share a number.
- `SubscriptionsAsked`, `BooksOwned`: a live connection has been asked for all that is
  subscribed; no book has another's levels, unless a connection of 200 levels was asked for a
  second instrument.
- `OneFeed`: one process connects at a time, unless a `stop` did not wait for its thread.

### Bounds, and why they are enough

- `RetryExecutor`: three callers, two attempts, thresholds of two, two ticks open, one
  token. With a threshold of two, counts of an earlier state can be mixed with new
  ones; with three callers one can be late while another opens and a third probes.
- `DhanOrders`: two callers, two ids, a cache of one entry (so that the second id evicts
  the first), two attempts, a time to live of one tick, at most two lapses per id when
  a caller begins. Callers and ids are symmetric.
- `UpstoxOrders_race`: two callers under one id, at most two lapses and overlaps; in
  `Services` three callers and four, as ids do not meet in this cache.
- `DhanTokens`: two callers, the scheduler and both sockets; three tokens; one failed save or
  restart (`MaxFailures`, with a token left to be generated after it). Of the tokens those
  Dhan revokes of its own accord are limited by `MaxDead = 1` (more die when they are
  replaced); cooldown and backoff of one tick.
- `StreamOrchestrator`: two clients, two sessions, two brokers (one is only failed over to), two
  instruments; the request of one client is a part of, or different from, the session
  of the other; failover is due after one attempt. `c1` has failover disabled in the
  passing run, so that both kinds of session occur. Deadlock is not checked: a frozen
  loop really stops.
- `SubscriptionEngine`: two consumers, one instrument in two modes and another one, a
  limit of two lines, so that the limit refuses a third.
- `UpstoxStreams`: one instrument; a consumer on the loop that comes in one mode or another, and one
  in a thread that wants it in a mode with room for none, so that its request is refused; two
  sockets, so that two connects overlap and a reconnect meets either; one loss, one retry, one
  `disconnect()` at a time. For the violated run one consumer on the loop and three retries.
- `Services`: histories of up to eight days of which Dhan has six and Upstox two, chunks of
  two days, two fetched at a time, one change of the registry, each merge strategy; buckets of
  three tokens (one and a half unregistered) with a reserve of one, two threads; three tokens
  of Upstox, two threads; an order of three lots, one trade; two processes and four orders for
  the file and for paper, where a caller gives one id or none; two gateway threads, two instruments, one drop; a streak of two 429s.
  Two of each actor suffice for every race listed, as each is between two; a third token or
  order shows what the next one meets. Threads and gateway threads are symmetric. No service
  has to go on for ever, so deadlock is not checked.

### Fairness, and why the code justifies it

- `RetryExecutor`: threads run, time passes, callers come back (feeds and pollers do).
- `DhanTokens`: the same, plus: a token is granted to those who ask again and again (strong
  fairness of a renewal, and of a rejected request getting to its refresh), and Dhan
  closes sockets whose token is dead.
- `StreamOrchestrator`: the loop runs what is ready, asyncio locks are first come first
  served (strong fairness of putting the new handle in place), a broker asked again
  and again gives a stream. Whether a transport goes down, `stop` is called or a
  client leaves is free.
- `SubscriptionEngine`: threads run, `run()` returns on a closed socket; not every
  connection breaks before it is open, nor before its replay.
- `UpstoxStreams`: the loop runs what is scheduled, so a connect ends, and a reader and a
  `disconnect()` that has begun go on. A loss, the beginning of a disconnect and whatever
  consumers do is free. `FirstTicks` leaves out what ends a stream (a loss, a refusal, a
  disconnect, a reader without a loop, a connect that was crossed, or every
  socket of the bound used).
- Order placement and `Services` have no fairness: their properties are safety.

### What the exceptions of the properties leave out

Some properties hold only with an exception that is the very case of a hazard, because the
code leaves that case as it is. They catch what goes wrong *without* that case:

- `SubscribersStreamed`: instruments the broker refused in a merge (`failed`), and an orchestrator
  that is being stopped. `FeedDownUnused` does not say that a feed is ever taken down.
- `ReleasedUnlessMixed`: an instrument that had two modes keeps a line for ever (`mixed`).
- `ConsumersStreamed`: the socket that could not be closed (`unclosed`), the feed being stopped.
- `ConsumersAsked`, `StreamMatches`: a key whose request was refused or not sent (`unserved`).
  `FirstTicks`: a connect that was crossed (`crossed`).
- `StoreAgrees`: a token whose save failed. A restart then resumes with an older token; that the
  client recovers from this too is `ClientRecovers`.
- `PlanShares`: days past a request that ends before the recent window.
- `RefreshReachesRequests`: late joiners, tokens of file and settings, the crossing of a webhook.
- `FillsAddUp`: fills remembered and then not published, which are counted.
- `BooksOwned`: a second instrument of 200 levels. `OneFeed`: a `stop` that did not wait.
- `FillsBooked`: the order manager's books once placements have overlapped; repeats are counted.
- `EventsMatchOrders` is an upper bound: an announcement may be missing.

### What the violated runs show

Each states a sentence of the repository that the code does not keep.

1. `upstox/orders/idempotency.py` promises "order placement safety": two overlapping
   calls under one id both miss the cache and both place an order.
2. The orchestrator "owns the full lifecycle ... safe reconnect": after a failover the
   monitor has returned and the next loss is not repaired.
3. `stop()` is to "gracefully disconnect all sessions": the adapter awaits the end of a
   feed with a `threading.Lock` held; another task that wants it blocks the loop.
4. A feed silent for longer than the threshold is to be closed: the check needs
   `_is_connected`, which is false whenever the loop gets there.
5. A test of Upstox's feed says that instruments are restored by a reconnect, with a mock whose
   `recv` serves every socket: the reader keeps the `recv` of its first socket, so after a
   loss it fails until its retries are used up, and the new socket is read by nobody.

## 4. What is proved

Every theorem holds for every value of the constants that the named ASSUMEs of the modules
allow; TLC evaluates each of them on a run. They ask for little:

- `BreakerConfig`, `RetryConfig`: positive parameters, as the config classes enforce.
- `DhanOrdersConfig`, `DhanTokensConfig`, `StreamConfig`, `NoneIsNoRecord`,
  `SubscriptionAssumption`, `UpstoxStreamsConfig`: values that stand for "nobody" or "nothing" are
  none of the real ones, limits are numbers, and what is counted is finite (consumers, lines).
- Of `MCServices`, by component: `OrdersAssumption`, `CacheAssumption` and `PaperAssumption` (finitely many
  callers, processes, threads), `HistoryAssumption` (finitely many brokers, each with a look-back and
  a positive chunk size, as the capabilities of every broker give them), `QuotaAssumption` (a positive rate, unit and reserve; no call waits
  longer than a backfill), `TokensAssumption`, `FillsAssumption`, `DepthAssumption`, `AdmissionAssumption`.

The argument is the same everywhere: an inductive invariant, the conjunction of the types, the
property and the facts it rests on; it holds initially, one lemma for each action (or family of
alike actions) shows that the action keeps it, and it implies the property.

**RetryExecutor.** `Typing`, `RestBeforeHalfOpen`, `NoEarlyAdmission`,
`OpeningNeedsFailures`, `ClosingNeedsProbes`. Whether an open breaker may half-open is
decided by its own stamp, whether it opens by its own counters; the properties speak
of what an observer saw. So the invariant adds `CountersAgree`: in each state the
counter or stamp that matters there equals the history. The lemmas show this for each
operation of the breaker, the step lemma lifts it to the callers.

**DhanOrders.** `Typing`, `EveryDuplicateExcused`, `AnnouncedOnce`, and `Implementation`:
the specification implements `OrderService` under `KnownOrders`. Three facts are added
to the types. `HolderAlone`: a caller without an order has its id out of the cache, and
one past the put has its own order in it; this is what holding the lock over the whole
call gives. `OrdersCounted`: orders taken *or in limbo* exceed the lapses by no more
than the one remembered; without limbo a late answer would break the count.
`EventsBehind`: the order in a caller's hands has not been announced. One lemma per
action shows both the invariant and the abstract step or stutter.

**SubscriptionEngine.** `Typing`, `EveryConsumerServed`, `ReplayIsComplete`, `Released`.
`RefsCount` says that the counter of an instrument is the number of its users, and needs
`OneMode`, that a consumer has an instrument in one mode. Only then does "last reference"
mean "last user", and only then may a release drop the line. `Unmixed` says that an
instrument never used in two modes at a time has the one line of its users. For the
feed, `Replaying` says that during the replay what is subscribed was asked for or is in
the snapshot, and `ConnectedPc` that the feed counts as connected in no state before
that.

**DhanTokens.** `Typed`, `StoreAgreement`. `Written` says that memory and store part only while
somebody is between the change of the state and its save, or when the save is known to
have failed. It rests on the lock: only who is inside can be saving, so giving the lock back
closes every window, and a restart that cuts one off leaves the token in `unsaved`. `DeadGenerated`
says that a token that died had been generated, and `HandedOn` that what a caller or the
scheduler is about to install is a token: without it a client could be given none. That the
lock belongs to whoever is inside is part of the types.

**StreamOrchestrator.** `Typing`, `EverySubscriberStreamed`, `FeedsDownUnused`. `Placed` ties the place
of each task to what it works on; `BeingOpened` keeps the session that a client opens in the table
and out of the reach of everyone who disconnects; `Watched` gives a monitor at work a session and a
broker. `Whole` is the heart: a connected session has a stream for every instrument it lists, or
the broker refused it, *or a client is merging it at this moment*. `Merging` and
`Abandoned` say that the session a client merges into still lists what it asked for, and that
the one it disconnects has no consumers. These three hold only while the
orchestrator runs: `stop` takes sessions down without the lock.

**UpstoxStreams.** `Typing`, `EveryConsumerAsked`, `StreamsMatch`. Both properties are inductive but for
one fact, `Replayed`, through every order of connects, reconnects and disconnects that
forget each other's sockets: what the manager has recorded is among what is replayed on the next
socket, unless a request was refused. A reconnect sends all recorded modes if *anything* is
to be replayed; `Replayed` says that when nothing is, nothing is recorded but what was refused.

**Services.** `AdmissionImplemented` and its like say that `MCServices` implements each
component: whichever runs, each goes through its own specification (`Spec => Depth!Spec`). So the
invariants below are proved of the component by itself and hold in the composition.

- *Admission*, `OneFeedHolds`. `HeldIsLocked` says that who believes to hold the lock
  (`_lock_held`) has it; `SocketsHeld`, that no thread is in a socket without that belief unless
  a `stop` left it there. Two sockets would be two owners of one lock.
- *Depth feeds*, `SubscriptionsAskedHolds`, `BooksOwnedHolds`. `ListedComing` counts what is under way:
  what is listed and no thread is still subscribing was asked for or is to be sent. `CachedListed`
  and `Single` say that the books of a feed of 200 levels are of what is listed, and that this is
  one instrument until a second came.
- *Upstox tokens*, `RefreshReachesRequestsHolds`. Tokens are ordered by issue. `OneLeader` leaves one
  refresh at a time; `HoldingSnapshot` and `SavingHeld` order its three writes; `RefusedBefore` says
  that the token on its way is later than all that were refused before it, but for threads that
  came late, and `NewLater` that who was told of a new token finds a later one in the holder,
  unless an old one came back.
  Retries with a token of the file or the settings are outside the promise (`origin`).
- *Quota*, `QuotaInvariant`, `OnlyExecutionsExhaustHolds`. `ReserveRefilled`: a bucket with a reserve of a
  token holds a token, or at least what was refilled since an execution was last served.
  Data traffic may only take what is above the reserve, so it cannot break this.
- *Upstox orders*, `OrdersInvariant`, `EventsMatchOrdersHolds`, `ExtraOrdersAccountedHolds`. As for Dhan, with the
  calls that are under way without a lock: `OrdersCounted` adds what they may still place to what was
  placed, and bounds it by lapses, overlaps and the one order that is cached or about to be.
- *Cache in a file*, `CacheInvariant`, `RepeatsExcusedHolds`. `OrderKept`: orders placed or about to be
  exceed the excuses by one at most, and only while the file is live or a process is at work.
- *Paper*, `PaperInvariant`, `FillsBookedHolds`. `Tallied` counts the placements that stand at each place
  between a fill and the books, so that trades, positions and callers differ by these (the orders known by these and `repeated`);
  `NumbersUsed` and `AloneBooked` are for the books of the order manager, which are right as long as
  placements do not overlap.
- *Order streams*, `FillsInvariant`, `FillsAddUpHolds`. `SumsKept` relates what was published to the cumulative
  quantity in the cache and to the highest told, before and after the order was forgotten.

- *Historical coordinator*, `HistoryInvariant`, `PlanSharesHolds`, `LossShowsHolds`, `ConflictsSeenHolds`.
  `Planning` says of the plan that no day is in two chunks and none is left out between two
  (`ChunksTile` for the chunks of one broker, `PlannedShares` for the two ranges together);
  `Answered`, that an answer is what its broker has for the chunk, and that what went wrong is in
  the ledger; `Falling`, that a chunk is tried elsewhere only after it failed, and not at its own
  broker. Since chunks do not overlap and a broker returns at most the day before one, no day
  is in more than two answers (`AtMostTwo`). This is what makes the bar kept the newest of those that
  disagree: the merge compares each answer with the bar kept so far only. The merge is a recursive function over
  the positions of the plan; what it computes is shown with `SetInduction`, which is induction
  for the members of a *set* and needs no operator as a parameter.
- `TypesHold`: the types of the nine components, side by side.

Only model-checked: all liveness, which is `Recovery`, `ClientRecovers`, `MarketRecovers`, `SessionsRecover`,
`ConsumersStreamed` and `FirstTicks`. Liveness under fairness and ENABLED are beyond TLAPS. Every invariant
and every safety property of a step that a run checks is stated by a theorem.

## 5. What is not modelled, and known hazards without a property

- In the modelled parts: contents of orders, ticks and bars; metrics and logs; the fan-out
  of ticks to callbacks; the registry that creates buckets; modify, cancel and slices;
  TOTP and profile checks; order streams (in the orchestrator they are as market streams).
- Time is ticks, and no property measures it: that one order waits behind another's
  backoff in the lock of `dhan/orders.py` is true and unmeasured.
- A feed's `start` during a `stop` that waits for the thread leaves no thread behind:
  `ConsumersStreamed` leaves out a feed being stopped.
- A depth feed keeps a copy of the token. A refresh caused by a rejected request reaches the HTTP
  client only, and then the scheduler sees nothing to do: until the next renewal the depth
  feed is refused at every reconnect (`live["depth"]` in `DhanTokens`; no property).
- The reconnect loops of `dhan/reconnecting_service.py` end when their watchdog sets the stop
  event; the pool of depth-200 feeds calls a `close()` they do not have and is not told of new
  tokens; `TokenRefreshScheduler.stop` and `start` in quick succession leave two threads; the
  readiness probe refreshes without the lock; the pool of HTTP sessions hands one out while it
  closes it; the Dhan reconciliation takes a failed fetch for an empty book. None of these is
  modelled.
- `place_slice_order` of Dhan has neither cache nor risk check: repeated after a time-out it
  places the slices again. It is a plain POST, with no state to relate to.
- A session whose opening failed stays in `_sessions` (`OpenFails`) and counts as active.
- `subscribe_market` deduplicates callbacks but counts every call: two subscribes and one
  unsubscribe of one callback leave a stream without a consumer. The handles of the
  gateway adapter pair their calls, and the model has only those.
- An unsubscribe between the snapshot of `_on_connect` and its replay is undone at Dhan: the
  model has it (`asked` may exceed `subscribed`), and the code promises nothing about it.
- Upstox streams: `change_mode`, the backfill of gaps, decoding. Upstox tokens: the first log-in, OAuth without a refresh token. Depth feeds: the pool, the time-out of a read.
  Admission: the limit of reconnects. Paper: quantities, prices, funds.
- The Redis and memory caches of the port, which nothing builds; reconciliation, which compares
  two snapshots as a pure function; readiness, the HTTP pool. Gateways, mappers, loaders and
  configuration convert and delegate: most of the package's lines are of this kind, and a
  state machine says nothing of them.

## 6. Plan

Done: 1 `CircuitBreaker` and `RetryExecutor`; 2 `OrderService`, `DhanOrders`, `UpstoxOrders`;
3 `DhanTokens`; 4 `StreamOrchestrator`; 5 `SubscriptionEngine`; 6 `UpstoxStreams`; 7 the components of
`Services`; 8 proofs of the safety of all of these.

Next:

9. The watchdog of `reconnecting_service.py` and the pool of depth-200 connections.
