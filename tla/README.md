# TLA+ models of logstore-archive

This directory holds TLA+ models of the Log Store code in this repository. Each
one is checked with TLC. A module models one component of the code. An `MC*`
module gives its constants values for TLC. A `.cfg` file names what a run
checks. `PROJECT.json` links every definition to the source lines it models.
It also lists every run, every mutant, every finding and every hazard.

## 1. Inventory

The sources under `src/` are a few files of a larger monorepo, and some paths
are misleading. `src/packages/client/src/exports-commonjs.js` holds the
CommonJS entry point (lines 1-11). After it comes the whole `LogStore` class of
the broker's log-store plugin (lines 12-715). `src/unnamed/part_001` is
`SystemRecovery`. `src/packages/validator/src/validator.ts` holds the validator
hook (lines 1-21) and then the validator `Runtime` (lines 22-217).

### 1.1 LogStore (exports-commonjs.js), the core described by spec.md

| Component | State it keeps | Operations | Notes |
|---|---|---|---|
| Write Coordinator (`LogStore.store`, `close`) | `pendingStores: Map<uuid, Timeout>` | `store`, retry timer callback, `setImmediate` hand-off, batch callback, `close` | one promise per call; a missing bucket parks the message on a 500 ms timer that calls `store` again |
| Bucket Directory (`BucketManager`, **not under src/**) | known buckets per (stream, partition), counters `records`/`size` | `getBucketId`, `incrementBucket`, `getBucketsByTimestamp`, `stop`, background rotation | modelled from spec 4.1 |
| Write Batcher (`BatchManager`, **not under src/**) | per-bucket batches of pending inserts | `store(bucketId, msg, cb)`, flush, `stop` | modelled from spec 4.2 |
| `requestLast` | `total`, `bucketIds`, the result stream | `eachRow` pages over `bucket` (fetchSize 1), `COUNT(*)` per bucket, `makeLastQuery`, reverse | stops at `total >= limit` or 10000 |
| `requestFrom` / `requestRange` / `fetchRange` | the result stream, the physical query streams | argument check, `getBucketsByTimestamp`, fast path or three queries, `merge2` + `pipeline` | fail-fast on error |
| Result stream (`createResultStream`, `parseRow`) | Transform buffer (highWaterMark 1024), `last` | drop NULL payloads, emit `read`, yield every 100 ms | |
| Summary queries | none (reads `bucket`/`stream_data`) | first/last timestamp, `SUM(records)`, `SUM(size)` with a fallback when the sum is negative | |
| Bootstrap (`startCassandraLogStore`) | `retryCount` | `connect()` up to 20 times, 5 s apart | |

How they interact: a producer calls `store`. `store` asks the BucketManager for
the bucket of the message's timestamp. If it finds one, it increments the
bucket's counters and, in a `setImmediate`, hands the message to the
BatchManager. The batch callback then resolves or rejects the caller's
promise. If there is no bucket, `store` registers a timer in `pendingStores`
and runs again when the timer fires. `close()` clears those timers, stops both
managers and shuts the Cassandra client down. A reader calls one of the three
request methods. Each asks the BucketManager (`fetchRange`) or the `bucket`
table (`requestLast`) for buckets. It then issues physical queries and feeds
their rows through a Transform stream that the consumer reads or destroys.

### 1.2 Validator side

| Component | State | Operations |
|---|---|---|
| `SystemRecovery` (part_001) | `requestId`, `progresses: Map<broker, {timestamp?, isComplete}>`, subscription | `start` (subscribe, POST `/recovery`, seed progresses), `onMessage` (one `setImmediate` task per system message), `progress` getter, `stop` |
| `Runtime` key schedule (validator.ts) | `_startBlockNumber`, `_startKey` caches | `nextKey`, `startKey`, `getDataItem`, `summarizeDataBundle` |
| `Report` (report.ts) | the report under construction: `nodes`, `delegates`, `streams`, `consumers`, `treasury`, `events` | `load`, `generate` (storage quorum, `rewardNodes`, query fees, conversion to stake token, `sort`) |
| `Runtime.validateSetConfig`, validator hook | config | config parsing, RPC chain-id lookups |
| LSAN token (Token.sol) | ERC20 balances, whitelists, `treasury`, price parameters | admin setters, `mint`, `withdraw`, `transfer`, `transferFrom` |

`SystemRecovery` is fed by the system stream (message callbacks) and by an HTTP
response. Its handlers run concurrently on the event loop. `Report.generate`
reads the caches that the SystemListener fills, and the key range that
`summarizeDataBundle` derives from the bundle's keys.

### 1.3 What is hard, and what must hold

* Write path: timers racing `close()`; a `store()` after `close()`; a retry
  that must eventually land; counters bumped before the write can fail.
  * Every `store()` settles, or `close()` intervened.
  * A message parked at `close()` is never delivered afterwards.
  * Bucket counters count every handed-off message exactly once.
* Range queries: splitting a range into physical queries and concatenating
  them; failure of one query among several; consumer cancellation.
  * The output is exactly the stored messages in the range, each once, in
    (timestamp, sequence) order.
  * Fail-fast: after an error nothing more is delivered.
* `requestLast`: paging with a callback that may outlive its consumer.
  * It returns the newest `min(limit, 10000, stored)` messages in ascending
    order.
  * After the consumer destroys the stream, no further query is issued.
* Summary queries: 32-bit wrap-around of `SUM`.
* SystemRecovery: `onMessage` tasks interleave with each other and with the
  end of `start()`.
  * Recovery completes once every broker has sent RecoveryComplete.
  * It never reports complete before every broker's payload is applied.
* Report: integer division, per-event accumulation, loops over mutated arrays.
  * Node balances are the sum of all events' balance differences.
  * Treasury plus node shares never exceed the capture.
* Key schedule: consecutive reports partition the timeline.

The `hazards` list in PROJECT.json gives each of these at its source line.

## 2. Plan

The modules, in order of importance. The most important behaviour comes first.

1. **LogStoreWrite** (done): the write coordinator with a BucketManager and a
   BatchManager modelled from the spec.
2. **RangeQuery** (done): `requestRange`/`requestFrom`/`fetchRange` as a state
   machine. Its state is a small store of messages over a 2x2 grid of
   (timestamp, sequence), the physical query streams, `merge2`'s sequential
   reading, and errors and consumer destroy. A pure operator `Expected`
   gives the reference answer. An abstract `RangeReadSpec` (an ordered,
   exactly-once prefix of the answer) is checked by refinement.
3. **RequestLast** (done): buckets newest-first with record counts, `eachRow` paging,
   the final query, and the consumer destroying the stream. The COUNT
   `.low` conversion is modelled with a small word width.
4. **LogStore** (partly done): composes the bootstrap with LogStoreWrite.
   Still open: the read modules over a shared `stored` set, so reads run
   interleaved with writes and bucket creation.
5. **StreamSummary** (done): the four summary queries, with `SUM` modulo 2^w.
6. **SystemRecovery** (done): brokers, system-stream messages (RecoveryResponse,
   RecoveryComplete, foreign request ids), the POST response, and the
   interleaved `onMessage` tasks.
7. **Report** (done): `generate()` as a state machine: consolidation with the
   quorum, the fee split, one step per stream or query `rewardNodes` call, and
   one step per iteration of the conversion loops.
8. **Runtime** (done): `nextKey`, `getDataItem` and the report ranges of
   consecutive bundles, across node restarts.
9. **LSAN** (done): mint, whitelisted transfers, withdraw, forced MATIC.
10. Bootstrap retry (done): `Bootstrap`, composed with the write path in `LogStore`.

## 3. Modules and runs

### LogStore = Bootstrap + LogStoreWrite (`LogStore.tla`, `Bootstrap.tla`, `LogStoreWrite.tla`, `MCLogStore.tla`)

`LogStore` composes two components through named instances. `Bootstrap`
models `startCassandraLogStore` (lines 693-714): `connect()` up to
`nbTrials` = 20 times, with a 5 s `sleep` after each failure, returning
`new LogStore(...)` on the first success and throwing once the trials are
spent. `LogStoreWrite` (below) models the returned LogStore. A write step is
a step of `LogStoreWrite` taken once the bootstrap has returned
(`OnLogStore`); a bootstrap that throws leaves no LogStore.

| Model (Bootstrap) | Code |
|---|---|
| `retryCount`, `BootLoop` | `retryCount`, `while (retryCount > 0)` and the final `throw` |
| `ConnectSucceeds`, `ConnectFails` | `await cassandraClient.connect()` resolving (return) or rejecting (`retryCount -= 1`) |
| `Wake` | `sleep(5000)` resolving |
| `failures` | history: failed `connect()` calls |

Fairness of the bootstrap: weak fairness on `Connect` (the driver settles
each `connect()` with its own timeout) and on `Wake` (the timer fires). Which
way `connect()` settles is not assumed, so the run covers a database that
never answers, and one that answers after any number of failures. The run
uses the code's 20 trials.

#### LogStoreWrite

Correspondence with `LogStore` (exports-commonjs.js):

| Model | Code |
|---|---|
| `phase[m]` | idle → `parked` (timer live) / `immediate` (setImmediate queued) → `batched` → `done`; `cancelled` = timer cleared by `close()` |
| `outcome[m]` | the promise `store(m)` returned |
| `pendingStores` | keys of `this.pendingStores` (one uuid per live timer) |
| `buckets`, `records` | BucketManager's known buckets and `records` counters (spec 4.1) |
| `stored` | rows in `stream_data` |
| `Attempt(m, ps)` | the body of `store` (lines 93-127) |
| `Store`, `RetryTimer`, `HandOff`, `Flush`, `Close` | `store()` call, timeout callback (122-125), `setImmediate` callback (107-116), batch callback (108-115), `close()` (326-337) |
| `CreateBucket` | BucketManager rotation (spec 4.1, spec-modelled) |

Abstraction: a message is a model value. Its timestamp is reduced to the time
window it falls in, because `getBucketId` only asks whether that window has a
bucket. A flush takes any non-empty subset of a bucket's batch, which covers
every batch-size and timeout policy. After `close()` a flush can only fail,
because the client has been shut down.

Bounds: 3 messages. Two share window `w1`, so one bucket's batch and counter
see two messages. Windows `w1` and `w2` let one bucket exist while the other
is missing. Every interleaving of park, retry, bucket creation, hand-off,
flush and close among three messages is reached (725 distinct states; 14,541 with the bootstrap).

Fairness: weak fairness on the timer callback, the setImmediate callback and
the batch flush, because the Node event loop runs due timers and immediates.
Weak fairness on bucket creation follows the spec's assumption (4.3) that a
missing bucket appears soon. Producers and `close()` are callers and get no
fairness. In the composition these fairness conditions apply to the steps of
a LogStore that exists. Deadlock checking is off in this run: the only states
without a successor come after `close()`, when every store has settled or
been cancelled, or after a bootstrap that threw.

| Run | Checks | Result |
|---|---|---|
| `write_path` (`LogStore.cfg`) | `TypeOK`, `ParkedNotDeliveredAfterClose`, `StoreSettlesUnlessClosed`, `ThrowsOnlyAfterAllTrials`, `BootstrapSettles` | pass |

The bootstrap makes at most 20 `connect()` calls and throws only after
exactly 20 have failed (spec 5 and 7); it always settles. A loop condition
`retryCount >= 0` (21 calls) and a `sleep` whose timer never resolves are
both caught.

`StoreSettles` (defined in the module, not in a run) drops the `close()`
exception; checked in place of `StoreSettlesUnlessClosed` it is violated, and
shows a real disagreement. `close()` clears the retry timers
but never rejects their promises. A `store()` called after `close()` parks on
a new timer, and the stopped BucketManager never creates its bucket. In both
cases the caller's promise never settles. Spec sections 3 and 8 say such a
write is cancelled, never silently dropped.

The bucket counter `records` is incremented in the same step that queues
the hand-off, before the batch is written, so a failed flush leaves it above
the number of stored rows (a hazard). No run states that the counter equals
the stored rows: the code as written breaks it.

### RangeReadSpec (`RangeReadSpec.tla`)

This is the abstract contract of every read stream (spec 4.4 and 8). The
consumer sees the `answer` one element at a time, in order and each once. Then
it sees `end`. Alternatively, at any point before the end, the stream fails
and nothing more arrives. `answer` is a variable that no step changes. Each
implementation maps it to the reference answer of its own request. Weak
fairness on `Deliver \/ End` says that a stream that is not destroyed delivers
its whole answer.

### RangeQuery (`RangeQuery.tla`, `MCRangeQuery.tla`)

| Model | Code |
|---|---|
| `req` | the arguments of `fetchRange`, built by `RequestFrom` / `RequestRange` (lines 239-304) |
| `stored`, `nulls` | rows of `stream_data`; rows with a NULL payload |
| `buckets`, `BucketsInRange` | BucketManager's buckets, `getBucketsByTimestamp` (spec 4.1) |
| `stage` | `lookup` (bucket promise pending), `piping`, `done` |
| `queries`, `cur` | the rows each physical query still has to return, and the stream `merge2` is reading |
| `PhysicalQueries` | the fast path (one query) or the three queries of lines 368-441 |
| `status`, `buffer`, `delivered` | the result Transform: open/ended/failed/destroyed, or crashed by an uncaught error; its buffer; what the consumer read |
| `ResolveBuckets`, `LookupFails` | `.then` / `.catch` of `getBucketsByTimestamp` |
| `Pump`, `NextSource`, `QueryFails` | `merge2` passing a row through `parseRow` (NULL dropped), moving to the next stream, an error of the stream being piped, which `pipeError` passes on and the pipeline turns into destroying everything (443-455) |
| `QueuedQueryFails(i)` | an error of a stream `merge2` has not reached: all streams are started at once (438-441) and `merge2` listens for a stream's errors only when it pipes it, so the `'error'` event is thrown uncaught and the process stops |
| `Read`, `Destroy` | the consumer reading, or destroying the stream early |

A message key is `<<timestamp, sequenceNo>>` over timestamps 1..3 and sequence
numbers 0..1. Timestamps 1-2 fall in bucket window `w1` and timestamp 3 in
`w2`, so a range can span two buckets. `MaxTs = 4` stands for
`MAX_TIMESTAMP_VALUE`. Init chooses every stored subset, with at most one NULL
row, and every request. `Cap = 2` stands for the highWaterMark of 1024, so the
pump also blocks on a full buffer. The refinement mapping sends `answer` to
`Expected(req)`: the sorted stored non-NULL rows between the two bounds.

Fairness: the driver's streams, `merge2` and the bucket promise are run by the
event loop, so they are weakly fair. The consumer's reads are weakly fair. A
consumer that destroys the stream or a query that fails gets no fairness.

| Run | Checks | Result |
|---|---|---|
| `range_read` (`RangeQuery.cfg`, every request but a same-timestamp partial one) | `TypeOK`, `RangeReadSafety` | pass (211,422 states) |
| `range_same_timestamp` (`RangeQuery_sameTs.cfg`) | `RangeReadRefinement` | violation |

`range_same_timestamp` is a code bug. When `fromTimestamp = toTimestamp` and the
sequence bounds are not the full range, lines 368-441 issue
`ts = from AND seq >= fromSeq` and `ts = to AND seq <= toSeq`. They then
concatenate the results. `requestRange(1,0,1,0)` over the stored row `(1,1)`
delivers `(1,1)`, which lies outside the range. A row inside both bounds is
delivered twice.

`range_read` checks the safety part of `RangeReadSpec` only. With
`RangeReadRefinement`, which adds that a stream nobody destroys ends, the same
configuration is violated by `QueuedQueryFails`: a query that fails before
`merge2` reaches it throws an uncaught `'error'`, and the read neither ends
nor fails. Every failure of the stream being piped is handled as spec 8 asks.
The run budget holds no violation run for the uncaught error; the hazard list
records it.

While modelling `ResolveBuckets` we also saw that the `.then` at line 362
starts every physical query even when the consumer destroyed the stream while
the bucket lookup was pending. This contradicts spec 5: no query work should
continue after its consumer is gone. The consumer still sees nothing more, so
`RangeReadSafety` holds. No run checks that no query is started after a
destroy; the hazard list records the gap.

### RequestLast (`RequestLast.tla`, `MCRequestLast.tla`)

| Model | Code |
|---|---|
| `requested`, `limit`, `ClampLimit` | the argument and the `MAX_RESEND_LAST` clamp (132-135) |
| `nb`, `BucketAt(i)` | the partition's buckets; `eachRow` over `GET_BUCKETS` returns them newest first, one per page |
| `scanned` | `bucketIds.length` |
| `total`, `Low`, `CountOf` | `total += row.total.low` over `COUNT(*)` of the last bucket seen |
| `phase` | `page` (eachRow page pending), `count` (COUNT pending), `last` (`makeLastQuery` pending), `done` |
| `PageArrives` | the row callback and the end callback up to the COUNT (180-216) |
| `CountReturns` | the `nextPage()` / `makeLastQuery` decision (217-227) |
| `LastReturns`, `LastRows` | `makeLastQuery`: newest `limit` rows of the buckets seen, reversed, written, `end()` |
| `QueryFails` | any of the three `destroy(err)` paths |
| `Read`, `Destroy` | the consumer |

A row is its timestamp. Bucket window `w` holds rows `(w-1)*K+1 .. w*K`. When
the last page is empty, the end callback counts the previous bucket again, as
the code does. `total` then only grows after the decision is already final.
The bounds are 3 buckets of 2 rows each, limits 1..4, and `MAX_RESEND_LAST`
scaled to 3, so one request is clamped. `.low` is taken on a 2-bit word, so a
full bucket counts as -2. This exercises the hazard at line 221: a count that
wraps only under-estimates `total`, so the scan goes on and the answer stays
right. Buckets with one row stop the scan before the oldest bucket.

Fairness: the driver's callbacks (`PageArrives`, `CountReturns`,
`LastReturns`) and the consumer's reads are weakly fair. Failures and destroy
are not.

| Run | Checks | Result |
|---|---|---|
| `request_last` (`RequestLast.cfg`) | `TypeOK`, `RequestLastRefinement` | pass (44,661 states) |

`request_last` refines `RangeReadSpec` with `answer` mapped to `Expected`: the
newest `min(limit, MAX_RESEND_LAST)` stored rows, without NULL payloads,
oldest first. The end callback (line 199) has the same cancellation gap as
`fetchRange` (line 362). It tests only `writableEnded || readableEnded`,
so after the consumer calls `destroy()` the COUNT, `nextPage()` and the final
query still run. The hazard list records this. No run repeats the property
here.

`makeLastQuery` ignores `write()`'s return value. The Transform's readable side
still stops at its highWaterMark, and the rows are already held in the
`resultSet` (`fetchSize: 0`). So this costs memory but changes no observable
behaviour, and it is not a property.

### SystemRecovery (`SystemRecovery.tla`, `MCSystemRecovery.tla`)

| Model | Code (`src/unnamed/part_001`) |
|---|---|
| `pc` | how far `start()` is: `Subscribe` (56-58), `SendRequest` (60-82: requestId drawn, POST sent), `PostReturns` (84-92), `StartFails` (`getBrokerEndpoint` throws or the POST rejects) |
| `entries`, `ts`, `complete` | `this.progresses` and the `timestamp` / `isComplete` of each object it holds (`UNDEFINED` for `undefined`) |
| `gen`, `hgen` | object identity: an entry replaced at line 86 is a new object, and a task that fetched the old one at line 152 writes to the old one |
| `ProgressComplete` | the `progress` getter (99-115) |
| `sent`, `recv` | broker answers published for our requestId, and those whose `onMessage` task has started (per broker, in order) |
| `ReceiveResponse`, `ApplyItem` | the RecoveryResponse branch; one step per payload item (the `await onSystemMessage` and the timestamp write) |
| `ReceiveComplete` | the RecoveryComplete branch up to `stop()`, which is synchronous |
| `Foreign(p)` | a recovery message of another requestId: the entry is created, then the check returns |
| `subscribed` | the subscription; `stop()` ends it |

The brokers are the environment. A broker named by the POST response publishes
its RecoveryResponse and then its RecoveryComplete once the POST is sent,
possibly before the POST returns. Tasks start in the order their messages
arrive, because `setImmediate` is FIFO. Everything a task does before its first
`await` is one step.

Bounds: broker `b1` has a payload of two messages and `b2` an empty payload, so
`b2`'s RecoveryComplete takes the `timestamp = 0` branch. `Outsiders` is empty in every run.
`Foreign` messages come from the named brokers.

Fairness: brokers answer, and the subscription and the event loop run every
task (weak fairness on `Publish`, `ReceiveResponse`, `ApplyItem`,
`ReceiveComplete`). `start()`'s own steps, failures and foreign messages are
not assumed. The liveness properties are stated from the moment `start()` has
returned.

| Run | Checks | Result |
|---|---|---|
| `system_recovery` (`SystemRecovery.cfg`) | `TypeOK`, `CompleteMeansAllCompleted`, `RecoveryCompletesUnlessEarly` | pass (833 states) |
| `system_recovery_payload` (`SystemRecovery_payload.cfg`) | `CompleteOnlyAfterAllApplied` | violation |

What the runs show:
* Completion is reported only after every named broker's RecoveryComplete.
  Recovery always completes unless a broker's answer ran before the POST
  returned.
* It can complete while `b1`'s payload is still being applied.
* An answer that runs before the POST returns is wiped out at line 86, and
  recovery then never completes: `RecoveryCompletes` (in the module, not in a
  run) drops the exception and is violated when checked in its place.
* The model also shows a further problem, recorded as a hazard and not checked
  by a run. onMessage creates the progress entry before the requestId check.
  So a foreign-request message from a publisher the POST did not name leaves
  an entry that never completes.

### StreamSummary (`StreamSummary.tla`, `MCStreamSummary.tla`)

The four summary queries are operators over the current state. The state is one
stream partition's `bucket` rows (`records` and `size` columns, in
`date_create` order) and its `stream_data` rows (`rows[i]`). A history of
writes moves it along:

| Model | Code |
|---|---|
| `GetFirstMessageTimestamp`, `GetLastMessageTimestamp` | oldest / newest bucket, then its oldest / newest row, else 0 (518-602) |
| `GetNumberOfMessages` | `SUM(records)`, returned as is (604-623) |
| `GetTotalBytes` | `SUM(size)`, and the row-by-row sum when it is negative (625-659) |
| `Int32` | Cassandra `int` arithmetic on a W-bit word |
| `Store(s)` | `store()` with its bucket found: `incrementBucket(bucketId, byteLength)` (93-106) |
| `Flush`, `WriteFails` | the BatchManager writes the row, or the write fails and the counters stay incremented |
| `CreateBucket` | rotation: a new newest bucket once the current one has taken writes (spec 4.1) |

Bounds: `int` is 3 bits wide (-4..3). There are up to 3 buckets of at most 3
bytes, up to 4 messages, and messages of 1 or 3 bytes. The size sum therefore
reaches the negative range (4..7) and the wrapped non-negative range (8, 9),
and four records wrap to -4. The spec has no fairness: all the properties are
invariants.

| Run | Checks | Result |
|---|---|---|
| `summary_bytes_below_2w` (`StreamSummary.cfg`) | `TypeOK`, `TotalBytesExactBelow2W` | pass (2,372 states) |

What the run shows, and what the model shows beyond it:
* The slow path makes `getTotalBytesInStream` exact up to 2^32 bytes (4 GiB).
  Past that, the wrapped SUM is non-negative and is returned as it is. With
  the 2^W antecedent dropped, TLC finds this at 8 bytes; no run keeps that
  check.
* `getNumberOfMessagesInStream` has no slow path at all, so the same wrap
  reaches it. This is recorded as a hazard.
* Right after a rotation, before the first flush into the new bucket
  (a hazard, with no run),
  `getLastMessageTimestampInStream` returns 0 for a stream that holds
  messages. `getFirstMessageTimestampInStream` does the same when the oldest
  bucket's writes failed, because `store()` increments the counters before the
  write.

### Report (`Report.tla`, `MCReport.tla`)

`Report.generate` (`src/packages/validator/src/core/report.ts`) runs in
sequence inside one validator. It has no concurrency: its awaits (the Arweave
price and `fromUSD`) only hand back values. The model therefore takes one step
per `rewardNodes` call and one step per iteration of a conversion loop, the
steps at which a balance or a list changes.

| Model | Code |
|---|---|
| `proofs`, `queries` | storage proofs (`<<publisher, message>>`) and query requests the listener cached in the key range |
| `ProofsOf`, `Counted`, `BytesOf`, `ContributorsOf` | the broker filter (225), the hash map, the quorum `storeKeys.length >= brokerNodes.length / 2` (254), and `streamsMap` with bytes added once per proof (206-290) |
| `Fees`, `fees`, `tm` | expense per byte, write / treasury / node fees, read fees (296-316, 346-352); `tm` is `fees.treasuryMultiplier` |
| `RewardDiff` | `rewardNodes`' per-node difference: `amountPerNode`, bystanders, `rewardPerRecipient`, penalty (144-181) |
| `RewardNodes` | the same loop applying it. Line 169 resets every balance to 0, since `typeof` a BigNumber is `'object'`; `acc` records what the balance would be without the reset |
| `DelegPairs`, `Stake`, `DelegatePortion`, `delegates` | the delegate loop of `rewardNodes` (182-196): each `<<delegate, node>>` entry of `bNode.delegates`, `bNode.stake`, and `delegateAmount.div(bNode.stake)`; line 190 resets each entry to 0 like line 169 |
| `RewardStream(id)`, `StorageDone` | the storage hydration loop (318-333) |
| `RewardQuery(q)`, `QueriesDone` | the query loop: the consumer's capture, the treasury, `rewardNodes` without penalty (354-410) |
| `ConvertStream`, `ConvertConsumer`, `Converted` | `for (const x of list) list.push(converted x)` (417-430) |
| `StreamsConverted`, `ConsumersConverted` | leaving those loops; the delegates erased by line 438, the treasury converted, sort (431-464) |

Bounds: 3 brokers, 1 other publisher, 2 messages of 2 streams (2 and 1
bytes), 2 query requests of one consumer (one answered by two brokers, one by
a broker with an outsider), and every subset of proofs and requests. Fees use
`writeMultiplier = 2`, `readMultiplier = 1`, `treasuryMultiplier` in {0, 1},
and an Arweave price of `2b + 1`, so the division per byte has a remainder.
The multipliers are integers: `BigNumber.mul` throws on the defaults' 0.5 and
0.05 (a hazard). `fromUSD` is multiplication by 3. `MaxListLen = 4` bounds
the lists the conversion loops grow. Two delegators: `n1` is staked by one
delegate alone (portion 1), `n2` by two (3 of stake 1 and 2, portions 0),
`n3` by none. `bNode.stake` comes from the chain; the model takes it as the
sum of the delegations, the case in which a portion can reach 1. The spec has no fairness; its
properties are invariants.

| Run | Checks | Result |
|---|---|---|
| `report` (`Report.cfg`) | `DelegateSharesWithinNode`, `TypeOK`, `NoValueCreated` | pass (21,504 states) |
| `report_balances` (`Report_balances.cfg`) | `NodeBalancesAccumulate` | violation |
| `report_conversion` (`Report_conversion.cfg`) | `ConversionVisitsOriginalsOnly` | violation |

* `NoValueCreated`: while the report is in USD, the treasury plus the nodes'
  balance differences never exceed the captures of streams and consumers. The
  penalise branch keeps this only because `amountPerNode` rounds down and the
  bystanders' share is divided among the recipients. A node fee that does not
  deduct the treasury's margin breaks it.
* `DelegateSharesWithinNode`: the entries one `rewardNodes` call gives a
  node's delegates add up, in magnitude, to at most the node's own
  difference. A division the wrong way round (stake by amount) breaks it.
  The integer division makes the portion 0 for every delegate of a node with
  more than one delegate, so they are credited nothing (a hazard).
* `report_balances` is a code bug. After two rewarded streams, or a stream and
  a query, each node's entry holds only the last call's difference. A zero
  read fee then wipes out the storage rewards.
* `report_conversion` is a code bug. The conversion loops iterate an array
  they push onto, so `generate()` never returns once any stream or consumer is
  in the report. The model stops at `MaxListLen`; each step of the loop adds
  exactly one entry, so the distance to the end never shrinks.

### Runtime (`Runtime.tla`, `MCRuntime.tla`)

The validator's key schedule in `validator.ts`. The KYVE node (outside this
repository) loops: `nextKey(current)`, then `getDataItem(key)` until it is not
null, and `summarizeDataBundle` once `max_bundle_size` items are cached. A key
is a second; the pool's initial key `""` is 0.

| Code | Model |
|---|---|
| `this.config` (sources, `systemStreamId` of the chain) | `config` |
| `validateSetConfig`: empty sources, polygon-rpc.com rewrite, chainId loop, `ContractAddresses[chainId]` | `RewrittenSources`, `SourcesAgree`, `ConfigValid`, `ConfigAccepted`, `ConfigRejected` (the node stops) |
| `_startKey`, `startKey()`, `startBlockNumber()` | `startKey`, `StartKey` |
| `nextKey` | `NextKeyOf`, action `NextKey` |
| `getDataItem` (null while `keyInt > time.latestTimestamp`) | `GetDataItem` |
| `summarizeDataBundle` (`firstItem.key - KEY_STEP` .. `lastItem.key`) | `BundleStartKey`, `SummarizeDataBundle` |
| TimeIndexer's `latestTimestamp` grows | `TimeAdvances` (environment) |
| node restart: caches, config and the unreported bundle are lost; the config is validated again | `Restart` |

Sources are model values with the chain their provider reports: two on the
contracts' chain, one on a chain without `ContractAddresses`, and a
polygon-rpc.com source. The pool configs cover an empty list, agreeing and
disagreeing sources, an unknown chain, and polygon-rpc beside a source of the
other chain (the rewrite discards that source, so the config is accepted).

Fairness: weak fairness on config validation, on the loop's three steps and on the TimeIndexer
(the node loops while it runs, and the indexer keeps indexing); none on
`Restart`, which is bounded by `MaxRestarts`. Bounds: start key 3, bundles of
2, time up to 8, 2 restarts (646 states): enough for three reports, restarts
before, within and after a bundle, and items that must wait for the indexer.

| Run | Checks | Result |
|---|---|---|
| `runtime_keys` (`Runtime.cfg`) | `TypeOK`, `ReportsTile`, `ReportsNotAhead`, `KeysEventuallyReported` | pass |

The reports tile the time line from one second before the start key, with no
gap or overlap, across restarts; no report reaches past `latestTimestamp`; and
every key that completes a bundle is eventually reported, unless the node
stopped on a rejected config. `validateSetConfig` is modelled so that the
rejected configs halt the node; no property restates its checks. Deadlock checking is
off: the model stops at `MaxTime`.

### LSAN (`LSAN.tla`, `MCLSAN.tla`)

The LSAN token contract `Token.sol`: one action per public function, with the
caller, amount and address chosen by `\E`.

| Code | Model |
|---|---|
| `initialize` | `Init` |
| `mintTokens`, `burn` (owner) | `MintTokens`, `Burn` |
| `whitelistSender`, `whitelistRecipient` | `WhitelistSender`, `WhitelistRecipient` |
| `withdraw` (`treasury -= amount` under 0.8 checked arithmetic, then `transfer`) | `Withdraw` |
| `setMaticPerByte`, `setTotalBytesStored`, `setMinimumDeposit`, `setMultipler`, `setNodeManagerAddress` | the setters |
| `getTokenPrice`, `mint` (payable) | `TokenPrice`, `Mint` |
| modifiers `onlyWhitelistedSender` / `onlyWhitelistedRecipient` | operators of the same names |
| `transfer`, `transferFrom`, `approve` | `Transfer`, `TransferFrom`, `Approve` |
| MATIC sent by another contract's `selfdestruct` | `ForcedEther` (environment) |
| `block.timestamp - DEPLOYED_TIME`, in seconds | `Tick` |

No fairness: every step is a caller's choice. Bounds: three addresses (one
holder, the node manager and another), balances up to 2, treasury up to 2,
deposits of 1 or 2, a price of one MATIC per token one second after the
deployment that falls to 0 (so `mint` reverts) a second later, since
`getTokenPrice` divides by seconds times the milliseconds of a day; the
multiplier left at 1, set to 0 (every `mint` reverts) or doubled (a deposit
of 1 buys no token) (1,046,112 states, about a minute). Deadlock is checked; `Tick` and the setters always leave a step.

| Run | Checks | Result |
|---|---|---|
| `lsan_token` (`LSAN.cfg`) | `TypeOK`, `ManagerCreditGuarded`, `SurplusLocked` | pass |

Tokens reach the node manager only from a whitelisted
caller, the owner's `mintTokens`, or the manager itself: the modifier checks
`msg.sender`, so a `transferFrom` by a whitelisted spender moves tokens of any
owner to the manager. `SurplusLocked`: the MATIC held beyond the treasury
never decreases. `withdraw` checks only the balance, but `treasury - amount`
reverts first, so MATIC forced in is locked in the contract for good. A
decrement that saturated at 0 instead of reverting would let it out. As the
surplus starts at 0, it also keeps the treasury backed by the contract's
MATIC.

## 4. Not modelled

* The 100 ms cooperative yield in `createResultStream`. It is a timing
  property of the event loop, not a state change.
* The validator hook `validateDataAvailability` (the SystemListener and
  TimeIndexer it starts are not under src/), the provider and ABI helpers, error classes, enums and the CommonJS entry. These are I/O,
  formatting or declarations.
* Metrics (`enableMetrics`). They only subscribe to events.
* In `Report`: `load` (decoding a stored report, or the empty report for
  key 0), the early return of `generate` for key `'0'`, and `sort`, which
  permutes the report. The delegates' conversion is reachable only with
  empty delegates (the conversion loops never end otherwise), so it is
  modelled as the erasure of line 438. Publisher ids that differ only in case, and duplicated cache
  entries of one broker's proof, are hazards without a run.
* In `LSAN`: `destroy`
  (empty) and the UUPS upgrade machinery (OpenZeppelin).
