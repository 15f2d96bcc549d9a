# Verification of midnight-indexer

TLA+ models of the Midnight indexer, the TLC configurations that check them on
small instances, and TLAPS proofs about seven of them. `PROJECT.json` lists
components, runs, mutants, the source lines behind every definition, findings,
hazards and theorems.

To reproduce, in this directory: `tlc -config <file>.cfg <module>` for a run (its
module is in `PROJECT.json`), `tlapm <module>Proofs.tla` for the proofs.

## The system

Four services share one database and a publish/subscribe layer; the standalone
build runs them in one process on SQLite and in-memory channels instead of
PostgreSQL and NATS.

| Part | State | Operations | Talks to |
|---|---|---|---|
| chain-indexer, indexing loop (`chain-indexer/src/application.rs`) | in-memory ledger state, window of persisted state keys, caught-up flag | start-up (repair, seed, load), apply, persist, save, publish, trim, collect | node stream, database, ledger DB, topics |
| chain-indexer, node stream (`infra/subxt_node.rs`) | last block, subscription, catch-up position | subscribe, catch up by height and by hash, follow, recover, drop what does not extend | node |
| chain-indexer, storage (`infra/storage.rs`) | all chain tables | `save_block`, one transaction | database |
| ledger state and ledger DB (`indexer-common/.../ledger_state.rs`, `ledger_db/v1_1.rs`) | arena nodes, root counts, unflushed count changes | persist, unpersist, repair, collect, load | storage-core (external) |
| pub/sub (`indexer-common/.../pub_sub`) | subscriptions, queues | publish, subscribe, receive | NATS or broadcast channels |
| wallet-indexer | highest announced id, list of active wallets, one task per wallet | list and expire, scan forward and backward, record, publish | database, topics |
| indexer-api, sessions | session and last activity of a wallet | connect, disconnect, keep active | database |
| indexer-api, subscriptions | cursor, fetched batch | resolve start, fetch, yield, wake | database, topics |
| indexer-api, ledger state cache, progress cache, quotas | cached state; entries; counters and buckets | reload; share; acquire and drop | ledger DB, database |
| indexer-api, queries | none of their own | read | database |
| spo-indexer | fetched epoch, page of pools | process the next epoch, refresh stake | node, database |

What makes it hard, and where the models put the weight:

- *Two stores, no shared transaction.* A ledger state is persisted in the ledger
  DB, then the block that names it is saved. The process may stop at every step
  and may come back with another retention.
- *Unreliable sources.* A node subscription repeats, skips, ends or goes silent;
  a request by height may be answered by a peer that is behind.
- *Signals that get lost.* Messages only say that there is something new. Every
  follower has to be right when one is missing, late or twice.
- *Several writers.* Replicas of the wallet-indexer share wallets; clients
  reconnect with other start indexes while scans run; sessions are expired from
  readings that are no longer true.
- *A ledger kept twice.* The indexer repeats what the node did, from blocks whose
  encoding, ledger version and authority set change on the way, and copies parts
  of the result into tables.
- *Reads without a snapshot.* A GraphQL answer is put together by several
  statements, and lazily from ledger states that are pruned meanwhile.
- *Cursors.* Every subscription and scan remembers a position, in ids, heights or
  tree indexes, with inclusive and exclusive ends.

## Modules

| Module | Models | Actions |
|---|---|---|
| `LedgerRetention` | ledger state persistence in the indexing loop, ledger DB | `Repair` `SeedWindow` `ApplyBlock` `Persist` `SaveBlock` `Publish` `PushBack` `PopFront` `EndTrim` `CollectGarbage` `Stop` |
| `ChainLog` | abstract: what the blocks table promises | `Finalize` `Record` |
| `BlockStream` | `finalized_blocks`, `node_blocks`, the buffer; implements `ChainLog` | `Subscribe` `ReceiveFirst` `FetchByHeight` `WalkBack` `FetchByHash` `ReceiveLive` `Recover` `IndexBlock` `StopOnError` `Start`, and the node's and operator's |
| `NodeRuntime` | `make_block` and the runtimes: from what the node answers to a block | operators |
| `LedgerApply` | applying transactions of both ledger versions, and what is extracted | operators |
| `ChainTables` | `save_block`: the tables, one operator per `save_*` | operators |
| `Indexing` | the chain-indexer from node to tables, composing the three | `Produce` (node) `HighestBlock` `Make` `IndexBlock` `Publish` `Start` `Stop` `Resubscribe` |
| `ContractLog` | payloads of contract events, encoded and decoded | operators |
| `LogEmission` | one log from contract to attributes | `Emit` `EmitSuperseded` `EmitOther` `Decode` |
| `ApiStorage` | the API's SQL statements over `ChainTables` | operators |
| `ApiQueries` | GraphQL queries statement by statement beside `Indexing` | `Save` `Ask` `AskedBlock` `AskedTransaction` `AskedContract` `AskedDust` `AskedStatus` `AskedPool` `AskedBalance` |
| `WalletIndexer` | wallet-indexer replicas, sessions, expiry | `Connect` `Disconnect` `KeepActive` `TimePasses` `SaveBlock` `ReceiveBlockIndexed` `ListWallets` `ExpireSessions` `ScanBackward` `ScanForward` `CommitBackward` `CommitForward` `PublishWalletIndexed` `StartReplica` `StopReplica` |
| `PubSub` | one subscription to one topic, both transports | operators the feeds conjoin |
| `Paging` | `ORDER BY ... LIMIT n` over the rows a query selects | operators |
| `LiveFeed` | subscriptions that follow a table by an ascending key | `SaveBlock` `Announce` `StopIndexer` `Subscribe` `ResolveHeight` `LocateContractAction` `CheckToBlock` `Fetch` `ReachToBlock` `Yield` `Poll` `Wake` `Fail` `Drop` |
| `ProgressCache` | the cache that progress is polled through | operators `ShieldedFeed` conjoins |
| `ShieldedFeed` | the shielded subscription next to the wallet-indexer, its progress | as `LiveFeed`, `SaveTransaction` `IndexOther` `ScanForward` `ScanBackward` `ConnectWallet` `DisconnectWallet` `MakeProgress` `EndProgress` `ExpireProgress` |
| `SubscriptionQuotas` | places per connection, token bucket per session | operators `LedgerReads` conjoins |
| `LedgerReads` | cached Merkle updates, dust snapshots, quotas, beside saving and pruning | `SaveBlock` `Collect` `Ask` `Acquire` `AcquireToken` `Disconnect` `FindBlock` `CheckAge` `CheckLoadable` `LoadSnapshot` `FindCutoff` `StreamDtimes` `FetchEntries` `YieldEntry` `Complete` `AskVersion` `CachedUpdate` `PassTime` |
| `PinnedSnapshots` | property: what a dust snapshot is pinned to | |
| `SpoIndexer` | spo-indexer | `FetchEpoch` `SaveEpoch` `ReadPage` `SaveStake` `AdvanceCursor` `AbandonPage` `Stop` `Start` `Tick` |
| `SpoQueries` | the API's SPO queries over its tables | operators |
| `LedgerRetentionProofs`, `BlockStreamProofs`, `WalletIndexerProofs`, `LiveFeedProofs`, `ShieldedFeedProofs`, `LedgerReadsProofs`, `LedgerStateProofs`, `SpoProofs` | theorems | |
| `MC...` | symmetry, chains, requests and registrations for TLC | |

### LedgerRetention

A ledger state is its arena root. `chain` gives the root each block leads to and
is an arbitrary function, so blocks may share a root and a state may return.
`stored` is `ledger_db_roots`, `pending` the count changes storage-core has not
flushed, `intact` the roots whose nodes are all present, `window` the deque of
persisted keys (a set of blocks: it is always in block order). `Persist` flushes,
`PopFront` does not, which is how `LedgerState::persist` and `unpersist` differ.
Initial states are an empty database or one written by an earlier release, whose
counts were capped at two; `repair_root_counts` documents that case. Storage-core
is external: a flush panics on a negative count, a sweep removes any part of what
no count holds, and whether a sweep flushes first is left open. Comparing the
zswap root with the node's after applying a block is the guard of `ApplyBlock`:
a wrong in-memory state ends the process.

### BlockStream and ChainLog

A block is a number and whether it is on the finalized chain; there is one fork.
The model keeps the two regimes of catching up (by height up to a safety margin
below the first head, by hash above), the duplicate filter of the subscription,
`node_blocks`' check against its highest block and the buffer, which is polled
only while it has room. A peer that answers by height is at most the margin
behind, which is what `FINALIZATION_SAFETY_MARGIN` assumes. `Log` maps the saved
blocks to `ChainLog`'s log; the run checks safety and liveness of that mapping.

### Indexing: NodeRuntime, LedgerApply, ChainTables

The node is part of the model: `Produce` builds a block from one of the `Bodies`,
executes it with the same ledger library (`LedgerApply`'s external operators) in
the node's order, and rotates its authorities. What the indexer sees of it is what
subxt hands over: digest logs, extrinsics, events, and storage at the block's hash.
`Make` is `make_block` with its cache of authorities and the choice of runtimes,
including the block that enacts an upgrade, whose content is of the old version
and whose state is of the new. `IndexBlock` is `index_block` up to the commit:
ledger translation at a version change, both kinds of genesis state, the time the
first regular transaction is checked with, system and regular transactions with
partial success, cost and fee price, the comparison with the node's root, system
parameters, and `save_block`. A table is the sequence of its rows; a save that
fails rolls back. A ledger state is what the tables are made from: commitments,
generations, UTXOs, what the bridge owes, contracts, fullness, fee prices.

A transaction has two costs. The fullness of a block grows by the stateless one
with either ledger version; the fees of version 9 are computed from the one that
depends on the state, and computing them fails if a cost exceeds the block limits,
which stops the indexer. That no included transaction has such a cost, by either
measure, is assumed of the node (`NodeAccepts`). The bridge keeps a fee: deposits
are recorded gross, what the ledger owes and what is claimed is net.

So the properties compare two executions of the same chain, the node's and the
indexer's, and the tables with the ledger. The code compares the roots of the whole
ledger state for genesis only; `LedgerIsNodes`, a part of `TablesAreLedger`, says
that the states agree for every saved block, fee prices included.

### ContractLog and LogEmission

A contract event is a struct; the payload is its fields one after the other with
trailing zero bytes dropped, as the ledger's atoms are. `ContractLog` has the
layouts, current and superseded, and the decoder with its minimum sizes and
defaults. `LogEmission` emits every struct over small widths and two byte values.

### ApiStorage and ApiQueries

Every statement is an operator of the tables. A query is a sequence of them, and
blocks are saved in between: properties say to which block, or to which blocks
between the first statement and the last, an answer belongs. Ledger states are
culled as the chain-indexer does after it announced a block (`Culled`): each pass
of the collection is taken to be complete, which `LedgerRetention` has in detail,
and equal states are one root. `contractZswapState` looks whether the root is there
and then loads it, in two steps: a state may be culled in between, which is a panic.
The balance of a bridge recipient loads the newest state without looking. Answers that are
single statements (events of contracts, nullifiers by prefix, unshielded history,
transactions by offset, pages) are compared with the node's chain in every state.

### WalletIndexer

One wallet: wallets share only the tables. A scan is two steps, reading under the
lock and committing, so that reconnects, announcements and other replicas come in
between. `BlockIndexed` reaches any subset of the running replicas. `origin`
and `ahead` remember where the row was first created and whether the table had
got that far; no action reads them. Listing and
expiring are two steps as in `active_wallet_ids`, and the update may be refused
(`ignore_deadlock_detected`).

### PubSub, LiveFeed and ShieldedFeed

`PubSub` holds one subscriber's view of a topic over the transport of its build.
NATS: subscribed when first polled and again after a loss, any message may be lost.
In memory: subscribed at once, bounded, lagging is an error item. `LiveFeed` covers
blocks, contract actions, contract events, zswap and dust ledger events, unshielded
transactions and bridge events; `feed` selects how the start is resolved, when the
topic is subscribed to, which rows and messages are selected, whether a message
fetches one batch or all, and whether there is a terminator. The nullifier
subscriptions work in rounds that start again from `last_round`. `ShieldedFeed`
follows tree indexes instead of ids and sends collapsed updates for the gaps.
Transactions are saved and other wallets are scanned while it runs: the checked index
of progress is that of the wallet that is furthest (`others`). Next to it,
subscriptions of the same wallet poll their progress: `ProgressCache` has the entry,
its expiry, the one query that all wait for, its failure, and the end of the
subscription that runs it. A scenario has either a transaction stream or pollers,
which share nothing but the wallet. Rows are fetched in pages: `Paging` says what
makes a sequence the page of a query, and a fetch takes such a sequence.

### LedgerReads and SubscriptionQuotas

A behaviour has a cast of tasks: subscriptions that compete for places and tokens,
a dust snapshot on a growing chain, queries that share the cached ledger state.
`Collect` is the chain-indexer's pruning. A state is loaded lazily, so reading from
one that was collected meanwhile may work or panic. Times are in seconds and
tokens in parts of a minute, so that the bucket's arithmetic is exact.
`PinnedSnapshots` states what a completed snapshot consists of.

### SpoIndexer and SpoQueries

Time is counted in slots. The epoch task fetches and then saves in one
transaction; the refresh task commits one row per pool and then the cursor, which
are separate steps. A behaviour has reports from which pools may be missing later,
or none such (`departing`). `snapshots` is the set of pools with a row, as the API
tells no more apart. `listed` and `due`, the pools that have to be visited before
a pool's next row, record history for `PoolsTakeTurns`; no action's guard reads
them. `updated` is the epoch whose save
touched a pool: all pools of a save have one time, as PostgreSQL's time of the
transaction gives them (SQLite's is that of the statement, so a save that crosses a
second may split them). `SpoQueries` reads the tables the way the API does, and
properties relate its queries to each other.

## Runs

Bounds are in the configurations; each run takes less than three minutes with two
workers.

| Run | Shows | Distinct states |
|---|---|---|
| `ledger_retention` | five blocks over two roots, two stops anywhere, another retention at any restart: no negative count, no failed start, the newest blocks loadable, every block indexed in the end | 163 372 |
| `block_stream` | three faults, five blocks, every fork point: implements `ChainLog`, so the finalized chain is saved in order and to its end | 30 480 |
| `index_pipeline` | genesis of either kind and three blocks out of seven bodies, an upgrade, session changes, a stop, resubscriptions: no block is refused; authors are the producers; the ledger states are the node's; UTXOs, tree ranges, dust generations and the bridge's books agree with them, registrations and events with the chain | 37 520 |
| `api_queries` | thirteen requests of seven kinds while three blocks are saved: answers belong to a block, pinned ones stay, a culled state is refused, no resolver meets a missing row, filters and prefixes select what the node's chain has | 96 487 |
| `contract_log` | every struct of every kind of event: what is decoded is what was emitted, or the defaults; older layouts too, with one exception | 22 301 |
| `wallet_indexer` | two replicas, three transactions, a reconnect, a stop: replicas do not collide, and recorded is what is relevant between the cursors | 2 153 275 |
| `wallet_liveness` | one replica, an expiry, a stop: an active session is never ended, announced is recorded, gaps close, recordings are notified unless the replica stops first | 414 953 |
| `live_feed` | all seven feeds over both transports: each row once and in order; bounded subscriptions complete exactly when complete; in one process nothing is missed, and over NATS one message that arrives is enough for everything before it | 133 124 |
| `shielded_feed` | both transports, forward and backward scans: updates and transactions fit together; what a forward scan found and announced is not left unsent. Two pollers, while transactions are saved and other wallets scanned: progress goes forward and arrives | 295 152 |
| `ledger_reads` | five casts: places and tokens, a snapshot while four blocks are saved and states collected, cached updates of growing trees | 1 305 821 |
| `spo_indexer` | with and without pools that leave: pools take turns, all registered ones are refreshed, epochs are saved; lists, committees, totals, registrations and the current epoch agree | 35 604 |
| `live_feed_bridge_topic` | expected counterexample, below | |

Why the bounds are enough: five blocks and a retention of up to three give windows
that grow, shrink and slide, with two equal roots in one window; five blocks and a
margin of one leave room for a catch-up by height, one by hash and live blocks
after both; three transactions with batches of one need several rounds in each
direction; batches of one or two make every stream take several queries. The bodies
of `index_pipeline` depend on each other (what one deploys, creates, registers or
deposits, another calls, spends, removes or claims), and every order of three of
them is produced, so that spending what is missing, claiming what is not owed and
calling what is not deployed happen too. Byte values 0 and 1 are those that
stripping tells apart. A retention of two above an age of one is the least that
`indexer-standalone` allows. Faults are bounded by name (`MaxStops`, `MaxFaults`,
`MaxSessions`, `MaxExpiries`). Symmetry is used for the replicas of
`wallet_indexer`, which checks no liveness; `wallet_liveness` has one replica,
since another only delays it by holding the lock. Deadlock checking is off where
every bound ends in a state where nothing is left to do.

Some properties are conjunctions of parts that make one claim together:
`TablesAreLedger` (tables against the ledger), `SpoQueriesAgree`, `DustAnswer`,
`BridgeAnswer` and `SelectionsAreExact` (queries against the chain and against each
other). Properties that are proved for every instance and that no run lists, such as
types, `WindowIsBounded` or `CursorsMoveApart`, are stated as theorems only.

Every property has one mutant, also where it has several parts: a definition next to
the one it replaces, named `...Mutant`, that a run must reject.

## Where code and documents disagree

`live_feed_bridge_topic` ends in a counterexample, by intent: the in-memory
channels have no topic for bridge events and panic, where a comment says "This must
not happen". The finding in `PROJECT.json` quotes it.

The others were met while modelling. Properties of the passing runs state what the
code does, and say what they exempt.

Chain and wallets:

- The first block of a subscription is awaited without the recovery timeout
  (`subxt_node.rs:408`), which its configuration describes as covering a stuck
  subscription. `BlockStream` leaves silence out of what `LogSpec` assumes.
- The author of a block is computed from the authorities at that very block if
  they are not cached, and that block may have started a session, whose set is
  then already the next (`subxt_node.rs:235`). `AuthorIsProducer` exempts it.
- The transaction at a wallet's first start index is not scanned
  (`wallet-indexer/src/application.rs:296`), which `mutation.rs:109` and
  `domain/storage/wallet.rs:24` document as inclusive. `CursorsBoundRecorded` says
  nothing of that transaction, whether it is recorded or not.
- A replica that stops between the commit and `WalletIndexed` leaves what it
  recorded unannounced until the wallet's next event. `RecordedIsNotified` exempts
  it.
- A wallet first connected ahead of the saved transactions and then with a lower
  index has its gap closed as soon as the backward scan finds nothing in it;
  transactions saved below the first index later are at neither cursor
  (`wallet-indexer/src/application.rs:242`). `CursorsBoundRecorded` exempts it.
- The nullifier of a contract's shielded spend that ends in a zero byte is lost:
  the payload is shorter than the minimum (`ledger_state.rs:1657`, `1688`).
  `DecodedIsEmitted` exempts what ends in a zero byte.
- A `ShieldedReceive` in its older field order is decoded in the current one
  (`ledger_state.rs:1702`): the commitment is right, ciphertext and contract address
  are not unless they are missing. `DecodedIsEmitted` claims just that.

Subscriptions:

- Contract actions start at the very first one when none is at the start height
  (`subscription/contract_action.rs:72`, against the comment at `:49`).
- The in-memory subscriber passes the channel's lag error on and the subscription
  ends (`pub_sub/in_mem/subscriber.rs:62`), while `domain/pub_sub.rs:98` asks for
  an infinite stream. `EverythingIsYielded` exempts it.
- A bounded nullifier subscription reads the height after the rows of its last
  round (`dust_nullifier_transactions.rs:164`): it may complete without the rows
  of blocks saved in between. Its live rounds deliver rows again.
  `EverythingIsYielded` exempts it; `CompletedIsComplete` is about contract events.
- A relevant transaction that added no commitment has an empty index range and is
  fetched again from its own end (`infra/storage/transaction.rs:638`);
  `ShieldedFeed.cfg` has none.
- Relevant transactions a backward scan records below the index of an open
  subscription are never sent on it (`subscription/shielded.rs:246`).
- The checked index of progress is that of all wallets together, and falls back to
  zero while the newest of their cursors names no regular transaction
  (`infra/storage/transaction.rs:566`), where the field's comment reads zero as "no
  wallet has subscribed before"; the relevant one is zero for a wallet without a
  session. A cached progress is one time-to-live old counted from when its query
  returned, not from when it read.
- A dust snapshot of an empty tree delivers an entry saved later, since the last
  index is taken to be 0 (`dust_generations.rs:200`), and a cutoff above the tip
  counts as none; the subscription's comment says "deterministic, independent of
  the tip". `SnapshotIsPinned` exempts both.
- A cached Merkle update of the generation tree may show a generation as running
  that ended since; `UpdatesFit` says so.
- Bridge event subscriptions take no place in the quota, which is documented for
  all subscription types.

Queries:

- `dustGenerationStatus` reports one generation of an owner with several
  (`storage/dust.rs:67`, against the "NIGHT balance backing generation" of
  `v4/dust.rs:62`); `StatusAnswer`, a part of `DustAnswer`, says that it is the
  newest, and claims nothing of the balance.
- Failed claims count as claimed in the bridge balance; `BalanceAnswer`, a part of
  `BridgeAnswer`, adds them.
- The amounts of a bridge balance come from three statements and a load: a claim may
  be counted whose deposit is not, and deposits are gross where the balance is net.
  `BalanceAnswer` gives each amount a block of its own, in their order, and adds the
  fee where no block came between.
- A nullifier prefix `p` that ends in 255 is looked up in the range from `p` to `p`
  with a zero byte added, which misses every longer nullifier with that prefix.
  `NullifiersFound`, a part of `SelectionsAreExact`, exempts such prefixes.
- A contract's recent actions may be newer than the block it was asked at.
- Epochs are saved under a number one ahead of the node's (`spo-indexer/src/
  application.rs:416`), and the current epoch is reported so, against
  `schema-v4.graphql:1049`, `1354` and `domain/storage/spo.rs:99`.
  `EpochInfoKeepsPace`, a part of `SpoQueriesAgree`, says that the answer does not
  depend on how far the indexer has got, and nothing of the number.
- After a wrap the page of pools is ordered by time of update and not by id, so a
  pool that left the registrations and has a low id drops out of the stake
  refresh (`spo-indexer/src/infra/storage.rs:263`). `PoolsTakeTurns` is claimed
  while no pool leaves, `EveryPoolIsRefreshed` of the pools of the last report.
- A failed committee request is taken for an empty committee
  (`spo_client.rs:337`), and the epoch is saved without one for good.

## Fairness

Weak fairness on a task's own steps: the Tokio runtime polls every task that is
ready, queries return, timers fire. A stopped process is started again, as the
deployment does. Nothing is assumed of the environment's faults, of `Connect` or
of `Finalize`. Two places assume more:

- `WalletIndexer`: the wallet's client keeps its session active (`KeepActive`),
  which the subscription does on a timer. Liveness there is claimed only while the
  client stays connected.
- `SpoIndexer`: strong fairness for both tasks. Any request may fail and any pass
  may be abandoned, but not every time: each error is followed by another attempt
  at the next tick.

In `LiveFeed` and `ShieldedFeed` no fairness is put on `Poll` over NATS: what is
shown is what follows once a message has arrived. A poll of progress is answered
under weak fairness of each subscription alone: a subscription that ended does not
come back, and the cache lets one that waits take over.

`Indexing`, `ApiQueries`, `LedgerReads` and `LogEmission` check safety only.

## Proofs

Eight modules hold theorems, each for every value of the constants. In each the
invariants are not inductive by themselves; the strengthened invariant was checked by
TLC first, has one lemma per action or group of actions that it is preserved, and the
theorems follow by temporal logic. The strengthened invariants are in the modules
they are about (`IndInv`, `RecentInv`, `ProgressInv`, `ReadInv`, `EpochsInv`,
`RefreshInv`, `TurnInv`, `TablesInv`).

### LedgerRetentionProofs

For every set of roots, any chain, any set of
retentions and any number of blocks and stops:

- `TypeCorrect`, `IndexerNeverFails`, `IndexerResumesFromTip`, `CountsHoldWindow`,
  `WindowStaysLoadable`, `WindowStaysBounded`, `AnnouncementsAreSaved`: the
  invariants of `LedgerRetention`, from `Inductive`;
- `RecentStaysLoadable` (`RecentIsLoadable`), from `Inductive` and `RecentInv`.

Assumptions are those of the module: the fresh state is no arena root,
retentions are positive, the bounds are natural numbers.

None of the invariants is inductive by itself. `IndInv` adds:

- `HeldIsCounted`: stored plus pending counts cover not only the window but also
  the newest block between `Persist` and `PushBack`. Without it `PushBack` breaks
  `WindowIsHeld`.
- `OnlyUnpersistsPend`: nothing pending is positive, so what is stored is at
  least what is held, and a stop that forgets the pending changes loses nothing.
- `RepairedIsCounted`: after repair, every root that has any count has that of the
  newest blocks. The window seeded from the roots with a count is therefore held.
- `TipIsRooted` and `RootedIsIntact`: also while the process is down, the newest
  block's root has a count, and what has a count is complete. This is what the
  next start loads.
- `TipIsInWindow`, `MemoryIsCurrent`, `WindowFits`, `StartupIsClean`: what the
  steps of the loop hand to each other.

`RecentIsLoadable` speaks of the newest blocks, as many as the lowest retention, also
while the process is down and has no window. `RecentInv` therefore adds that their
roots have a count at all times (`RecentIsRooted`) and that the running process holds
all of them (`RecentIsHeld`), through restarts with any of the retentions.

Each action has a lemma that it preserves `IndInv`. Counting is factored out:
`CountAdd`, `CountRemove` and `CountMonotone` say how the number of blocks leading
to a root changes with the set of blocks.

### BlockStreamProofs

For every number of blocks, fork, safety margin, buffer size and number of faults:
`TypeCorrect`, `BufferStaysBounded` (`BufferFits`: no more than `blocks_buffer`
blocks are read ahead of the one being indexed), and `TableIsChainLog`: initially and
in every step the saved blocks are `ChainLog`'s log, `Spec => Log!Init /\
[][Log!Next]_(Log!vars)`. What is saved next is right only because of what is
buffered, and that because of what the stream took for its last block. `IndInv`
therefore has `SavedIsChain`, `BufferContinues` and `HighestContinues` (saved,
buffered and highest block are consecutive blocks of the finalized chain),
`OnlyFinalized` (what the stream still holds is finalized), and `CatchesUpSafely` (a
height asked for is at least the margin below the first head, so no peer answers with
a block of the fork).

### WalletIndexerProofs

For any number of replicas and transactions, any batch size and start indexes:
`TypeCorrect`, `ReplicasNeverCollide` (`NeverRecordedTwice`), `CursorsTell`
(`CursorsBoundRecorded`), `CursorsOnlyMoveApart` and `OnlyClientsEndActiveSessions`.
The key conjuncts of `IndInv` are `OneScans` (at most one replica is between a read
and its commit, and then holds the lock), `BatchesAreDense` (the batch it read is
all there is to find up to the batch's end, and still is at the commit, because the
cursor it started from cannot have moved), and `RecordedIsEnclosed`. That a reconnect
changes the wanted index in between is why a scan remembers the one it read.

### LedgerReadsProofs

For every limit, rate, length of a minute, set of connections, sessions and tasks:
`RateHolds` (`RateIsBounded`) and `SlotsHold` (`SlotsAreGivenBack`). The rate is
proved from a budget: since any token was taken, those taken and those left are
together at most a full bucket and what it gained (`Budget`); refilling and taking
preserve it (`RefillKeepsBudget`, `SoundTaken`). For places, every step of a task
keeps what it holds, takes a place or gives one back (`TasksMove`), and the counter
follows the number of holders (`OneHolderMore`). The rest of the module is about the
chain that requests read, for `LedgerStateProofs`: that it stays what `ChainInv` says,
and what saving or collecting leaves true of requests under way.

Assumptions are those of the modules: bounds are natural numbers, limits positive,
the sets of tasks finite, and `None` is no token bucket.

### LiveFeedProofs

For any rows, request, batch size, queue and number of faults, over both
transports: `ClientGetsEachOnce` (`EachOnceInOrder`) and `CompletionIsComplete`
(`CompletedIsComplete`), from `Inductive`. The invariant (`StreamInv` in `IndInv`)
relates what was sent, the cursor and the batch: sent is exactly what is selected
between the start and the cursor (`Yielded`), the batch is what comes next and
nothing between its rows is left out (`BufferIsNext`), no saved row ever appears
below the cursor (`CursorIsBehind`), and a bounded subscription that is about to
complete knows that the chain has reached its last block (`LastRoundIsLast`). Nullifier
feeds start over with each message and are exempt. Messages do not occur in the
invariant: a feed is right whichever of them arrive, and they matter for liveness
only. `BatchIsNext` is what the cursor rests on: a batch is empty only if nothing is
selected, ascends strictly, and skips no selected key up to its last.

### ShieldedFeedProofs

`StreamIsContinuous`, `SentAlwaysFits` (`SentFitsTogether`) and
`ProgressNeverGoesBack` (`ProgressGoesForward`), for any transactions, batch size,
scans and subscriptions. What was sent ends at the cursor (`CursorIsEnd`); the batch
starts there or later and is in the order of the chain, whichever scan recorded its
transactions (`BufferFollows`). For progress, what is shown is in order (relevant at
most checked, checked at most the highest) and goes forward but for the falls to zero
named above, while transactions are saved and other wallets scanned: nothing read by
a query, held by the cache or shown to a poller is ahead of the tables
(`ReadIsReached`), nothing shown is ahead of the cache's entry or of the query that
is to replace it (`ShownIsBehind`), and one query at a time runs, with no entry
beside it (`PollersOK`): a slow query cannot replace a newer entry. `NoneIsNoIndex`
is assumed: the placeholder is no index.

### LedgerStateProofs

For every chain, set of requests, retention, age and batch size: `ReadsAreSound`
(`ReadInv`), `AcceptedAlwaysServed` (`AcceptedIsServed`) and `UpdatesAlwaysFit`
(`UpdatesFit`). It extends `LedgerReadsProofs`.

- `ChainInv`: the trees of a later block outgrow those of an earlier one, leaf by
  leaf, only ends of generations being rewritten (`Outgrows`, an order:
  `OutgrowsIsOrder`), and collected states are `Retention` blocks old.
- `FitsInv` is `UpdatesFit` leaf by leaf, relative to the newest tree; it survives
  the next block because `Rewritten` is transitive (`SaveFits`).
- `QueryInv`: a query reloads at a block no older than its start, or the cached
  state already has the last leaf (`AnswerFits`, `PanicFits`).
- `SnapshotInv`: an accepted subscription reads a block that was young enough when
  it was accepted, has sent events only, and holds entries that are in the
  snapshot's tree. A panic then needs the tip to have moved by
  `Retention - MaxSnapshotAge` (`PanicRead`).

Assumptions: those of `LedgerReads`, of which `RetentionExceedsAge` is what
`indexer-standalone` asserts, `CastsAreRequests` says that arguments of requests are
unsigned integers and name one of the three trees, and `ResultsAreDistinct` that an
error or a panic is not an event or an update.

### SpoProofs

For every length of epochs, first block, sets of registrations and committees the
node may report, page size and order of the two tasks' steps, failures and stops:

- `EpochsAreACalendar` (`EpochsInv`): the epochs saved are those from the first up to
  some epoch that has begun, without a gap, each with its window; what has been
  fetched and not saved is the next one. `get_first_epoch_num` and
  `get_epoch_to_process` compute with the distance between the node's epoch and the
  latest saved one; that distance cancels out (`NextWindow`), so a late
  start, a restart or a long outage changes nothing.
- `PoolsAlwaysTakeTurns` (`PoolsTakeTurns`), if no registered pool is missing from a
  later report (`~departing`). Pools lie on a ring by `pool_id`. `TurnInv` says that
  no pool known to the page lies between the cursor and the page or between two of
  its entries, and that of the pools due before a pool's next row none lies between
  that row and the cursor. A page after a wrap is sorted by time and not
  by id: that it still continues the ring needs that one save has touched every pool,
  which is the first conjunct and where `~departing` is used.
- `QueriesAlwaysAgree` (`SpoQueriesAgree`), all five parts of it. `TablesInv` has what
  the joins rely on: identities have unique keys and pools, history and performance
  rows have an identity, a key has one status per epoch, the seats of an epoch are
  those of one committee, a performance row has its seat and its history row, and a
  pool without an identity was refused one for a key that another pool holds. From it
  the joins are counted: one row per seat (`CommitteeIsWhole`), one pool per key
  (`RegistrationsAgree`), one first epoch per pool (`TotalsMeetCount`).
  `EpochInfoKeepsPace` is arithmetic on `EpochsInv`. Pools may leave here.

`RefreshInv` is what both use of the page and the cache. `ReportsAssumption` is
assumed of the node: a report is finite and names pools by positive numbers, and a
committee is a sequence.

### Only model-checked

- Liveness, and with it the liveness part of `LogSpec`: outside the prover's reach.
- That a query has a page at all, and only one: the proofs hold of any sequence that
  `Listings` admits; its existence for every finite set is an induction.
- `SnapshotIsPinned`: it compares a stream with selected, flattened and sorted
  sequences, which are folds and recursive functions; what is proved of a snapshot is
  in `SnapshotInv`.
- `Indexing`, `ApiQueries` and `LogEmission`: their properties compare folds over
  data (sums, ranges, payloads, selected and sorted rows), and what a fold computes
  for every input needs an induction whose theorem the provers cannot instantiate.

Where a proof needs induction over numbers, it takes a least counterexample instead
(`LeastOfNaturals`); this is how running sums are treated.

## Not modelled

- The midnight-ledger and storage libraries: which segments of a transaction succeed
  and what they do is data of the transaction; root counts and sweeps are as
  `LedgerRetention` describes. SCALE decoding by generated subxt code, hex, bech32
  and viewing-key coding, encryption of session keys.
- The traversal that translates a ledger state from version 8 to 9
  (`state_translation_v8_to_v9.rs`): it keeps what is modelled of a state.
- The subscriptions `bridge_pool_updates` and `bridge_balance`. They yield values read
  anew on every message, where those of `LiveFeed` follow rows by a key; the
  statements behind the balance are in `ApiQueries`.
- Jitter and back-off of polls: a poll may come at any time.
- SPO queries that are single selections: stake distribution, search and paging,
  lists of operator ids, metadata, latest performance.
- HTTP and WebSocket server, complexity and depth limits, compression, pools,
  migrations, configuration, metrics and telemetry: set-up and I/O around what is
  modelled.
