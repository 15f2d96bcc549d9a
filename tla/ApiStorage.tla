------------------------------ MODULE ApiStorage ------------------------------
(***************************************************************************)
(* The queries of indexer-api's storage over the chain-indexer's tables:   *)
(* one operator per query, from the tables and its parameters to the rows  *)
(* it returns.  Each is one SQL statement unless it says otherwise; what   *)
(* takes several statements is put together in ApiQueries, where a block   *)
(* may be saved between them.                                              *)
(***************************************************************************)
EXTENDS ChainTables

CONSTANTS
  GenerationDecayRate,   \* generation_decay_rate: SPECK per STAR and second
  NightDustRatio         \* night_dust_ratio: SPECK per STAR at most

ASSUME DustParameters == GenerationDecayRate \in Nat /\ NightDustRatio \in Nat

\* SELECT ... WHERE P ORDER BY id
Where(table, P(_)) == SelectSeq(table, P)
FirstOf(rows) == IF rows = <<>> THEN None ELSE rows[1]
\* ORDER BY id LIMIT limit OFFSET offset
Page(rows, offset, limit) ==
  SubSeq(rows, offset + 1, IF offset + limit < Len(rows) THEN offset + limit ELSE Len(rows))
WithIds(table) == [i \in DOMAIN table |-> [id |-> i] @@ table[i]]

BlockOfTx(db, txId) == db.blocks[db.txs[txId].block]
HeightOfTx(db, txId) == BlockOfTx(db, txId).height

------------------------------------------------------------------------------
(* Blocks and ledger states.                                               *)

GetLatestBlock(db) ==
  FirstOf(Where(db.blocks, LAMBDA b : \A i \in DOMAIN db.blocks : db.blocks[i].height <= b.height))
GetBlocksByHashes(db, hashes) == Where(db.blocks, LAMBDA b : b.hash \in hashes)
GetBlockByHeight(db, height) == FirstOf(Where(db.blocks, LAMBDA b : b.height = height))

\* BlockByHashLoader
BlockByHash(db, hash) == FirstOf(GetBlocksByHashes(db, {hash}))

LedgerStateOf(block) ==
  IF block = None THEN None ELSE [version |-> block.version, key |-> block.key, genEnd |-> block.genEnd]
GetHighestLedgerState(db) == LedgerStateOf(GetLatestBlock(db))
GetLedgerStateAt(db, hash) == LedgerStateOf(BlockByHash(db, hash))

------------------------------------------------------------------------------
(* Transactions.                                                           *)

RegularOf(db, txId) == FirstOf(Where(db.regular, LAMBDA r : r.id = txId))

\* Mutant: the claims are not attached.
BridgeClaimOfMutant(db, txId) == None
\* attach_bridge_claims and make_bridge_claim
BridgeClaimOf(db, txId) == FirstOf(Where(db.claims, LAMBDA c : c.tx = txId))

\* make_transaction, for a row of either kind
DomainTransaction(db, row) ==
  [id |-> row.id, variant |-> row.variant, hash |-> row.hash, version |-> row.version,
   block |-> db.blocks[row.block].hash,
   regular |-> IF row.variant = "Regular" THEN RegularOf(db, row.id) ELSE None,
   claim |-> IF row.variant = "Regular" THEN BridgeClaimOf(db, row.id) ELSE None]
DomainTransactions(db, rows) == [k \in DOMAIN rows |-> DomainTransaction(db, rows[k])]

\* The inner join: a regular transaction comes with its regular part.
Joined(db, row) == row.variant = "System" \/ RegularOf(db, row.id) # None

\* Mutant: the second half of the UNION is left out.
GetTransactionsByIdsMutant(db, ids) ==
  DomainTransactions(db, Where(db.txs, LAMBDA t :
    t.id \in ids /\ t.variant = "Regular" /\ RegularOf(db, t.id) # None))

\* In no order; TransactionByIdLoader looks the ids up in the result.
GetTransactionsByIds(db, ids) ==
  DomainTransactions(db, Where(db.txs, LAMBDA t : t.id \in ids /\ Joined(db, t)))

\* TransactionByIdLoader
TransactionById(db, id) == FirstOf(GetTransactionsByIds(db, {id}))

\* In the order of block and id; TransactionsByBlockIdLoader groups them.
GetTransactionsByBlockIds(db, ids) ==
  DomainTransactions(db, Where(db.txs, LAMBDA t : t.block \in ids /\ Joined(db, t)))
TransactionsByBlockId(db, id) == GetTransactionsByBlockIds(db, {id})

\* The newest first (the standalone build: the oldest first).
GetTransactionsByHash(db, hash) ==
  Reverse(DomainTransactions(db, Where(db.txs, LAMBDA t : t.hash = hash /\ Joined(db, t))))

\* get_identifiers: an array column, or a table of its own
HasIdentifier(db, txId, identifier) ==
  RegularOf(db, txId) # None /\ \E k \in DOMAIN RegularOf(db, txId).ids :
    RegularOf(db, txId).ids[k] = identifier
GetTransactionsByIdentifier(db, identifier) ==
  DomainTransactions(db, Where(db.txs, LAMBDA t : HasIdentifier(db, t.id, identifier)))

\* Transactions that created or spent an UTXO of the address, each once.
Touches(u, address, txId) == u.owner = address /\ txId \in {u.creating, u.spending}
GetTransactionsByUnshieldedAddress(db, address, from) ==
  DomainTransactions(db, Where(db.txs, LAMBDA t :
    t.id >= from /\ \E r \in DOMAIN db.utxos : Touches(db.utxos[r], address, t.id)))
GetHighestTransactionIdForAddress(db, address) ==
  LET ids == {i \in DOMAIN db.txs : \E r \in DOMAIN db.utxos : Touches(db.utxos[r], address, i)}
  IN  IF ids = {} THEN None ELSE CHOOSE i \in ids : \A j \in ids : j <= i

------------------------------------------------------------------------------
(* Unshielded UTXOs.                                                       *)

ByOutputIndex(rows) ==
  SortSeq(WithIds(rows), LAMBDA u, v : u.no < v.no \/ (u.no = v.no /\ u.id < v.id))
GetUtxosCreatedByTransaction(db, txId) == ByOutputIndex(Where(db.utxos, LAMBDA u : u.creating = txId))
GetUtxosSpentByTransaction(db, txId) == ByOutputIndex(Where(db.utxos, LAMBDA u : u.spending = txId))
GetUtxosByAddressCreatedBy(db, address, txId) ==
  ByOutputIndex(Where(db.utxos, LAMBDA u : u.creating = txId /\ u.owner = address))
GetUtxosByAddressSpentBy(db, address, txId) ==
  ByOutputIndex(Where(db.utxos, LAMBDA u : u.spending = txId /\ u.owner = address))

------------------------------------------------------------------------------
(* Contract actions.                                                       *)

OfAddress(db, address) == Where(db.actions, LAMBDA a : a.address = address)

\* The first action of the address, asserted to be its deployment.
GetContractDeployByAddress(db, address) == FirstOf(OfAddress(db, address))
GetLatestContractAction(db, address) == LastOf(OfAddress(db, address))

\* in exactly that block
GetContractActionByBlockHash(db, address, hash) ==
  LastOf(Where(OfAddress(db, address), LAMBDA a : BlockOfTx(db, a.tx).hash = hash))
GetContractActionByBlockHeight(db, address, height) ==
  LastOf(Where(OfAddress(db, address), LAMBDA a : HeightOfTx(db, a.tx) = height))

\* Mutant: the height is not compared.
AsOfMutant(db, address, height) == OfAddress(db, address)
\* in that block or an earlier one
AsOf(db, address, height) ==
  Where(OfAddress(db, address), LAMBDA a : HeightOfTx(db, a.tx) <= height)
HeightOfHash(db, hash) == IF BlockByHash(db, hash) = None THEN None ELSE BlockByHash(db, hash).height

GetContractActionAsOfBlockHeight(db, address, height) == LastOf(AsOf(db, address, height))
\* A comparison with NULL holds for no row.
GetContractActionAsOfBlockHash(db, address, hash) ==
  IF HeightOfHash(db, hash) = None THEN None ELSE LastOf(AsOf(db, address, HeightOfHash(db, hash)))
ContractActionExistsAsOf(db, address, hash) ==
  HeightOfHash(db, hash) # None /\ AsOf(db, address, HeightOfHash(db, hash)) # <<>>

GetRecentContractActions(db, address, limit, variant) ==
  Page(Reverse(Where(OfAddress(db, address), LAMBDA a : variant \in {None, a.variant})), 0, limit)

\* The hash may be there several times: the first transaction counts.
GetContractActionByTransactionHash(db, address, hash) ==
  LET tx == FirstOf(Where(db.txs, LAMBDA t : t.hash = hash))
  IN  IF tx = None THEN None ELSE LastOf(Where(OfAddress(db, address), LAMBDA a : a.tx = tx.id))
\* ... but of an identifier the last one.
GetContractActionByTransactionIdentifier(db, address, identifier) ==
  LastOf(Where(OfAddress(db, address), LAMBDA a : HasIdentifier(db, a.tx, identifier)))

\* fetch_contract_actions_by_transaction_ids
GetContractActionsByTransactionIds(db, ids) == Where(db.actions, LAMBDA a : a.tx \in ids)
GetUnshieldedBalances(db, actionId) == Where(db.balances, LAMBDA b : b.action = actionId)
GetProtocolVersionByTransactionId(db, txId) ==
  IF txId \in DOMAIN db.txs THEN db.txs[txId].version ELSE None

------------------------------------------------------------------------------
(* Ledger events and contract events.                                      *)

OfGrouping(db, grouping) == Where(db.events, LAMBDA e : e.event.grouping = grouping)
GetLedgerEvents(db, grouping, from, batch) ==
  Page(Where(OfGrouping(db, grouping), LAMBDA e : e.id >= from), 0, batch)
GetLedgerEventsByTransactionId(db, grouping, txId) ==
  Where(OfGrouping(db, grouping), LAMBDA e : e.tx = txId)

StartsWith(bytes, prefix) ==
  Len(bytes) >= Len(prefix) /\ SubSeq(bytes, 1, Len(prefix)) = prefix
HasField(db, eventId, p) ==
  \E i \in DOMAIN db.fields : /\ db.fields[i].event = eventId /\ db.fields[i].name = p.name
                              /\ StartsWith(db.fields[i].value, p.prefix)

\* base_query_builder; no variants are all variants
EventMatches(db, e, filter) ==
  /\ e.event.address = filter.address
  /\ filter.variants # {} => e.event.type \in filter.variants
  /\ filter.from # None => HeightOfTx(db, e.tx) >= filter.from
  /\ filter.to # None => HeightOfTx(db, e.tx) <= filter.to
  /\ filter.hash \in {None, db.txs[e.tx].hash}
  /\ \A p \in filter.prefixes : HasField(db, e.id, p)
ContractEventRows(db, filter) ==
  Where(OfGrouping(db, "Contract"), LAMBDA e : EventMatches(db, e, filter))
GetContractEvents(db, filter, limit, offset) == Page(ContractEventRows(db, filter), offset, limit)
GetContractEventsChunk(db, filter, from, batch) ==
  Page(Where(ContractEventRows(db, filter), LAMBDA e : e.id >= from), 0, batch)
\* ContractEventsByContractActionIdLoader groups them.
GetContractEventsByActionIds(db, ids) ==
  Where(OfGrouping(db, "Contract"), LAMBDA e : e.action \in ids)

------------------------------------------------------------------------------
(* Nullifiers by prefix, a prefix being a sequence of bytes.               *)

Less(s, t) ==
  LET common == {i \in DOMAIN s \cap DOMAIN t : s[i] # t[i]}
  IN  IF common = {} THEN Len(s) < Len(t)
      ELSE LET i == CHOOSE i \in common : \A j \in common : i <= j IN s[i] < t[i]

\* The end of the range: the last byte plus one; after 255 a byte is added.
NextPrefix(prefix) ==
  IF prefix = <<>> THEN <<>>
  ELSE IF prefix[Len(prefix)] < 255 THEN [prefix EXCEPT ![Len(prefix)] = @ + 1]
  ELSE Append(prefix, 0)

\* Mutant: the end of the range is included.
InPrefixRangeMutant(nullifier, prefix) ==
  ~Less(nullifier, prefix) /\ ~Less(NextPrefix(prefix), nullifier)
InPrefixRange(nullifier, prefix) ==
  ~Less(nullifier, prefix) /\ Less(nullifier, NextPrefix(prefix))

\* All batches of one prefix; the stream goes through the prefixes in turn.
NullifierTransactions(db, table, prefix, from, to) ==
  Where(table, LAMBDA n : /\ InPrefixRange(n.nullifier, prefix)
                          /\ db.blocks[n.block].height \in from..to)
GetDustNullifierTransactions(db, prefixes, from, to) ==
  FlattenSeq([k \in DOMAIN prefixes |->
    NullifierTransactions(db, db.dustNullifiers, prefixes[k], from, to)])
GetShieldedNullifierTransactions(db, prefixes, from, to) ==
  FlattenSeq([k \in DOMAIN prefixes |->
    NullifierTransactions(db, db.zswapNullifiers, prefixes[k], from, to)])

------------------------------------------------------------------------------
(* The bridge.                                                             *)

Total(rows) == FoldLeft(LAMBDA sum, r : sum + r.amount, 0, rows)

\* push_filter; no variants are all variants
BridgeMatches(db, e, filter) ==
  /\ filter.variants # {} => e.variant \in filter.variants
  /\ filter.recipient \in {None, e.recipient}
  /\ filter.from # None => db.blocks[e.block].height >= filter.from
  /\ filter.to # None => db.blocks[e.block].height <= filter.to
  /\ filter.idFrom # None => e.id > filter.idFrom
\* map_event_row
BridgeEvent(db, e) ==
  [id |-> e.id, height |-> db.blocks[e.block].height, tx |-> e.tx, variant |-> e.variant,
   amount |-> e.amount, recipient |-> e.recipient, hash |-> e.hash, count |-> e.count]
GetBridgeEvents(db, filter, offset, limit) ==
  LET rows == Page(Where(WithIds(db.bridge), LAMBDA e : BridgeMatches(db, e, filter)), offset, limit)
  IN  [k \in DOMAIN rows |-> BridgeEvent(db, rows[k])]

\* get_bridge_balance takes two statements.
Deposited(db, recipient) ==
  Total(Where(db.bridge, LAMBDA e : e.variant = "UserTransfer" /\ e.recipient = recipient))
Claimed(db, recipient) == Total(Where(db.claims, LAMBDA c : c.recipient = recipient))

AllEvents == [variants |-> {}, recipient |-> None, from |-> None, to |-> None, idFrom |-> None]
GetBridgeReserveInflows(db, from, to, offset, limit) ==
  GetBridgeEvents(db, [AllEvents EXCEPT !.variants = {"ReserveTransfer"}, !.from = from, !.to = to],
                  offset, limit)
TreasuryVariants == {"InvalidTransfer", "UnapprovedTransfer", "SubminimalFlushTransfer"}
GetBridgeTreasuryInflows(db, reason, from, to, offset, limit) ==
  GetBridgeEvents(db, [AllEvents EXCEPT !.variants = IF reason = None THEN TreasuryVariants ELSE {reason},
                                        !.from = from, !.to = to], offset, limit)

\* Mutant: the height asked for is left out.
UpToMutant(db, height) ==
  IF height = None THEN db.bridge ELSE Where(db.bridge, LAMBDA e : db.blocks[e.block].height < height)
\* get_bridge_pool_summary takes two statements: the rows, which it adds up,
UpTo(db, height) ==
  Where(db.bridge, LAMBDA e : height # None => db.blocks[e.block].height <= height)
PoolTotals(rows) ==
  LET of(v) == SelectSeq(rows, LAMBDA e : e.variant = v)
  IN  [reserve |-> Total(of("ReserveTransfer")),
       treasury |-> [v \in TreasuryVariants |-> [total |-> Total(of(v)), count |-> Len(of(v))]],
       subminimum |-> FoldLeft(LAMBDA sum, e : sum + IF e.count = None THEN 0 ELSE e.count, 0,
                               of("SubminimalFlushTransfer"))]
\* ... and MAX(height).
LastEventHeight(db, height) ==
  LET rows == UpTo(db, height)
      at   == {db.blocks[rows[k].block].height : k \in DOMAIN rows}
  IN  IF at = {} THEN None ELSE CHOOSE h \in at : \A i \in at : i <= h

------------------------------------------------------------------------------
(* System parameters.                                                      *)

\* Mutant: the latest, whatever the height.
GetDParameterAtMutant(db, height) == LastOf(db.ds)
GetDParameterAt(db, height) == LastOf(Where(db.ds, LAMBDA r : r.height <= height))
GetTermsAndConditionsAt(db, height) == LastOf(Where(db.tcs, LAMBDA r : r.height <= height))
GetDParameterHistory(db) == Reverse(db.ds)
GetTermsAndConditionsHistory(db) == Reverse(db.tcs)

------------------------------------------------------------------------------
(* DUST.                                                                   *)

\* The registrations of a Cardano key that are not removed, newest first.
ActiveRegistrations(db, key) ==
  SortSeq(Where(db.registrations, LAMBDA r : r.key = key /\ r.removed = None),
          LAMBDA r, s : r.registered > s.registered)
\* Mutant: ended generations count.
ActiveGenerationsMutant(db, owner) == Where(db.gens, LAMBDA g : g.owner = owner)
ActiveGenerations(db, owner) == Where(db.gens, LAMBDA g : g.owner = owner /\ g.dtime = None)

\* elapsed_seconds_since, which saturates: the clock may be older
ElapsedSecondsSince(now, ctime) ==
  (IF now < ctime * 1000 THEN 0 ELSE now - ctime * 1000) \div 1000
MaxCapacity(g) == g.value * NightDustRatio
Capacity(g, now) ==
  LET made == g.value * GenerationDecayRate * ElapsedSecondsSince(now, g.ctime)
  IN  IF made < MaxCapacity(g) THEN made ELSE MaxCapacity(g)

LatestTime(db) == IF db.blocks = <<>> THEN None ELSE GetLatestBlock(db).timestamp

\* One registration of get_dust_generations: all its active generations.
DustRegistration(db, r, now) ==
  LET gens == ActiveGenerations(db, r.dust)
      sum(f(_)) == FoldLeft(LAMBDA n, g : n + f(g), 0, gens)
  IN  [dust |-> r.dust, valid |-> r.valid, utxo |-> r.utxo,
       night |-> sum(LAMBDA g : g.value),
       rate |-> sum(LAMBDA g : g.value * GenerationDecayRate),
       max |-> sum(LAMBDA g : MaxCapacity(g)),
       current |-> IF now = None THEN 0 ELSE sum(LAMBDA g : Capacity(g, now))]

\* get_dust_generation_status: the newest generation only
NewestGeneration(db, owner) ==
  FirstOf(SortSeq(ActiveGenerations(db, owner), LAMBDA g, h : g.ctime > h.ctime))
DustStatus(g, now) ==
  [night |-> g.value, rate |-> g.value * GenerationDecayRate, max |-> MaxCapacity(g),
   current |-> Capacity(g, now)]

\* The entries and the ends of an owner's generations, in their order: the
\* batches of both streams together.
GetDustGenerationEntries(db, owner, start, end) ==
  SortSeq(Where(db.gens, LAMBDA g : g.owner = owner /\ g.index \in start..end),
          LAMBDA g, h : g.index < h.index)
GetDustGenerationDtimeUpdates(db, owner, cutoff, upper, after) ==
  Where(OfGrouping(db, "Dust"), LAMBDA e :
    /\ e.event.type = "DtimeUpdate" /\ e.id > after
    /\ db.txs[e.tx].block > cutoff /\ db.txs[e.tx].block <= upper
    /\ \E i \in DOMAIN db.gens : db.gens[i].night = e.event.night /\ db.gens[i].owner = owner)
====
