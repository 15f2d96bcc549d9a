----------------------------- MODULE ChainTables -----------------------------
(***************************************************************************)
(* The tables the chain-indexer writes, and the one database transaction   *)
(* that saves a block: a table is the sequence of its rows, a row's id is  *)
(* its place in it.  Every save_* function of chain-indexer's storage is   *)
(* an operator from the tables to the tables; Err anywhere rolls back.     *)
(***************************************************************************)
EXTENDS LedgerApply

EmptyTables ==
  [blocks |-> <<>>, txs |-> <<>>, regular |-> <<>>, actions |-> <<>>, balances |-> <<>>,
   utxos |-> <<>>, events |-> <<>>, fields |-> <<>>, gens |-> <<>>, dustNullifiers |-> <<>>,
   zswapNullifiers |-> <<>>, registrations |-> <<>>, ds |-> <<>>, tcs |-> <<>>,
   claims |-> <<>>, bridge |-> <<>>]

\* rows appended by f to a table, in the order of the sequence s
Rows(f(_), s) == [k \in DOMAIN s |-> f(s[k])]

LastOf(table) == IF table = <<>> THEN None ELSE table[Len(table)]

------------------------------------------------------------------------------
(* A transaction.                                                          *)

SaveContractActions(db, actions, txId) ==
  LET first == Len(db.actions)
      rows  == [k \in DOMAIN actions |->
                  [id |-> first + k, tx |-> txId, variant |-> actions[k].variant,
                   address |-> actions[k].address, entry |-> actions[k].entry,
                   state |-> actions[k].state, zswapState |-> actions[k].zswapState]]
      paid  == SelectSeq([k \in DOMAIN actions |->
                            [action |-> first + k, amount |-> actions[k].balance]],
                         LAMBDA b : b.amount # None)
  IN  [db EXCEPT !.actions = @ \o rows, !.balances = @ \o paid]

SaveCreatedUtxos(db, utxos, txId) ==
  [db EXCEPT !.utxos = @ \o
     [k \in DOMAIN utxos |-> utxos[k] @@ [creating |-> txId, spending |-> None]]]

Unspent(row) == row.spending = None

\* An UPDATE that must touch as many rows as there are inputs.
SaveSpentUtxos(db, utxos, txId) ==
  LET keys == {<<utxos[k].hash, utxos[k].no>> : k \in DOMAIN utxos}
      hit  == {r \in DOMAIN db.utxos :
                 <<db.utxos[r].hash, db.utxos[r].no>> \in keys /\ Unspent(db.utxos[r])}
  IN  IF Cardinality(hit) # Len(utxos) THEN Err
      ELSE [db EXCEPT !.utxos = [r \in DOMAIN @ |->
              IF r \in hit THEN [@[r] EXCEPT !.spending = txId] ELSE @[r]]]

\* Mutant: the first matching call is taken although there are several.
CorrelateContractActionMutant(event, actions, first) ==
  LET calls == {k \in DOMAIN actions : /\ actions[k].variant = "Call"
                                       /\ actions[k].entry = event.entry
                                       /\ actions[k].address = event.address}
  IN  IF calls = {} THEN None ELSE first + CHOOSE k \in calls : \A j \in calls : k <= j

\* correlate_contract_action_ids: the one call of the transaction with the
\* event's address and entry point; none if there are several
CorrelateContractAction(event, actions, first) ==
  LET calls == {k \in DOMAIN actions : /\ actions[k].variant = "Call"
                                       /\ actions[k].entry = event.entry
                                       /\ actions[k].address = event.address}
  IN  IF Cardinality(calls) = 1 THEN first + CHOOSE k \in calls : TRUE ELSE None

SaveIndexedFields(db, events, first) ==
  [db EXCEPT !.fields = @ \o FlattenSeq([k \in DOMAIN events |->
     IF events[k].grouping # "Contract" THEN <<>>
     ELSE Rows(LAMBDA f : [event |-> first + k, name |-> f.name, value |-> f.value],
               IndexableContractFields(events[k]))])]

\* first: the id before the first action of the transaction
SaveLedgerEvents(db, events, actions, firstAction, txId) ==
  LET rows == [k \in DOMAIN events |->
                 [id |-> Len(db.events) + k, tx |-> txId, event |-> events[k],
                  action |-> IF events[k].grouping # "Contract" THEN None
                             ELSE CorrelateContractAction(events[k], actions, firstAction)]]
  IN  SaveIndexedFields([db EXCEPT !.events = @ \o rows], events, Len(db.events))

SaveGeneration(db, e, txId) ==
  [db EXCEPT !.gens = Append(@,
     [night |-> e.night, owner |-> e.owner, value |-> e.value, ctime |-> e.ctime,
      index |-> e.index, tx |-> txId,
      dtime |-> IF e.dtime = MaxDtime THEN None ELSE e.dtime])]

UpdateDtime(db, e) ==
  [db EXCEPT !.gens = [r \in DOMAIN @ |->
     IF @[r].night = e.night THEN [@[r] EXCEPT !.dtime = e.dtime] ELSE @[r]]]

SaveDustGenerationInfo(db, events, txId) ==
  FoldLeft(LAMBDA d, e : CASE e.type = "DustInitialUtxo" -> SaveGeneration(d, e, txId)
                           [] e.type = "DtimeUpdate" -> UpdateDtime(d, e)
                           [] OTHER -> d,
           db, events)

NullifierRows(events, type, txId, blockId) ==
  Rows(LAMBDA e : [nullifier |-> e.nullifier, tx |-> txId, block |-> blockId],
       SelectSeq(events, LAMBDA e : e.type = type))
SaveDustNullifiers(db, events, txId, blockId) ==
  [db EXCEPT !.dustNullifiers = @ \o NullifierRows(events, "DustSpend", txId, blockId)]
SaveZswapNullifiers(db, events, txId, blockId) ==
  [db EXCEPT !.zswapNullifiers = @ \o NullifierRows(events, "ZswapInput", txId, blockId)]

SaveBridgeClaim(db, claim, txId) ==
  IF claim = None THEN db
  ELSE [db EXCEPT !.claims =
          Append(@, [tx |-> txId, recipient |-> claim.recipient, amount |-> claim.amount])]

SaveRegularTransaction(db, t, txId, blockId) ==
  LET row  == [id |-> txId, result |-> t.result, zswap |-> t.zswap, ids |-> t.ids,
               range |-> t.range, fees |-> t.fees]
      acts == SaveContractActions([db EXCEPT !.regular = Append(@, row)], t.actions, txId)
      utxo == SaveSpentUtxos(SaveCreatedUtxos(acts, t.created, txId), t.spent, txId)
  IN  IF utxo = Err THEN Err
      ELSE LET evs  == SaveLedgerEvents(utxo, t.events, t.actions, Len(db.actions), txId)
               dust == SaveDustNullifiers(SaveDustGenerationInfo(evs, t.events, txId),
                                          t.events, txId, blockId)
           IN  SaveBridgeClaim(SaveZswapNullifiers(dust, t.events, txId, blockId), t.claim, txId)

SaveSystemTransaction(db, t, txId) ==
  SaveDustGenerationInfo(
    SaveLedgerEvents(SaveCreatedUtxos(db, t.created, txId), t.events, <<>>, 0, txId),
    t.events, txId)

\* max is the id of the last regular transaction
SaveTransaction(acc, t, blockId) ==
  IF acc.db = Err THEN acc
  ELSE LET id  == Len(acc.db.txs) + 1
           row == [id |-> id, block |-> blockId, variant |-> t.variant, hash |-> t.hash,
                   version |-> t.version]
           db  == [acc.db EXCEPT !.txs = Append(@, row)]
       IN  IF t.variant = "Regular"
           THEN [db |-> SaveRegularTransaction(db, t, id, blockId), max |-> id]
           ELSE [acc EXCEPT !.db = SaveSystemTransaction(db, t, id)]

SaveTransactions(db, transactions, blockId) ==
  FoldLeft(LAMBDA acc, t : SaveTransaction(acc, t, blockId), [db |-> db, max |-> None], transactions)

------------------------------------------------------------------------------
(* The registrations, the bridge events and the system parameters.         *)

\* UPDATE cnight_registrations SET the columns of set, for the event's key and dust address.
OnRegistration(db, e, set) ==
  [db EXCEPT !.registrations = [r \in DOMAIN @ |->
     IF @[r].key = e.key /\ @[r].dust = e.dust THEN set @@ @[r] ELSE @[r]]]

Registered(db, e) ==
  \E r \in DOMAIN db.registrations : /\ db.registrations[r].key = e.key
                                     /\ db.registrations[r].dust = e.dust

UpsertRegistration(db, e, blockId, ts) ==
  IF Registered(db, e)
  THEN OnRegistration(db, e,
         [valid |-> TRUE, registered |-> ts, removed |-> None, block |-> blockId])
  ELSE [db EXCEPT !.registrations = Append(@,
         [key |-> e.key, dust |-> e.dust, valid |-> TRUE, registered |-> ts, removed |-> None,
          utxo |-> None, block |-> blockId])]

SaveDustRegistrationEvent(db, e, blockId, ts) ==
  CASE e.event = "Registration" -> UpsertRegistration(db, e, blockId, ts)
    [] e.event = "Deregistration" ->
         OnRegistration(db, e, [valid |-> FALSE, removed |-> ts, block |-> blockId])
    [] e.event = "MappingAdded" ->
         OnRegistration(db, e, [utxo |-> e.utxo])
    [] e.event = "MappingRemoved" ->
         OnRegistration(db, e, [utxo |-> None])

SaveDustRegistrationEvents(db, events, blockId, ts) ==
  FoldLeft(LAMBDA d, e : SaveDustRegistrationEvent(d, e, blockId, ts), db, events)

\* The transaction of this block the event's handler produced.
BridgeTransaction(db, e, blockId) ==
  LET ids == {i \in DOMAIN db.txs : db.txs[i].block = blockId /\ db.txs[i].hash = e.hash}
  IN  IF ids = {} THEN None ELSE CHOOSE i \in ids : \A j \in ids : i <= j

SaveBridgeEvents(db, events, blockId) ==
  [db EXCEPT !.bridge = @ \o Rows(
     LAMBDA e : [block |-> blockId, tx |-> BridgeTransaction(db, e, blockId),
                 variant |-> e.event, amount |-> e.amount, recipient |-> e.recipient,
                 hash |-> e.hash, count |-> e.count],
     events)]

SaveSystemParametersChange(db, change) ==
  IF change = None THEN db
  ELSE [db EXCEPT
          !.ds = IF change.d = None THEN @
                 ELSE Append(@, [height |-> change.height, hash |-> change.hash, d |-> change.d]),
          !.tcs = IF change.tc = None THEN @
                  ELSE Append(@, [height |-> change.height, hash |-> change.hash, tc |-> change.tc])]

------------------------------------------------------------------------------
(* The block: one database transaction.                                    *)

BlockRow(id, block, ledger) ==
  [id |-> id, hash |-> block.hash, height |-> block.height, version |-> block.version,
   parent |-> block.parent, author |-> block.author, timestamp |-> block.timestamp,
   price |-> block.price, key |-> ledger,
   zswapEnd |-> Len(ledger.zswap), dustEnd |-> ledger.dust, genEnd |-> Len(ledger.gens)]

\* Storage::save_block: the tables after the commit and the highest id of a
\* regular transaction of the block, or Err and nothing is saved
SaveBlock(db, block, transactions, ledger, change) ==
  LET id  == Len(db.blocks) + 1
      acc == SaveTransactions([db EXCEPT !.blocks = Append(@, BlockRow(id, block, ledger))],
                              transactions, id)
  IN  IF acc.db = Err THEN Err
      ELSE [db |-> SaveSystemParametersChange(
                     SaveBridgeEvents(
                       SaveDustRegistrationEvents(acc.db, block.registrations, id, block.timestamp),
                       block.bridge, id),
                     change),
            max |-> acc.max]

------------------------------------------------------------------------------
(* What the chain-indexer reads back.                                      *)

GetHighestBlock(db) == LastOf(db.blocks)
GetHighestBlockTimestamp(db) ==
  IF db.blocks = <<>> THEN None ELSE LastOf(db.blocks).timestamp
\* get_newest_ledger_state_keys, the first of them
GetNewestLedgerState(db) == LastOf(db.blocks).key
GetLatestDParameter(db) == IF db.ds = <<>> THEN None ELSE LastOf(db.ds).d
GetLatestTermsAndConditions(db) == IF db.tcs = <<>> THEN None ELSE LastOf(db.tcs).tc
==============================================================================
