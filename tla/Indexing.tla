------------------------------- MODULE Indexing -------------------------------
(***************************************************************************)
(* The chain-indexer from the node's blocks to the saved tables: blocks    *)
(* are made from what the node answers, buffered, applied to the ledger    *)
(* state, checked against the node, saved in one database transaction and  *)
(* announced.  The process may stop at any moment and resumes from the     *)
(* tables; the block stream may be resubscribed at any moment.             *)
(*                                                                         *)
(* Which block the stream yields next is BlockStream's subject, which      *)
(* ledger states stay loadable is LedgerRetention's, what becomes of the   *)
(* announcements is LiveFeed's: here the stream yields the next block, the *)
(* newest state loads, and an announcement is the message that is sent.    *)
(***************************************************************************)
EXTENDS ChainTables

CONSTANTS
  Bodies,               \* what the node may put into a block after genesis
  Geneses,              \* what it may have in its genesis block
  MaxHeight,            \* bound: the node stops there
  BlocksBuffer,         \* blocks_buffer
  CaughtUpMaxDistance,  \* caught_up_max_distance
  CaughtUpLeeway,       \* caught_up_leeway
  MaxStops              \* bound: stops of the process and of the stream

ASSUME IndexingConstants ==
  /\ MaxHeight \in Nat
  /\ BlocksBuffer \in Nat \ {0}
  /\ CaughtUpMaxDistance \in Nat
  /\ CaughtUpLeeway \in Nat
  /\ MaxStops \in Nat

VARIABLES
  chain,        \* the node's finalized blocks, genesis first
  onNode,       \* highest_block_on_node
  authorities,  \* the authority set cached by finalized_blocks
  coldAt,       \* history: the heights made with a set fetched for them
  buffer,       \* blocks made and not yet indexed
  ledger,       \* ledger_state
  parentTs,     \* parent_block_timestamp
  caughtUp,     \* caught_up
  db,           \* the tables
  announce,     \* what is to be published for the block just saved, or None
  up,           \* whether the process runs
  failed,       \* history: index_block returned an error
  stops         \* history: how often the process or its stream stopped

node == <<chain, onNode>>
stream == <<authorities, coldAt, buffer>>
memory == <<ledger, parentTs, caughtUp>>
vars == <<node, stream, memory, db, announce, up, failed, stops>>

Height(c) == Len(c) - 1
BlockAt(h) == chain[h + 1]
\* height of the highest saved block, -1 if none
Highest == IF GetHighestBlock(db) = None THEN -1 ELSE GetHighestBlock(db).height

------------------------------------------------------------------------------
(* The node.                                                               *)

\* The node executes inherents, then extrinsics.  It includes a transaction
\* its pool validated two slots ahead of the parent's time; all but the first
\* regular one are validated again at the block's time.  No transaction exceeds
\* the block limits, by either cost.
NodeExecutes(b) == b.inherents \o b.extrinsics

NodeAccepts(b, state, ts, parentTime) ==
  LET regular == SelectSeq(NodeExecutes(b), LAMBDA t : t.variant = "Regular")
  IN  \A k \in DOMAIN regular :
        /\ WellFormed(state, regular[k].raw, IF k = 1 THEN parentTime + 2 * SlotMillis ELSE ts)
        /\ regular[k].raw.cost <= BlockLimit /\ regular[k].raw.stateCost <= BlockLimit

NodeOutcome(contracts, raw, run) ==
  [ledger |-> [run.ledger EXCEPT !.fullness = @ + (IF run.ok = {} THEN 0 ELSE raw.cost)],
   contracts |-> FoldLeft(
     LAMBDA c, a : (a.address :> (IF a.variant = "Deploy" THEN 1 ELSE c[a.address] + 1)) @@ c,
     contracts, SelectSeq(raw.actions, LAMBDA a : a.seg \in run.ok))]

NodeApply(acc, t, ts) ==
  IF t.variant = "System"
  THEN [acc EXCEPT !.ledger = [LibraryApplySystem(@, t.raw, ts) EXCEPT !.fullness = @ + t.raw.cost]]
  ELSE NodeOutcome(acc.contracts, t.raw, LibraryApply(acc.ledger, t.raw, ts))

NodeRuns(from, contracts, b, ts) ==
  [FoldLeft(LAMBDA a, t : NodeApply(a, t, ts),
            [ledger |-> from, contracts |-> contracts], NodeExecutes(b))
     EXCEPT !.ledger = LibraryPostBlock(@, IF @.fullness > BlockLimit THEN BlockLimit ELSE @.fullness)]

\* Inherents leave a SystemTransactionApplied event and no call.
NodeCalls(b, ts) ==
  << [call |-> "Timestamp", now |-> ts] >>
    \o [k \in DOMAIN b.extrinsics |->
          [call |-> IF b.extrinsics[k].variant = "Regular" THEN "Midnight" ELSE "MidnightSystem",
           raw |-> b.extrinsics[k].raw]]

NodeEvents(b) ==
  [k \in DOMAIN b.inherents |-> [event |-> "SystemTransactionApplied", raw |-> b.inherents[k].raw]]
    \o b.events
    \o (IF b.session # None THEN <<[event |-> "NewSession"]>> ELSE <<>>)

NodeBlock(b, height, ts, version, logs, producer, state) ==
  [height |-> height, hash |-> height + 1, parent |-> height, version |-> version,
   spec |-> IF b.spec = None THEN version ELSE b.spec, babe |-> FALSE,
   logs |-> logs, calls |-> NodeCalls(b, ts), events |-> NodeEvents(b), time |-> ts,
   producer |-> producer, body |-> b, state |-> state]

Genesis(g) ==
  NodeBlock(g, 0, g.time, g.version, <<>>, None,
    [authorities |-> g.session, mappings |-> g.mappings, d |-> g.d, tc |-> g.tc]
      @@ NodeRuns(g.pre, <<>>, g, g.time))

Kept(new, old) == IF new = None THEN old ELSE new

\* The block's author is found in the set of the parent's state.
Produce(b) ==
  LET parent == chain[Len(chain)]
      ts     == parent.time + b.gap * SlotMillis
      slot   == ts \div SlotMillis
      set    == parent.state.authorities
      prev   == Translate(parent.state.ledger, LedgerVersion(ProtocolVersion(parent.spec)))
  IN  /\ Height(chain) < MaxHeight
      /\ b \notin {chain[i].body : i \in DOMAIN chain}   \* nonces are used once
      /\ parent.spec >= b.since
      /\ b.spec # None => b.spec > parent.spec
      /\ NodeAccepts(b, prev, ts, parent.time)
      /\ chain' = Append(chain,
           NodeBlock(b, Len(chain), ts, parent.spec, <<[engine |-> "aura", slot |-> slot]>>,
             set[(slot % Len(set)) + 1],
             [authorities |-> Kept(b.session, set), mappings |-> <<>>,
              d |-> Kept(b.d, parent.state.d), tc |-> Kept(b.tc, parent.state.tc)]
               @@ NodeRuns(prev, parent.state.contracts, b, ts)))
      /\ UNCHANGED <<onNode, stream, memory, db, announce, up, failed, stops>>

\* The task that follows the node's highest finalized block.
HighestBlock ==
  /\ up
  /\ onNode # Height(chain)
  /\ onNode' = Height(chain)
  /\ UNCHANGED <<chain, stream, memory, db, announce, up, failed, stops>>

------------------------------------------------------------------------------
(* index_block.                                                            *)

NextHeight == Highest + Len(buffer) + 1

\* finalized_blocks makes the next block, ahead of its indexing.
Make ==
  LET h == NextHeight
  IN  /\ up
      /\ Len(buffer) < BlocksBuffer
      /\ LastOf(buffer) # Err
      /\ h <= Height(chain)
      /\ \E made \in {MakeBlock(authorities, BlockAt(h), IF h = 0 THEN None ELSE BlockAt(h - 1))} :
           /\ buffer' = Append(buffer, made.block)
           /\ authorities' = made.authorities
      /\ coldAt' = IF authorities = None THEN coldAt \cup {h} ELSE coldAt \ {h}
      /\ UNCHANGED <<node, memory, db, announce, up, failed, stops>>

\* Genesis starts from a fresh state of its version.
VersionedLedger(block) ==
  IF block.height = 0 THEN LedgerNew(LedgerVersion(block.version))
  ELSE Translate(ledger, LedgerVersion(block.version))

ParentTimestamp(block) == IF parentTs = 0 THEN block.timestamp ELSE parentTs

Applied(block, from) ==
  ApplyTransactions(from, block.transactions, block.timestamp, ParentTimestamp(block),
                    block.height > 0)

GenesisLedgerState ==   \* fetch_genesis_ledger_state
  LET g == BlockAt(0).body IN IF g.post THEN BlockAt(0).state.ledger ELSE g.pre

\* At genesis the node's root tells whether the state it hands out already
\* includes the transactions of the block.
IncludesBlock(block) == block.height = 0 /\ block.root = GenesisLedgerState

StartsFrom(block) ==
  IF block.height > 0 \/ block.root = None \/ IncludesBlock(block) THEN VersionedLedger(block)
  ELSE GenesisLedgerState

StateHandedOut(block, acc) ==
  IF acc # Err /\ IncludesBlock(block) THEN [acc EXCEPT !.ledger = GenesisLedgerState] ELSE acc

ApplyBlock(block) ==
  IF VersionedLedger(block) = Err THEN Err
  ELSE StateHandedOut(block, Applied(block, StartsFrom(block)))

\* determine_system_parameters_change
SystemParametersChange(block) ==
  LET now == FetchSystemParameters(BlockAt(block.height))
      d   == IF now.d = GetLatestDParameter(db) THEN None ELSE now.d
      tc  == IF now.tc = GetLatestTermsAndConditions(db) THEN None ELSE now.tc
  IN  IF d = None /\ tc = None THEN None
      ELSE [height |-> block.height, hash |-> block.hash, d |-> d, tc |-> tc]

CaughtUp(block) ==
  LET distance == IF onNode = None THEN None
                  ELSE IF onNode < block.height THEN 0 ELSE onNode - block.height
  IN  /\ distance # None
      /\ distance <= CaughtUpMaxDistance + IF caughtUp THEN CaughtUpLeeway ELSE 0

AffectedOwners(transactions) ==
  UNION {{u.owner : u \in ToSet(transactions[k].created \o transactions[k].spent)} :
           k \in DOMAIN transactions}

Agrees(block, applied) ==
  /\ applied # Err
  /\ block.root \in {None, applied.ledger}
  /\ block.zswap = applied.ledger.zswap

Saved(block, applied) ==
  SaveBlock(db, [price |-> applied.price] @@ block, applied.transactions, applied.ledger,
            SystemParametersChange(block))

\* index_block up to the commit; any error ends the task and the process.
IndexBlock ==
  /\ up
  /\ buffer # <<>>
  /\ announce = None
  /\ LET block == Head(buffer)   \* get_next_block
     IN  \E applied \in {IF block = Err THEN Err ELSE ApplyBlock(block)} :
         \E saved \in {IF Agrees(block, applied) THEN Saved(block, applied) ELSE Err} :
           IF saved = Err
           THEN /\ failed' = TRUE
                /\ up' = FALSE
                /\ UNCHANGED <<buffer, memory, db, announce>>
           ELSE /\ buffer' = Tail(buffer)
                /\ ledger' = applied.ledger
                /\ parentTs' = block.timestamp
                /\ caughtUp' = CaughtUp(block)
                /\ db' = saved.db
                /\ announce' = [height |-> block.height, max |-> saved.max, caughtUp |-> caughtUp',
                                owners |-> AffectedOwners(applied.transactions),
                                bridge |-> block.bridge]
                /\ UNCHANGED <<up, failed>>
  /\ UNCHANGED <<node, authorities, coldAt, stops>>

\* BlockIndexed, UnshieldedUtxoIndexed and BridgeEventIndexed are sent.
Publish ==
  /\ up
  /\ announce # None
  /\ announce' = None
  /\ UNCHANGED <<node, stream, memory, db, up, failed, stops>>

------------------------------------------------------------------------------
(* Starting, stopping and resubscribing.                                   *)

\* What run sets up from the tables.
StartLedger(d) == IF d.blocks = <<>> THEN LedgerNew(8) ELSE GetNewestLedgerState(d)

\* Mutant: the parent's time is forgotten over a restart.
StartParentTsMutant(d) == 0
StartParentTs(d) == IF d.blocks = <<>> THEN 0 ELSE GetHighestBlockTimestamp(d)

Start ==
  /\ ~up /\ ~failed
  /\ up' = TRUE
  /\ ledger' = StartLedger(db)
  /\ parentTs' = StartParentTs(db)
  /\ UNCHANGED <<node, stream, caughtUp, db, announce, failed, stops>>

\* A crash, a SIGTERM or a failure to publish: the memory is lost.
Stop ==
  /\ up
  /\ stops < MaxStops
  /\ up' = FALSE
  /\ onNode' = None
  /\ authorities' = None
  /\ buffer' = <<>>
  /\ ledger' = LedgerNew(8) /\ parentTs' = 0 /\ caughtUp' = FALSE
  /\ announce' = None
  /\ stops' = stops + 1
  /\ UNCHANGED <<chain, coldAt, db, failed>>

\* node_blocks runs finalized_blocks again; the buffer is kept.
Resubscribe ==
  /\ up
  /\ stops < MaxStops
  /\ authorities # None
  /\ authorities' = None
  /\ stops' = stops + 1
  /\ UNCHANGED <<node, coldAt, buffer, memory, db, announce, up, failed>>

Init ==
  /\ chain \in {<<Genesis(g)>> : g \in Geneses}
  /\ onNode = None
  /\ authorities = None /\ coldAt = {} /\ buffer = <<>>
  /\ ledger = LedgerNew(8) /\ parentTs = 0 /\ caughtUp = FALSE
  /\ db = EmptyTables
  /\ announce = None
  /\ up = FALSE /\ failed = FALSE /\ stops = 0

Next ==
  \/ \E b \in Bodies : Produce(b)
  \/ HighestBlock \/ Make \/ IndexBlock \/ Publish
  \/ Start \/ Stop \/ Resubscribe

Spec == Init /\ [][Next]_vars

------------------------------------------------------------------------------
(* Properties.                                                             *)

\* index_block never fails on a chain the node produced: no transaction the
\* node accepted is refused, provided the node accepts none whose cost exceeds
\* the block limits; no root differs, no spent UTXO is missing from the tables,
\* whatever restarts and upgrades lie in between.
NeverFails == ~failed

\* The blocks table follows the node's chain without gap, and its author is
\* the producer, unless the authority set was fetched for the very block that
\* started a session: its state already holds the next set.
AuthorIsProducer ==
  \A i \in DOMAIN db.blocks :
    LET b == BlockAt(db.blocks[i].height)
    IN  /\ db.blocks[i].hash = b.hash
        /\ \/ db.blocks[i].author = b.producer
           \/ b.height \in coldAt /\ b.body.session # None

ResultOf(txId) == (CHOOSE r \in ToSet(db.regular) : r.id = txId).result

\* The unspent rows are exactly the UTXOs of the ledger state, with their
\* creation times, and no row is spent before it is created: failed segments
\* leave no trace, and each spent output is found by intent hash and index.
UnspentIsLedger ==
  LET unspent == {r \in ToSet(db.utxos) : r.spending = None}
      state   == IF db.blocks = <<>> THEN <<>> ELSE GetNewestLedgerState(db).utxos
  IN  /\ {<<[owner |-> r.owner, value |-> r.value, hash |-> r.hash, no |-> r.no], r.ctime>> : r \in unspent}
           = {<<u, state[u]>> : u \in DOMAIN state}
      /\ \A r \in ToSet(db.utxos) : r.spending # None => r.spending >= r.creating

\* The zswap ranges of the regular transactions follow one another and end
\* within the block's, and the root saved with each is the one of the
\* commitments up to its end; only system transactions leave room between.
RangesFollow ==
  /\ \A i, j \in DOMAIN db.regular :
       i < j => db.regular[i].range.zswap[2] <= db.regular[j].range.zswap[1]
  /\ \A i \in DOMAIN db.regular :
       LET r   == db.regular[i]
           row == db.blocks[db.txs[r.id].block]
       IN  /\ r.range.zswap[2] <= row.zswapEnd
           /\ r.zswap = SubSeq(row.key.zswap, 1, r.range.zswap[2])
           /\ row.id > 1 => db.blocks[row.id - 1].zswapEnd <= r.range.zswap[1]

\* The dust generation table is the ledger's generation tree: each entry at
\* its index, ended when the ledger says so.
DustTableIsLedger ==
  LET gens == IF db.blocks = <<>> THEN <<>> ELSE GetNewestLedgerState(db).gens
  IN  {<<g.index, g.night, g.owner, g.value, g.ctime, g.dtime>> : g \in ToSet(db.gens)}
        = {<<k - 1, gens[k].night, gens[k].owner, gens[k].value, gens[k].ctime,
             IF gens[k].dtime = MaxDtime THEN None ELSE gens[k].dtime>> : k \in DOMAIN gens}

\* All registration events of the saved blocks; genesis has only its storage.
Observed ==
  FlattenSeq([i \in DOMAIN db.blocks |->
    IF i = 1 THEN FlattenSeq([k \in DOMAIN chain[1].state.mappings |->
                    LET m == chain[1].state.mappings[k]
                    IN  <<[event |-> "Registration", key |-> m.key, dust |-> m.dust],
                          [event |-> "MappingAdded", key |-> m.key, dust |-> m.dust,
                           utxo |-> m.utxo]>>])
    ELSE SelectSeq(BlockAt(i - 1).body.events, LAMBDA e : e.event \notin BridgeVariants)])

\* Of a Cardano key and a DUST address, the last event among the given ones.
LastObserved(key, dust, events) ==
  LET these == SelectSeq(Observed, LAMBDA e : e.key = key /\ e.dust = dust /\ e.event \in events)
  IN  LastOf(these)

\* The registrations table is what the node's events add up to, those of the
\* genesis storage included: valid and not removed after a registration,
\* removed after a deregistration, with the UTXO last mapped.
RegistrationsAreObserved ==
  \A e \in ToSet(Observed) :
    \E row \in ToSet(db.registrations) :
      LET reg == LastObserved(e.key, e.dust, {"Registration", "Deregistration"})
          map == LastObserved(e.key, e.dust, {"MappingAdded", "MappingRemoved"})
      IN  /\ row.key = e.key /\ row.dust = e.dust
          /\ row.valid = (reg.event = "Registration")
          /\ (row.removed = None) = row.valid
          /\ row.utxo = (IF map # None /\ map.event = "MappingAdded" THEN map.utxo ELSE None)

\* What the node executed as the transaction with row id t.
RawOf(t) ==
  LET body == BlockAt(db.blocks[db.txs[t].block].height).body
  IN  (CHOOSE x \in ToSet(NodeExecutes(body)) : x.raw.hash = db.txs[t].hash).raw

\* Contract events and the calls they are attributed to are those of the ledger:
\* a transaction's rows are, in order, the logs its successful segments emitted,
\* and a row that names a call names one of the segment that emitted it, with its
\* address and entry point, never a call that failed.  A log that only one call of
\* its transaction can have emitted does name it.
EmittersAreNamed ==
  \A r \in ToSet(db.regular) :
    LET raw  == RawOf(r.id)
        logs == SelectSeq(raw.events, LAMBDA e : e.type = "ContractLog" /\ e.seg \in r.result.segments)
        rows == SelectSeq(db.events, LAMBDA e : e.tx = r.id /\ e.event.grouping = "Contract")
        acts == SelectSeq(db.actions, LAMBDA a : a.tx = r.id)
        Candidates(k) == {i \in DOMAIN raw.actions : /\ raw.actions[i].variant = "Call"
                                                     /\ raw.actions[i].entry = logs[k].entry
                                                     /\ raw.actions[i].address = logs[k].address}
    IN  /\ Len(acts) = Len(raw.actions)
        /\ Len(rows) = IF LedgerVersion(db.txs[r.id].version) = 8 THEN 0 ELSE Len(logs)
        /\ \A k \in DOMAIN rows :
             /\ rows[k].event.address = logs[k].address /\ rows[k].event.entry = logs[k].entry
             /\ rows[k].action # None =>
                  \E i \in Candidates(k) : acts[i].id = rows[k].action /\ raw.actions[i].seg = logs[k].seg
             /\ Cardinality(Candidates(k)) = 1 => rows[k].action # None

\* What the bridge kept of the transfers to a user that are saved.
FeesKept(o) ==
  LET transfers == {x \in UNION {ToSet(BlockAt(db.blocks[i].height).body.inherents) : i \in DOMAIN db.blocks} :
                      x.raw.kind = "bridge" /\ x.raw.owner = o}
  IN  FoldSet(LAMBDA x, sum : sum + x.raw.fee, 0, transfers)

\* What came in over the bridge for a user, gross, is what the ledger still owes,
\* what successful claims took out, both net, and the fee; the events name the
\* transaction that credited the user.
BridgeBooks ==
  LET saved(f(_), S) == FoldSet(LAMBDA x, sum : sum + f(x), 0, S)
      state == IF db.blocks = <<>> THEN LedgerNew(8) ELSE GetNewestLedgerState(db)
  IN  \A o \in DOMAIN state.receiving :
        saved(LAMBDA i : db.bridge[i].amount,
              {i \in DOMAIN db.bridge : db.bridge[i].tx # None /\ db.bridge[i].recipient = o})
          = FeesKept(o) + state.receiving[o]
            + saved(LAMBDA i : db.claims[i].amount,
                    {i \in DOMAIN db.claims : /\ db.claims[i].recipient = o
                                              /\ ResultOf(db.claims[i].tx).status # "Failure"})

\* The ledger state of every saved block is the node's, fee prices included: its
\* root is compared with the node's for genesis only.
LedgerIsNodes == \A i \in DOMAIN db.blocks : db.blocks[i].key = BlockAt(db.blocks[i].height).state.ledger

\* Every table that save_block derives from a ledger state agrees with the
\* newest one (UTXOs, tree ranges, dust generations and the bridge), and that
\* state with the node's.
TablesAreLedger ==
  UnspentIsLedger /\ RangesFollow /\ DustTableIsLedger /\ BridgeBooks /\ LedgerIsNodes
==============================================================================
