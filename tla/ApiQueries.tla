------------------------------ MODULE ApiQueries ------------------------------
(***************************************************************************)
(* indexer-api's GraphQL queries, asked while the chain-indexer goes on    *)
(* saving blocks.  A query runs its SQL statements one after the other and *)
(* not in a database transaction: a block may be saved between any two.    *)
(* What a query first reads (a block, a contract action, a clock) pins, or *)
(* does not pin, what its later statements see.                            *)
(*                                                                         *)
(* The chain-indexer is Indexing without stops, the node's blocks and the  *)
(* tables are its own; hex and bech32 coding of values is left out.        *)
(***************************************************************************)
EXTENDS Indexing, ApiStorage

CONSTANTS
  Requests,   \* the queries that may be asked
  EventFilters,        \* filters of contract events
  NullifierPrefixes,   \* prefixes of nullifiers
  MaxPage,    \* the largest page of a list
  Retained    \* of how many blocks, at least, the ledger state is loadable

ASSUME ApiConstants == Retained \in Nat \ {0} /\ MaxPage \in Nat \ {0}

VARIABLE request   \* the query asked and what its statements returned, or None

apiVars == <<vars, request>>

\* A block offset: none, a hash or a height.
BlockQuery(offset) ==
  CASE offset.by = "latest" -> GetLatestBlock(db)
    [] offset.by = "hash"   -> BlockByHash(db, offset.at)
    [] offset.by = "height" -> GetBlockByHeight(db, offset.at)

------------------------------------------------------------------------------
(* What the API shows of a row.                                            *)

\* segments are listed only where they differ
ResultView(result) ==
  [status |-> result.status,
   segments |-> IF result.status = "PartialSuccess" THEN result.segments ELSE None]
RegularView(t) ==
  [type |-> "Regular", id |-> t.id, hash |-> t.hash, version |-> t.version, block |-> t.block,
   result |-> ResultView(t.regular.result), fee |-> t.regular.fees, ids |-> t.regular.ids,
   root |-> t.regular.zswap, range |-> t.regular.range]
SystemView(t) ==
  [type |-> "System", id |-> t.id, hash |-> t.hash, version |-> t.version, block |-> t.block]
BridgeClaimView(t) ==
  [type |-> "BridgeClaim", id |-> t.id, hash |-> t.hash, version |-> t.version, block |-> t.block,
   recipient |-> t.claim.recipient, amount |-> t.claim.amount]
\* a claim of bridged NIGHT is a type of its own
TransactionView(t) ==
  IF t.variant = "System" THEN SystemView(t)
  ELSE IF t.claim # None THEN BridgeClaimView(t) ELSE RegularView(t)
TransactionViews(ts) == [k \in DOMAIN ts |-> TransactionView(ts[k])]

\* From<domain::ContractAction>: only a call has an entry point
ContractActionView(a) ==
  [type |-> a.variant, address |-> a.address, state |-> a.state, zswapState |-> a.zswapState,
   entry |-> IF a.variant = "Call" THEN a.entry ELSE None, tx |-> a.tx, id |-> a.id]

UtxoView(u) ==
  [owner |-> u.owner, value |-> u.value, hash |-> u.hash, no |-> u.no, ctime |-> u.ctime,
   registered |-> u.registered, creating |-> u.creating, spending |-> u.spending]

\* TryFrom<LedgerEvent> and TryFrom<ContractEventRow>: an event of another
\* grouping is a server error
ZswapEventView(e) == IF e.event.type \in {"ZswapInput", "ZswapOutput"} THEN e.id ELSE Err
DustEventView(e) ==
  IF e.event.type \in {"ParamChange", "DustInitialUtxo", "DtimeUpdate", "DustSpend"}
  THEN e.id ELSE Err
ContractEventTypes ==
  {"ShieldedSpend", "ShieldedReceive", "ShieldedMint", "ShieldedBurn", "UnshieldedSpend",
   "UnshieldedReceive", "UnshieldedMint", "UnshieldedBurn", "Paused", "Unpaused", "Misc"}
ContractEventView(e) == IF e.event.type \in ContractEventTypes THEN e.id ELSE Err

\* ContractEventFilter::into_domain
IndexableFieldNames ==
  {"nullifier", "commitment", "ciphertext", "domainSep", "tokenType", "sender", "recipient"}
IntoDomain(filter) ==
  IF \/ filter.address = None \/ filter.types = {}
     \/ \E p \in filter.prefixes : p.name \notin IndexableFieldNames
     \/ filter.from # None /\ filter.to # None /\ filter.from > filter.to
  THEN Err
  ELSE [address |-> filter.address, variants |-> IF filter.types = None THEN {} ELSE filter.types,
        prefixes |-> filter.prefixes, from |-> filter.from, to |-> filter.to, hash |-> filter.hash]

------------------------------------------------------------------------------
(* The resolvers.                                                          *)

\* D parameters that were never saved are zero
DParameter(height) ==
  IF GetDParameterAt(db, height) = None THEN 0 ELSE GetDParameterAt(db, height).d
TermsAndConditions(height) ==
  IF GetTermsAndConditionsAt(db, height) = None THEN None
  ELSE GetTermsAndConditionsAt(db, height).tc

\* Of how many blocks the ledger state is culled: the chain-indexer unpersists
\* and collects after it announced a block (each pass is taken to be complete,
\* as LedgerRetention has it step by step).  Equal states are one root.
Culled ==
  LET settled == Len(db.blocks) - IF announce = None THEN 0 ELSE 1
  IN  IF settled < Retained THEN 0 ELSE settled - Retained
InLedgerDb(key) == \E i \in DOMAIN db.blocks : i > Culled /\ db.blocks[i].key = key

\* Mutant: the check is left out.
RootLoadableMutant(key) == TRUE
RootLoadable(key) == InLedgerDb(key)
\* load and what is read lazily from it; Err is the panic on a culled state
Load(key) == IF InLedgerDb(key) THEN key ELSE Err
ExtractContractZswapState(ledgerState, address) ==
  IF ledgerState = Err THEN Err
  ELSE SelectSeq(ledgerState.zswap, LAMBDA c : c.contract = address)

TransactionsQuery(offset) ==
  TransactionViews(IF offset.by = "hash" THEN GetTransactionsByHash(db, offset.at)
                                         ELSE GetTransactionsByIdentifier(db, offset.at))

\* What the fields of a transaction, of an UTXO and of a contract action
\* lead to; Err where the server reports an error.
OrErr(row) == IF row = None THEN Err ELSE row
TransactionBlock(t) == OrErr(BlockByHash(db, t.block))
TransactionActions(id) ==
  LET rows == GetContractActionsByTransactionIds(db, {id})
  IN  [k \in DOMAIN rows |-> ContractActionView(rows[k])]
CreatedOutputs(id) ==
  LET rows == GetUtxosCreatedByTransaction(db, id) IN [k \in DOMAIN rows |-> UtxoView(rows[k])]
SpentOutputs(id) ==
  LET rows == GetUtxosSpentByTransaction(db, id) IN [k \in DOMAIN rows |-> UtxoView(rows[k])]
ZswapLedgerEvents(id) ==
  LET rows == GetLedgerEventsByTransactionId(db, "Zswap", id)
  IN  [k \in DOMAIN rows |-> ZswapEventView(rows[k])]
DustLedgerEvents(id) ==
  LET rows == GetLedgerEventsByTransactionId(db, "Dust", id)
  IN  [k \in DOMAIN rows |-> DustEventView(rows[k])]

CreatedAtTransaction(u) == OrErr(TransactionById(db, u.creating))
SpentAtTransaction(u) == IF u.spending = None THEN None ELSE OrErr(TransactionById(db, u.spending))

ActionTransaction(a) == OrErr(TransactionById(db, a.tx))   \* get_transaction_by_id
\* the deployment of a called contract
DeployOfCall(a) ==
  LET d == GetContractDeployByAddress(db, a.address)
  IN  IF d = None THEN Err ELSE IF d.variant = "Deploy" THEN ContractActionView(d) ELSE Err
EventsOfCall(a) ==
  LET rows == GetContractEventsByActionIds(db, {a.id})
  IN  [k \in DOMAIN rows |-> ContractEventView(rows[k])]

ContractActionQuery(address, offset) ==
  CASE offset.by = "latest" -> GetLatestContractAction(db, address)
    [] offset.by = "hash"   -> GetContractActionByBlockHash(db, address, offset.at)
    [] offset.by = "height" -> GetContractActionByBlockHeight(db, address, offset.at)
    [] offset.by = "tx"     -> GetContractActionByTransactionHash(db, address, offset.at)
    [] offset.by = "id"     -> GetContractActionByTransactionIdentifier(db, address, offset.at)

ContractQuery(address, offset) ==
  CASE offset.by = "latest" -> GetLatestContractAction(db, address)
    [] offset.by = "hash"   -> GetContractActionAsOfBlockHash(db, address, offset.at)
    [] offset.by = "height" -> GetContractActionAsOfBlockHeight(db, address, offset.at)

\* clamp(1, MaxPage)
PageLimit(limit) == IF limit < 1 THEN 1 ELSE IF limit < MaxPage THEN limit ELSE MaxPage
ContractEventsQuery(filter, limit, offset) ==
  IF IntoDomain(filter) = Err THEN Err
  ELSE GetContractEvents(db, IntoDomain(filter), PageLimit(limit), offset)

\* bridge_deposits
BridgeDeposits(recipient, includeUnapproved) ==
  GetBridgeEvents(db, [AllEvents EXCEPT !.recipient = recipient,
    !.variants = {"UserTransfer"} \cup IF includeUnapproved THEN {"UnapprovedTransfer"} ELSE {}],
    0, MaxPage)

BridgeReceiving(ledgerState, address) ==
  IF ledgerState = Err THEN Err ELSE Owed(ledgerState, address)

------------------------------------------------------------------------------
(* A query and its statements.  got holds what they returned so far.       *)

Ask(q) ==
  /\ request = None
  /\ request' = [q |-> q, began |-> Len(db.blocks), culled |-> Culled, ended |-> None, got |-> <<>>]
  /\ UNCHANGED vars

Runs(kind) == request # None /\ request.ended = None /\ request.q.kind = kind

\* The next statement returns r; last tells whether it is the last one.
Returns(r, last) ==
  /\ request' = [request EXCEPT !.got = Append(@, r), !.ended = IF last THEN Len(db.blocks) ELSE None]
  /\ UNCHANGED vars

\* block(offset) { parent transactions systemParameters contractZswapState },
\* the last with the contract's existence, the row with the state's key, the
\* check of its root and the load one after the other
AskedBlock ==
  LET got == request.got
  IN  /\ Runs("block")
      /\ CASE Len(got) = 0 -> LET b == BlockQuery(request.q.offset) IN Returns(b, b = None)
           [] Len(got) = 1 -> Returns(BlockByHash(db, got[1].parent), FALSE)
           [] Len(got) = 2 -> Returns(TransactionViews(TransactionsByBlockId(db, got[1].id)), FALSE)
           [] Len(got) = 3 -> Returns(DParameter(got[1].height), FALSE)
           [] Len(got) = 4 -> Returns(TermsAndConditions(got[1].height), FALSE)
           [] Len(got) = 5 -> LET exists == ContractActionExistsAsOf(db, request.q.address, got[1].hash)
                              IN  Returns(exists, ~exists)
           [] Len(got) = 6 -> Returns(GetLedgerStateAt(db, got[1].hash).key, FALSE)
           [] Len(got) = 7 -> Returns(RootLoadable(got[7]), ~RootLoadable(got[7]))
           [] Len(got) = 8 -> Returns(ExtractContractZswapState(Load(got[7]), request.q.address), TRUE)

\* transactions(offset), of the first one found { block contractActions
\* unshieldedCreatedOutputs unshieldedSpentOutputs zswapLedgerEvents
\* dustLedgerEvents }
AskedTransaction ==
  LET got == request.got
      id  == got[1][1].id
  IN  /\ Runs("transaction")
      /\ CASE Len(got) = 0 -> LET ts == TransactionsQuery(request.q.offset) IN Returns(ts, ts = <<>>)
           [] Len(got) = 1 -> Returns(TransactionBlock(got[1][1]), FALSE)
           [] Len(got) = 2 -> Returns(TransactionActions(id), FALSE)
           [] Len(got) = 3 -> Returns(CreatedOutputs(id), FALSE)
           [] Len(got) = 4 -> Returns(SpentOutputs(id), FALSE)
           [] Len(got) = 5 -> Returns(<<ZswapLedgerEvents(id), DustLedgerEvents(id)>>, TRUE)

\* contract(address, offset) { maintenanceAuthority actions }
AskedContract ==
  LET got == request.got
  IN  /\ Runs("contract")
      /\ CASE Len(got) = 0 -> LET a == ContractQuery(request.q.address, request.q.offset)
                              IN  Returns(a, a = None)
           [] Len(got) = 1 -> Returns(GetProtocolVersionByTransactionId(db, got[1].tx), FALSE)
           [] Len(got) = 2 -> Returns(GetRecentContractActions(db, got[1].address, MaxPage, None), TRUE)

\* dustGenerations: the clock first, then the registrations, then the
\* generations of each
AskedDust ==
  LET got == request.got
  IN  /\ Runs("dust")
      /\ CASE Len(got) = 0 -> Returns(LatestTime(db), FALSE)
           [] Len(got) = 1 -> LET rs == ActiveRegistrations(db, request.q.key)
                              IN  Returns(rs, rs = <<>>)
           [] Len(got) > 1 -> Returns(DustRegistration(db, got[2][Len(got) - 1], got[1]),
                                      Len(got) - 1 = Len(got[2]))

\* dustGenerationStatus: the newest registration, its newest generation, and
\* the clock last
AskedStatus ==
  LET got == request.got
  IN  /\ Runs("status")
      /\ CASE Len(got) = 0 -> LET r == FirstOf(ActiveRegistrations(db, request.q.key))
                              IN  Returns(r, r = None \/ ~r.valid)
           [] Len(got) = 1 -> LET g == NewestGeneration(db, got[1].dust) IN Returns(g, g = None)
           [] Len(got) = 2 -> Returns(DustStatus(got[2], LatestTime(db)), TRUE)

\* bridgePoolSummary: the rows, then the height of the last
AskedPool ==
  /\ Runs("pool")
  /\ CASE Len(request.got) = 0 -> Returns(PoolTotals(UpTo(db, request.q.height)), FALSE)
       [] Len(request.got) = 1 -> Returns(LastEventHeight(db, request.q.height), TRUE)

\* bridgeBalance: the deposits, the claims, the key of the newest ledger state
\* and, unchecked, what that still owes
AskedBalance ==
  /\ Runs("balance")
  /\ CASE Len(request.got) = 0 -> Returns(Deposited(db, request.q.address), FALSE)
       [] Len(request.got) = 1 -> Returns(Claimed(db, request.q.address), FALSE)
       [] Len(request.got) = 2 -> Returns(GetHighestLedgerState(db), FALSE)
       [] Len(request.got) = 3 ->
            Returns(IF request.got[3] = None THEN 0
                    ELSE BridgeReceiving(Load(request.got[3].key), request.q.address), TRUE)

\* The chain-indexer goes on until the answer is complete (a bound: nothing
\* that comes later can be seen in it).
Save ==
  /\ request # None => request.ended = None
  /\ \/ \E b \in Bodies : Produce(b)
     \/ Start \/ Make \/ IndexBlock \/ Publish
  /\ UNCHANGED request

ApiInit == Init /\ request = None
ApiNext ==
  \/ Save
  \/ \E q \in Requests : Ask(q)
  \/ AskedBlock \/ AskedTransaction \/ AskedContract \/ AskedDust
  \/ AskedStatus \/ AskedPool \/ AskedBalance

ApiSpec == ApiInit /\ [][ApiNext]_apiVars

------------------------------------------------------------------------------
(* Properties.                                                             *)

Answered(kind) == request # None /\ request.ended # None /\ request.q.kind = kind
Quiet == request.began = request.ended   \* no block was saved meanwhile

\* A query changes no table: what is said of the tables alone is looked at
\* before one is asked.
Idle == request = None

\* A block that is asked for, by whatever offset, comes with the hashes of
\* the transactions the node executed in it, in their order, with its parent
\* and with the parameters and the contract's zswap state at that height,
\* however many blocks are saved between the statements.  The contract's state
\* is refused only if it is culled, and loading it panics only if it was culled
\* while the query ran: root_loadable turns away what was culled before.
BlockAnswer ==
  Answered("block") /\ request.got[1] # None =>
    LET got == request.got
        b   == BlockAt(got[1].height)
        ran == NodeExecutes(b.body)
    IN  /\ request.q.offset.by = "height" => b.height = request.q.offset.at
        /\ request.q.offset.by = "hash" => b.hash = request.q.offset.at
        /\ request.q.offset.by = "latest" => b.height >= request.began - 1
        /\ IF b.height = 0 THEN got[2] = None ELSE got[2].hash = b.parent
        /\ [k \in DOMAIN got[3] |-> got[3][k].hash] = [k \in DOMAIN ran |-> ran[k].raw.hash]
        /\ got[4] = b.state.d /\ got[5] = b.state.tc
        /\ got[6] = (request.q.address \in DOMAIN b.state.contracts)
        /\ got[6] => \/ ~got[8] /\ b.height < Culled
                     \/ got[8] /\ got[9] = Err /\ request.culled <= b.height /\ b.height < Culled
                     \/ got[8] /\ got[9] = SelectSeq(b.state.ledger.zswap,
                                                    LAMBDA c : c.contract = request.q.address)

\* A contract asked for as of a block has the state the node had there (the
\* latest, one of the blocks saved until the answer), is
\* missing only before its deployment, and is deserialized with the version
\* of the block whose transaction left that state; it is among its recent
\* actions unless a page of newer ones hides it.
ContractAnswer ==
  Answered("contract") =>
    LET got == request.got
        at  == CASE request.q.offset.by = "latest" -> request.began - 1
                 [] request.q.offset.by = "height" -> request.q.offset.at
                 [] request.q.offset.by = "hash"   -> request.q.offset.at - 1
        seen(h) == LET c == BlockAt(h).state.contracts
                   IN  IF request.q.address \in DOMAIN c THEN c[request.q.address] ELSE None
    IN  /\ at \in 0..(request.began - 1) =>
             \/ got[1] = None /\ seen(at) = None
             \/ /\ got[1] # None
                /\ \/ got[1].state = seen(at)
                   \/ /\ request.q.offset.by = "latest"
                      /\ \E h \in at..(request.ended - 1) : got[1].state = seen(h)
        /\ got[1] # None =>
             /\ got[2] = BlockOfTx(db, got[1].tx).version
             /\ \/ got[1] \in ToSet(got[3])
                \/ Len(got[3]) = MaxPage /\ (\A a \in ToSet(got[3]) : a.id > got[1].id)

\* What the ledger holds for an owner of DUST, at the newest saved block.
LedgerNight(owner) ==
  IF db.blocks = <<>> THEN 0
  ELSE FoldLeft(LAMBDA n, g : n + IF g.owner = owner /\ g.dtime = MaxDtime THEN g.value ELSE 0,
                0, GetNewestLedgerState(db).gens)

Mine(gens, owner) == SelectSeq(gens, LAMBDA g : g.owner = owner)

\* dustGenerations reports for each registration the NIGHT the ledger has
\* generating for it, and never more DUST than its cap, nor less than none,
\* although the clock it uses may be older than the generations.
RegistrationsAnswer ==
  Answered("dust") =>
    \A k \in 3..Len(request.got) :
      LET r == request.got[k]
      IN  /\ Quiet /\ request.ended = Len(db.blocks) => r.night = LedgerNight(r.dust)
          /\ 0 <= r.current /\ r.current <= r.max /\ r.max = r.night * NightDustRatio

\* dustGenerationStatus reports one generation, the newest of those the ledger
\* has for the owner, and none only if there is none; it keeps the capacity
\* within its cap.  With several generations this is less than the "NIGHT
\* balance backing generation" of its schema, which is not claimed here.
StatusAnswer ==
  Answered("status") =>
    LET got == request.got
    IN  /\ Len(got) = 3 => got[3].current \in 0..got[3].max
        /\ Quiet /\ request.ended = Len(db.blocks) /\ Len(got) > 1 =>
             LET active == {g \in ToSet(Mine(GetNewestLedgerState(db).gens, got[1].dust)) : g.dtime = MaxDtime}
             IN  IF Len(got) = 2 THEN active = {}
                 ELSE \E g \in active : /\ g.value = got[3].night
                                        /\ \A h \in active : h.ctime <= g.ctime

\* The subscription's statements tell of the same: its entries are the
\* owner's generations in the ledger's tree, in its order, and it hears of
\* the end of all those that the ledger has ended.
EntriesTell == Idle /\ db.blocks # <<>> =>
  LET gens == GetNewestLedgerState(db).gens
  IN  \A o \in {gens[i].owner : i \in DOMAIN gens} :
        LET rows  == GetDustGenerationEntries(db, o, 0, Len(gens))
            ended == GetDustGenerationDtimeUpdates(db, o, 0, Len(db.blocks), 0)
        IN  /\ [k \in DOMAIN rows |-> rows[k].night]
                 = [k \in DOMAIN Mine(gens, o) |-> Mine(gens, o)[k].night]
            /\ {g.night : g \in {x \in ToSet(Mine(gens, o)) : x.dtime # MaxDtime}}
                 \subseteq {e.event.night : e \in ToSet(ended)}

\* Of the three ways to ask for an owner's DUST, dustGenerations and the
\* subscription tell of all the generations the ledger has, and so agree; the
\* status tells of the newest of them only.
DustAnswer == RegistrationsAnswer /\ StatusAnswer /\ EntriesTell

\* The bridge events of the node's first n blocks.
NodeBridge(n) ==
  FlattenSeq([i \in 1..n |->
    SelectSeq(chain[i].body.events, LAMBDA e : e.event \in BridgeVariants)])
NodeTotal(variant, n) ==
  FoldLeft(LAMBDA sum, e : sum + IF e.event = variant THEN e.amount ELSE 0, 0, NodeBridge(n))

\* The pool summary adds up the node's events to some block between the
\* first statement and the last, that block being the one asked for if it
\* was saved; the last event's height is never older than what is added up.
PoolAnswer ==
  Answered("pool") =>
    LET totals == request.got[1]
        last   == request.got[2]
        pinned == request.q.height # None /\ request.q.height < request.began
    IN  \E n \in IF pinned THEN {request.q.height + 1} ELSE request.began..request.ended :
          /\ totals.reserve = NodeTotal("ReserveTransfer", n)
          /\ \A v \in TreasuryVariants : totals.treasury[v].total = NodeTotal(v, n)
          /\ NodeBridge(n) # <<>> => /\ last # None
                                     /\ Len(NodeBridge(last + 1)) > Len(NodeBridge(last))
                                     /\ Len(NodeBridge(last + 1)) >= Len(NodeBridge(n))
                                     /\ pinned => last < n

\* What the node has for a user of the bridge after its first n blocks: the
\* deposits it announced, gross, the claims it executed with any result, and
\* what is left to claim, net.
NodeDeposits(owner, n) ==
  FoldLeft(LAMBDA sum, e : sum + IF e.event = "UserTransfer" /\ e.recipient = owner THEN e.amount ELSE 0,
           0, NodeBridge(n))
NodeClaims(owner, n) ==
  LET ran == FlattenSeq([i \in 1..n |-> NodeExecutes(chain[i].body)])
  IN  FoldLeft(LAMBDA sum, t : sum + IF t.raw.kind = "bridge_claim" /\ t.raw.owner = owner
                                     THEN t.raw.value ELSE 0, 0, ran)
NodeOwes(owner, n) == IF n = 0 THEN 0 ELSE Owed(chain[n].state.ledger, owner)

\* The three amounts of a bridge balance are those of the node's books at
\* three blocks in this order between the first statement and the last, as
\* blocks may be saved in between: no deposit or claim is counted twice or
\* left out of the amount that is read after it.  If no block comes between, gross
\* deposits are the fee, what is left to claim and the claims that succeeded,
\* the latter two net.  The unchecked load panics only after the retention's
\* number of blocks was saved meanwhile.
BalanceAnswer ==
  Answered("balance") =>
    LET got   == request.got
        owner == request.q.address
        failed_ == FoldLeft(
          LAMBDA n, c : n + IF /\ c.recipient = owner /\ ResultOf(c.tx).status = "Failure"
                            THEN c.amount ELSE 0, 0, db.claims)
    IN  /\ \E n1, n2, n3 \in request.began..request.ended :
             /\ n1 <= n2 /\ n2 <= n3
             /\ got[1] = NodeDeposits(owner, n1) /\ got[2] = NodeClaims(owner, n2)
             /\ \/ got[4] = NodeOwes(owner, n3)
                \/ got[4] = Err /\ request.ended - request.began >= Retained
        /\ Quiet /\ request.ended = Len(db.blocks) =>
             got[1] + failed_ = FeesKept(owner) + got[2] + got[4]

\* The lists of inflows and deposits add up to the pool's totals at every
\* height and to the sum the balance starts from.
InflowsAddUp == Idle =>
  /\ \A h \in 0..MaxHeight :
       LET n == Len(db.bridge)
           totals == PoolTotals(UpTo(db, h))
       IN  /\ Total(GetBridgeReserveInflows(db, None, h, 0, n)) = totals.reserve
           /\ \A v \in TreasuryVariants :
                Total(GetBridgeTreasuryInflows(db, v, None, h, 0, n)) = totals.treasury[v].total
           /\ Len(GetBridgeTreasuryInflows(db, None, None, h, 0, n))
                = FoldSet(LAMBDA v, sum : sum + totals.treasury[v].count, 0, TreasuryVariants)
  /\ \A a \in {e.recipient : e \in ToSet(db.bridge)} \ {None} :
       LET rows == BridgeDeposits(a, FALSE)
       IN  Len(rows) < MaxPage => Total(rows) = Deposited(db, a)

\* The bridge's books, whichever way they are asked for.
BridgeAnswer == PoolAnswer /\ BalanceAnswer /\ InflowsAddUp

\* What an answer pinned to a saved height is made of.
PinnedTo(d, h) ==
  LET b == GetBlockByHeight(d, h)
  IN  <<b, BlockByHash(d, b.hash), DomainTransactions(d, Where(d.txs, LAMBDA t : t.block = b.id)),
        GetDParameterAt(d, h), GetTermsAndConditionsAt(d, h),
        GetContractActionAsOfBlockHeight(d, "c", h), GetContractActionAsOfBlockHash(d, "c", b.hash),
        GetContractActionByBlockHeight(d, "c", h), PoolTotals(UpTo(d, h)), LastEventHeight(d, h)>>

\* An answer that is pinned to a height never changes once that block is
\* saved, a page of events that was full stays as it was, so that a client
\* that reads page after page misses nothing, and histories only get longer.
PinnedAnswersStay ==
  [][/\ \A h \in 0..Highest : PinnedTo(db, h) = PinnedTo(db', h)
     /\ \A g \in {"Zswap", "Dust", "Contract"} :
          IsPrefix(GetLedgerEvents(db, g, 1, 2 * MaxPage), GetLedgerEvents(db', g, 1, 2 * MaxPage))
     /\ IsPrefix(GetBridgeEvents(db, AllEvents, 0, MaxPage), GetBridgeEvents(db', AllEvents, 0, MaxPage))
     /\ IsSuffix(GetDParameterHistory(db), GetDParameterHistory(db'))
     /\ IsSuffix(GetTermsAndConditionsHistory(db), GetTermsAndConditionsHistory(db'))]_db

\* No field of an answer ends in a server error: every row a resolver
\* follows from another one is there, the first action of a contract is its
\* deployment, and an event has a type of the group it is listed in.
NoServerError == Idle =>
  /\ \A u \in ToSet(db.utxos) : CreatedAtTransaction(u) # Err /\ SpentAtTransaction(u) # Err
  /\ \A a \in ToSet(db.actions) :
       /\ ActionTransaction(a) # Err /\ DeployOfCall(a) # Err
       /\ Err \notin ToSet(EventsOfCall(a))
  /\ \A t \in ToSet(db.txs) :
       /\ TransactionBlock(DomainTransaction(db, t)) # Err
       /\ Err \notin ToSet(ZswapLedgerEvents(t.id)) \cup ToSet(DustLedgerEvents(t.id))
  /\ \A f \in EventFilters :
       LET rows == ContractEventsQuery(f, MaxPage, 0)
       IN  rows # Err => \A k \in DOMAIN rows : ContractEventView(rows[k]) # Err

\* What the node executed as the transaction of a row.
Executed(t) ==
  (CHOOSE x \in ToSet(NodeExecutes(chain[t.block].body)) : x.raw.hash = t.hash).raw

\* A transaction found by its hash or an identifier is in the block shown
\* with it, is shown as a claim of bridged NIGHT if and only if it is one,
\* and creates and spends the outputs of its segments that succeeded.
TransactionAnswer ==
  Answered("transaction") /\ request.got[1] # <<>> =>
    LET got == request.got
        v   == got[1][1]
        raw == Executed(db.txs[v.id])
        ok  == IF db.txs[v.id].variant = "System" THEN {} ELSE ResultOf(v.id).segments
        outs(rows) == {[owner |-> r.owner, value |-> r.value, hash |-> r.hash, no |-> r.no] : r \in ToSet(rows)}
    IN  /\ request.q.offset.at \in {raw.hash} \cup ToSet(raw.ids)
        /\ got[2] # Err /\ \E x \in ToSet(NodeExecutes(BlockAt(got[2].height).body)) : x.raw = raw
        /\ (v.type = "BridgeClaim") = (raw.kind = "bridge_claim")
        /\ raw.kind = "standard" =>
             /\ outs(got[4]) = UNION {SegmentOutputs(raw, s) : s \in ok}
             /\ outs(got[5]) = UNION {SegmentInputs(raw, s) : s \in ok}
             /\ Len(got[3]) = Len(raw.actions)
        /\ Err \notin ToSet(got[6][1]) \cup ToSet(got[6][2])

\* The logs contracts emitted in segments that succeeded, as the node ran
\* them, in their order.
EmittedLogs ==
  FlattenSeq([i \in DOMAIN db.txs |->
    LET raw == Executed(db.txs[i])
    IN  IF db.txs[i].variant = "System" THEN <<>>
        ELSE SelectSeq([k \in DOMAIN raw.events |-> [tx |-> i, e |-> raw.events[k]]],
                       LAMBDA l : l.e.type = "ContractLog" /\ l.e.seg \in ResultOf(i).segments)])

\* contractEvents, read in the smallest pages, returns for every filter
\* exactly the logs emitted that the filter describes, in their order, and
\* a subscription with the filter streams the same, from any of them on.
ContractEventsAreEmitted ==
  \A f \in EventFilters :
    LET filter == IntoDomain(f)
        asked  == SelectSeq(EmittedLogs, LAMBDA l :
          /\ l.e.address = f.address
          /\ f.types # None => l.e.log \in f.types
          /\ f.from # None => chain[db.txs[l.tx].block].height >= f.from
          /\ f.to # None => chain[db.txs[l.tx].block].height <= f.to
          /\ f.hash \in {None, db.txs[l.tx].hash}
          /\ \A p \in f.prefixes : IsPrefix(p.prefix, IndexedBytes(p.name, l.e.struct[p.name])))
        rows   == FlattenSeq([k \in 1..Len(db.events) |-> ContractEventsQuery(f, 0, k - 1)])
    IN  filter # Err /\ db.events # <<>> =>
          /\ [k \in DOMAIN rows |-> <<rows[k].tx, rows[k].event.entry>>]
               = [k \in DOMAIN asked |-> <<asked[k].tx, asked[k].e.entry>>]
          /\ \A k \in DOMAIN rows :
               GetContractEventsChunk(db, filter, rows[k].id, Len(rows)) = SubSeq(rows, k, Len(rows))

\* The nullifiers the node's transactions published in a range of heights.
Published(type, from, to) ==
  FlattenSeq([i \in DOMAIN db.txs |->
    LET raw == Executed(db.txs[i])
        evs == SelectSeq(raw.events, LAMBDA e : e.type = type /\ e.seg \in ResultOf(i).segments)
    IN  IF db.txs[i].variant = "System" \/ db.blocks[db.txs[i].block].height \notin from..to
        THEN <<>> ELSE [k \in DOMAIN evs |-> evs[k].nullifier]])

\* A search for a nullifier by a prefix that does not end in the byte 255
\* finds every nullifier published in the range that has it, and no other.
NullifiersFound ==
  \A p \in NullifierPrefixes, to \in 0..MaxHeight :
    LET nullifiers(rows) == [k \in DOMAIN rows |-> rows[k].nullifier]
        asked(type) == SelectSeq(Published(type, 0, to), LAMBDA n : IsPrefix(p, n))
    IN  LastOf(p) # 255 =>
          /\ nullifiers(GetDustNullifierTransactions(db, <<p>>, 0, to)) = asked("DustSpend")
          /\ nullifiers(GetShieldedNullifierTransactions(db, <<p>>, 0, to)) = asked("ZswapInput")

\* What an address received and spent in the transactions listed for it adds
\* up to what the ledger holds for it, and the last of them is its progress.
UnshieldedHistory ==
  LET state == IF db.blocks = <<>> THEN <<>> ELSE GetNewestLedgerState(db).utxos
      sum(rows) == FoldLeft(LAMBDA n, u : n + u.value, 0, rows)
  IN  \A a \in {u.owner : u \in ToSet(db.utxos)} :
        LET txs == GetTransactionsByUnshieldedAddress(db, a, 1)
        IN  /\ FoldLeft(LAMBDA n, t : n + sum(GetUtxosByAddressCreatedBy(db, a, t.id))
                                        - sum(GetUtxosByAddressSpentBy(db, a, t.id)), 0, txs)
                 = FoldSet(LAMBDA u, n : n + u.value, 0, {u \in DOMAIN state : u.owner = a})
            /\ GetHighestTransactionIdForAddress(db, a) = LastOf(txs).id

\* A contract action asked for at a block has the state and the balance that
\* the node's contract has after that block, by height and by hash; asked
\* for by a transaction, it is one of that transaction.
ActionsFound ==
  \A a \in {x.address : x \in ToSet(db.actions)} :
    /\ \A h \in 0..Highest :
         LET found == ContractActionQuery(a, [by |-> "height", at |-> h])
             left  == BlockAt(h).state.contracts[a]
         IN  /\ found = ContractActionQuery(a, [by |-> "hash", at |-> BlockAt(h).hash])
             /\ found # None =>
                  /\ found.state = left
                  /\ Total(GetUnshieldedBalances(db, found.id)) = left
    /\ \A t \in ToSet(db.txs) :
         LET found == ContractActionQuery(a, [by |-> "tx", at |-> t.hash])
         IN  found # None => db.txs[found.tx].hash = t.hash
    /\ \A r \in ToSet(db.regular) : \A k \in DOMAIN r.ids :
         LET found == ContractActionQuery(a, [by |-> "id", at |-> r.ids[k]])
         IN  found # None => r.ids[k] \in ToSet(RegularOf(db, found.tx).ids)

\* What the API selects from the tables, by filter, prefix, address, block or
\* transaction, is what the node's chain has of that description.
SelectionsAreExact == Idle =>
  ContractEventsAreEmitted /\ NullifiersFound /\ UnshieldedHistory /\ ActionsFound
==============================================================================
