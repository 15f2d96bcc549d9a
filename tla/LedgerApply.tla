----------------------------- MODULE LedgerApply -----------------------------
(***************************************************************************)
(* Applying the transactions of a block to the ledger state, and what the  *)
(* indexer extracts from each of them: its result, its unshielded UTXOs,   *)
(* its ledger events, its ranges in the Merkle trees, its bridge claim.    *)
(*                                                                         *)
(* The ledger itself is the midnight-ledger library.  Its state is, here,  *)
(* the version, the sequences of zswap commitments and of dust             *)
(* generations, the number of dust commitments, the unshielded UTXOs with  *)
(* their creation times, what the bridge owes its users, the contracts     *)
(* deployed, and the block fullness that moves the fee price.  A           *)
(* transaction is a record that says what the library would do with it:    *)
(* cost is its stateless cost, stateCost the one that knows the state, and *)
(* fee what the bridge keeps of a transfer.                                *)
(***************************************************************************)
EXTENDS NodeRuntime, ContractLog, FiniteSets, TLC

CONSTANTS
  SlotMillis,   \* slot_duration of the node
  MaxDtime,     \* u64::MAX: a dust generation with no end
  BlockLimit    \* the block limit, in units of cost

ASSUME LedgerConstants ==
  /\ SlotMillis \in Nat \ {0}
  /\ MaxDtime \in Nat
  /\ BlockLimit \in Nat \ {0}

LedgerNew(v) ==
  [ver |-> v, zswap |-> <<>>, dust |-> 0, gens |-> <<>>, utxos |-> <<>>,
   receiving |-> <<>>, contracts |-> {}, fullness |-> 0, price |-> 1]

\* LedgerState::translate: there is no way back.
Translate(ledger, v) ==
  IF v < ledger.ver THEN Err ELSE [ledger EXCEPT !.ver = v]

Secs(millis) == millis \div 1000
Ascending(S) == SetToSortSeq(S, <)

------------------------------------------------------------------------------
(* The library: which segments of a transaction succeed, and their effect. *)

IntentHash(intent, segment) == <<intent.id, segment>>
Segments(tx) == {0} \cup DOMAIN tx.intents

SegmentInputs(tx, s) ==
  IF s = 0 THEN UNION {Range(tx.intents[i].gins) : i \in DOMAIN tx.intents}
           ELSE Range(tx.intents[s].fins)

OfIntent(intent, s, outs) ==
  {[owner |-> outs[k].owner, value |-> outs[k].value,
    hash |-> IntentHash(intent, s), no |-> k - 1] : k \in DOMAIN outs}

SegmentOutputs(tx, s) ==
  IF s = 0 THEN UNION {OfIntent(tx.intents[i], 0, tx.intents[i].gouts) : i \in DOMAIN tx.intents}
           ELSE OfIntent(tx.intents[s], s, tx.intents[s].fouts)

ClaimOutput(tx) == [owner |-> tx.owner, value |-> tx.value, hash |-> <<tx.hash, 0>>, no |-> 0]

Owed(ledger, owner) ==
  IF owner \in DOMAIN ledger.receiving THEN ledger.receiving[owner] ELSE 0

Spend(utxos, gone, new, ctime) ==
  [u \in (DOMAIN utxos \ gone) \cup new |-> IF u \in new THEN ctime ELSE utxos[u]]

\* The guaranteed segment 0 first, then the fallible ones in order.
RunSegments(ledger, tx, ctime) ==
  FoldLeft(
    LAMBDA acc, s :
      IF s \notin tx.fails /\ SegmentInputs(tx, s) \subseteq DOMAIN acc.utxos
      THEN [acc EXCEPT !.utxos = Spend(@, SegmentInputs(tx, s), SegmentOutputs(tx, s), ctime),
                       !.ok = @ \cup {s}]
      ELSE acc,
    [utxos |-> ledger.utxos, ok |-> {}], Ascending(Segments(tx)))

\* The events of the segments that succeeded; each one tells of its change.
Emitted(tx, ok) == SelectSeq(tx.events, LAMBDA e : e.seg \in ok)

\* The dust events carry the index the library gives their generation, and
\* its creation time.
Numbered(ledger, events, ts) ==
  [k \in DOMAIN events |->
     IF events[k].type # "DustInitialUtxo" THEN events[k]
     ELSE [events[k] EXCEPT !.ctime = Secs(ts), !.index = Len(ledger.gens)
             + Cardinality({j \in 1..(k - 1) : events[j].type = "DustInitialUtxo"})]]

EventEffect(ledger, e) ==
  CASE e.type = "ZswapOutput" ->
         [ledger EXCEPT !.zswap = Append(@, [com |-> e.com, contract |-> e.address])]
    [] e.type = "DustInitialUtxo" ->
         [ledger EXCEPT !.dust = @ + 1,
            !.gens = Append(@, [night |-> e.night, owner |-> e.owner, value |-> e.value,
                                ctime |-> e.ctime, dtime |-> MaxDtime])]
    [] e.type = "DtimeUpdate" ->
         [ledger EXCEPT !.gens = [i \in DOMAIN @ |->
            IF @[i].night = e.night THEN [@[i] EXCEPT !.dtime = e.dtime] ELSE @[i]]]
    [] e.type = "DustSpend" -> [ledger EXCEPT !.dust = @ + 1]
    [] OTHER -> ledger

EventsEffect(ledger, events) == FoldLeft(EventEffect, ledger, events)

Deployed(tx, ok) ==
  {a.address : a \in {x \in Range(tx.actions) : x.variant = "Deploy" /\ x.seg \in ok}}

\* LedgerState::apply of the library
LibraryApply(ledger, tx, ts) ==
  IF tx.kind = "standard" THEN
    LET run == RunSegments(ledger, tx, Secs(ts))
    IN  IF 0 \notin run.ok THEN [ledger |-> ledger, ok |-> {}]
        ELSE [ledger |-> EventsEffect([ledger EXCEPT !.utxos = run.utxos,
                                                     !.contracts = @ \cup Deployed(tx, run.ok)],
                                      Numbered(ledger, Emitted(tx, run.ok), ts)),
              ok |-> run.ok]
  ELSE
    IF tx.kind = "bridge_claim" /\ Owed(ledger, tx.owner) < tx.value
    THEN [ledger |-> ledger, ok |-> {}]
    ELSE [ledger |-> [ledger EXCEPT
                        !.utxos = Spend(@, {}, {ClaimOutput(tx)}, Secs(ts)),
                        !.receiving = IF tx.kind = "claim" THEN @
                                      ELSE [@ EXCEPT ![tx.owner] = @ - tx.value]],
          ok |-> {0}]

TreasuryUtxo(tx, k) ==
  [owner |-> tx.outs[k].owner, value |-> tx.outs[k].value, hash |-> <<tx.hash, k>>, no |-> k - 1]

\* LedgerState::apply_system_tx of the library
LibraryApplySystem(ledger, tx, ts) ==
  LET applied == EventsEffect(ledger, Numbered(ledger, tx.events, ts))
  IN  CASE tx.kind = "treasury" ->
             [applied EXCEPT !.utxos =
                Spend(@, {}, {TreasuryUtxo(tx, k) : k \in DOMAIN tx.outs}, Secs(ts))]
        [] tx.kind = "bridge" ->
             [applied EXCEPT !.receiving =
                [o \in DOMAIN @ \cup {tx.owner} |->
                   Owed(applied, o) + IF o = tx.owner THEN tx.value - tx.fee ELSE 0]]
        [] OTHER -> applied

\* LedgerState::post_block_update of the library: fuller than half, dearer
LibraryPostBlock(ledger, fullness) ==
  [ledger EXCEPT !.fullness = 0,
     !.price = IF 2 * fullness > BlockLimit THEN @ + 1 ELSE IF @ > 1 THEN @ - 1 ELSE @]

NightIndices(ledger) == {ledger.gens[i].night : i \in DOMAIN ledger.gens}

------------------------------------------------------------------------------
(* The indexer: unshielded UTXOs of a transaction.                         *)

\* registered_for_dust_generation and ctime are read from the state after
\* the transaction.
UnshieldedUtxo(u, ledger) ==
  [owner |-> u.owner, value |-> u.value, hash |-> u.hash, no |-> u.no,
   ctime |-> IF u \in DOMAIN ledger.utxos THEN ledger.utxos[u] ELSE None,
   nonce |-> <<u.hash, u.no>>,
   registered |-> <<u.hash, u.no>> \in NightIndices(ledger)]

ExtendUnshieldedUtxos(acc, s, intent, ledger) ==
  LET outs == IF s = 0 THEN intent.gouts ELSE intent.fouts
      ins  == IF s = 0 THEN intent.gins ELSE intent.fins
  IN  [created |-> acc.created \o [k \in DOMAIN outs |->
         UnshieldedUtxo([owner |-> outs[k].owner, value |-> outs[k].value,
                         hash |-> IntentHash(intent, s), no |-> k - 1], ledger)],
       spent |-> acc.spent \o [k \in DOMAIN ins |-> UnshieldedUtxo(ins[k], ledger)]]

\* The same for the types of ledger 8.
ExtendUnshieldedUtxosV8(acc, s, intent, ledger) == ExtendUnshieldedUtxos(acc, s, intent, ledger)
ExtendUtxos(acc, s, intent, ledger) ==
  IF ledger.ver = 8 THEN ExtendUnshieldedUtxosV8(acc, s, intent, ledger)
                    ELSE ExtendUnshieldedUtxos(acc, s, intent, ledger)

NoUtxos == [created |-> <<>>, spent |-> <<>>]

SegmentUtxos(tx, result, acc, s, ledger) ==
  IF s = 0 THEN FoldLeft(LAMBDA a, i : ExtendUtxos(a, 0, tx.intents[i], ledger),
                         acc, Ascending(DOMAIN tx.intents))
  ELSE IF s \in result.segments THEN ExtendUtxos(acc, s, tx.intents[s], ledger)
  ELSE acc

MakeRegularUtxos(tx, result, ledger) ==
  IF result.status = "Failure" THEN NoUtxos
  ELSE IF tx.kind # "standard" THEN
    [created |-> <<UnshieldedUtxo(ClaimOutput(tx), ledger)>>, spent |-> <<>>]
  ELSE FoldLeft(LAMBDA acc, s : SegmentUtxos(tx, result, acc, s, ledger),
                NoUtxos, Ascending(Segments(tx)))

MakeRegularUtxosV8(tx, result, ledger) == MakeRegularUtxos(tx, result, ledger)
RegularUtxos(tx, result, ledger) ==
  IF ledger.ver = 8 THEN MakeRegularUtxosV8(tx, result, ledger)
                    ELSE MakeRegularUtxos(tx, result, ledger)

MakeSystemUtxos(tx, ledger) ==
  IF tx.kind # "treasury" THEN <<>>
  ELSE [k \in DOMAIN tx.outs |-> UnshieldedUtxo(TreasuryUtxo(tx, k), ledger)]

MakeSystemUtxosV8(tx, ledger) == MakeSystemUtxos(tx, ledger)
SystemUtxos(tx, ledger) ==
  IF ledger.ver = 8 THEN MakeSystemUtxosV8(tx, ledger) ELSE MakeSystemUtxos(tx, ledger)

------------------------------------------------------------------------------
(* The indexer: ledger events.                                             *)

DustInitialUtxo(e) ==
  [type |-> e.type, grouping |-> "Dust", night |-> e.night, owner |-> e.owner,
   value |-> e.value, ctime |-> e.ctime, index |-> e.index, dtime |-> MaxDtime]
DtimeUpdate(e) == [type |-> e.type, grouping |-> "Dust", night |-> e.night, dtime |-> e.dtime]
ParamChange(e) == [type |-> e.type, grouping |-> "Dust"]
DustSpend(e) == [type |-> e.type, grouping |-> "Dust", nullifier |-> e.nullifier]
ZswapEvent(e) == [type |-> e.type, grouping |-> "Zswap", nullifier |-> e.nullifier]
ContractEvent(e) ==
  [type |-> e.log, grouping |-> "Contract", address |-> e.address, entry |-> e.entry,
   attributes |-> MakeContractEventAttributes(e.log, e.data)]

LedgerEvent(e) ==
  CASE e.type \in {"ZswapInput", "ZswapOutput"} -> ZswapEvent(e)
    [] e.type = "DustInitialUtxo" -> DustInitialUtxo(e)
    [] e.type = "DtimeUpdate" -> DtimeUpdate(e)
    [] e.type = "DustSpend" -> DustSpend(e)
    [] e.type = "ParamChange" -> ParamChange(e)
    [] e.type = "ContractLog" -> ContractEvent(e)

MakeLedgerEventsV8(events) ==
  LET kept == SelectSeq(events, LAMBDA e : e.type \notin {"ContractDeploy", "ContractLog"})
  IN  [k \in DOMAIN kept |-> LedgerEvent(kept[k])]
MakeLedgerEventsV9(events) ==
  LET kept == SelectSeq(events, LAMBDA e : e.type # "ContractDeploy")
  IN  [k \in DOMAIN kept |-> LedgerEvent(kept[k])]
MakeLedgerEvents(v, events) ==
  IF v = 8 THEN MakeLedgerEventsV8(events) ELSE MakeLedgerEventsV9(events)

------------------------------------------------------------------------------
(* The indexer: applying a transaction, and a block.                       *)

TransactionResult(tx, ok) ==
  [status |-> IF ok = {} THEN "Failure"
              ELSE IF ok = Segments(tx) THEN "Success" ELSE "PartialSuccess",
   segments |-> ok]

\* A claim of bridged NIGHT is read from the transaction, whatever its result.
BridgeClaim(v, tx) ==
  IF v = 9 /\ tx.kind = "bridge_claim" THEN [recipient |-> tx.owner, amount |-> tx.value]
  ELSE None

\* Mutant: on ledger 9 the fullness counts the state-aware cost, as the fees do.
CountedCostMutant(v, tx, ok) ==
  IF ok = {} THEN 0 ELSE IF v = 9 THEN tx.stateCost ELSE tx.cost

\* What the block fullness grows by: the stateless cost of what did not fail,
\* with either version.
CountedCost(v, tx, ok) == IF ok = {} THEN 0 ELSE tx.cost

\* The cost the fees are computed from, state-aware on ledger 9.
FeeCost(v, tx) == IF v = 8 THEN tx.cost ELSE tx.stateCost

\* No fees can be computed for a cost that exceeds the block limits.
Fees(ledger, tx) ==
  IF FeeCost(ledger.ver, tx) > BlockLimit THEN Err ELSE ledger.price * FeeCost(ledger.ver, tx)

\* The library's well_formed: the intents' time to live has not passed and
\* the contracts called or maintained are there.
WellFormed(ledger, tx, ts) ==
  /\ Secs(ts) <= tx.ttl
  /\ \A a \in Range(tx.actions) : a.variant # "Deploy" => a.address \in ledger.contracts

\* The contract's part of the zswap state, and its balances unless the
\* state is empty.
ContractActionState(ledger, action) ==
  [zswapState |-> SelectSeq(ledger.zswap, LAMBDA c : c.contract = action.address),
   balance |-> IF action.state = 0 THEN None ELSE action.state]

\* The first free index of each Merkle tree before and after a transaction.
TreeRanges(before, after) ==
  [zswap |-> <<Len(before.zswap), Len(after.zswap)>>,
   dust |-> <<before.dust, after.dust>>, gens |-> <<Len(before.gens), Len(after.gens)>>]

\* What is extracted from a transaction the library applied.
RegularOutcome(ledger, tx, ts, applied) ==
  LET result  == TransactionResult(tx, applied.ok)
      after   == [applied.ledger EXCEPT !.fullness = @ + CountedCost(ledger.ver, tx, applied.ok)]
      emitted == IF applied.ok = {} THEN <<>> ELSE Emitted(tx, applied.ok)
  IN  RegularUtxos(tx, result, after) @@
      [ledger |-> after, result |-> result,
       events |-> MakeLedgerEvents(ledger.ver, Numbered(ledger, emitted, ts)),
       fees |-> Fees(ledger, tx), claim |-> BridgeClaim(ledger.ver, tx)]

\* indexer_common's apply_regular_transaction
ApplyRegular(ledger, tx, ts, wellFormedTs) ==
  IF Fees(ledger, tx) # Err /\ WellFormed(ledger, tx, wellFormedTs)
  THEN RegularOutcome(ledger, tx, ts, LibraryApply(ledger, tx, ts))
  ELSE Err

\* chain-indexer's domain transaction, from what came of it
RegularTransaction(ledger, t, out) ==
  IF out = Err THEN Err
  ELSE [ledger |-> out.ledger,
        transaction |->
          [variant |-> "Regular", hash |-> t.hash, version |-> t.version, ids |-> t.ids,
           result |-> out.result, zswap |-> out.ledger.zswap,
           range |-> TreeRanges(ledger, out.ledger),
           created |-> out.created, spent |-> out.spent, events |-> out.events,
           fees |-> out.fees, claim |-> out.claim,
           actions |-> [i \in DOMAIN t.actions |->
             t.actions[i] @@ ContractActionState(out.ledger, t.actions[i])]]]

\* chain-indexer's apply_regular_transaction
ApplyRegularTransaction(ledger, t, ts, wellFormedTs) ==
  RegularTransaction(ledger, t, ApplyRegular(ledger, t.raw, ts, wellFormedTs))

SystemOutcome(ledger, tx, ts, applied) ==
  LET after == [applied EXCEPT !.fullness = @ + tx.cost]
  IN  [ledger |-> after, created |-> SystemUtxos(tx, after),
       events |-> MakeLedgerEvents(ledger.ver, Numbered(ledger, tx.events, ts))]

ApplySystem(ledger, tx, ts) ==
  SystemOutcome(ledger, tx, ts, LibraryApplySystem(ledger, tx, ts))

SystemTransaction(t, out) ==
  [ledger |-> out.ledger,
   transaction |-> [variant |-> "System", hash |-> t.hash, version |-> t.version,
                    created |-> out.created, spent |-> <<>>, events |-> out.events]]

ApplySystemTransaction(ledger, t, ts) == SystemTransaction(t, ApplySystem(ledger, t.raw, ts))

Clamp(fullness) == IF fullness > BlockLimit THEN BlockLimit ELSE fullness

\* post_block_update, and the fullness starts over
FinalizeApplyTransactions(ledger) == LibraryPostBlock(ledger, Clamp(ledger.fullness))

Bump == 2 * SlotMillis   \* MEMPOOL_TBLOCK_BUMP_MILLIS

WellFormedTimestamp(first, bump, ts, parentTs) ==
  IF first /\ bump THEN parentTs + Bump ELSE ts

AddTransaction(acc, regular, applied) ==
  IF applied = Err THEN [acc EXCEPT !.ledger = Err]
  ELSE [ledger |-> applied.ledger, first |-> acc.first /\ ~regular,
        transactions |-> Append(acc.transactions, applied.transaction)]

ApplyNext(acc, t, ts, parentTs, bump) ==
  IF acc.ledger = Err THEN acc
  ELSE IF t.variant = "Regular"
       THEN AddTransaction(acc, TRUE,
              ApplyRegularTransaction(acc.ledger, t, ts,
                WellFormedTimestamp(acc.first, bump, ts, parentTs)))
       ELSE AddTransaction(acc, FALSE, ApplySystemTransaction(acc.ledger, t, ts))

AppliedTransactions(acc) ==
  IF acc.ledger = Err THEN Err
  ELSE LET final == FinalizeApplyTransactions(acc.ledger)
       IN  [ledger |-> final, transactions |-> acc.transactions, price |-> final.price]

\* apply_transactions: the ledger after the block, and its transactions
ApplyTransactions(ledger, transactions, ts, parentTs, bump) ==
  AppliedTransactions(
    FoldLeft(LAMBDA a, t : ApplyNext(a, t, ts, parentTs, bump),
             [ledger |-> ledger, first |-> TRUE, transactions |-> <<>>], transactions))
==============================================================================
