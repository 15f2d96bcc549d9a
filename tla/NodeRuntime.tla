----------------------------- MODULE NodeRuntime -----------------------------
(***************************************************************************)
(* What the chain-indexer makes of a block it fetches from the node: which *)
(* runtime decodes which part, the transactions and events in execution    *)
(* order, the author, and what is read from the block's state.             *)
(*                                                                         *)
(* A block of the node is a record: version, the node version that built   *)
(* it (MNSV digest), and spec, the one in its state (newer in the block    *)
(* that enacts an upgrade); logs, calls and events, its digest logs, its   *)
(* extrinsics and its events; state, what storage and the runtime API      *)
(* answer at its hash.                                                     *)
(***************************************************************************)
EXTENDS Integers, Sequences, SequencesExt

CONSTANTS
  None,   \* Rust's Option::None
  Err     \* an error result: whoever meets one stops

ASSUME NoneErrAssumption == None # Err

\* ProtocolVersion::try_from: a release range names a version, anything else
\* is unsupported
ProtocolVersion(n) ==
  IF n \in 22000..22999 THEN "V0_22"
  ELSE IF n \in 1000000..1000999 THEN "V1_0"
  ELSE IF n \in 2000000..2000999 THEN "V2_0"
  ELSE IF n \in 2001000..2001999 THEN "V2_1"
  ELSE Err

\* ProtocolVersion::ledger_version
LedgerVersion(v) == IF v \in {"V0_22", "V1_0"} THEN 8 ELSE 9

\* The runtime in the block's state, which its storage and runtime API use.
StateVersion(block) == ProtocolVersion(block.spec)

------------------------------------------------------------------------------
(* The extrinsics and events of a block, shared by the runtimes.           *)

Calls(block) ==
  SelectSeq(block.calls, LAMBDA c : c.call \in {"Timestamp", "Midnight", "MidnightSystem"})

Timestamp(block) ==
  LET set == SelectSeq(Calls(block), LAMBDA c : c.call = "Timestamp")
  IN  IF set = <<>> THEN None ELSE set[1].now

Transactions(block) ==
  LET txs == SelectSeq(Calls(block), LAMBDA c : c.call # "Timestamp")
  IN  [i \in DOMAIN txs |->
         [variant |-> IF txs[i].call = "Midnight" THEN "Regular" ELSE "System",
          raw |-> txs[i].raw]]

\* The system transactions of inherents, known from their events.
SystemTransactions(block) ==
  LET evs == SelectSeq(block.events, LAMBDA e : e.event = "SystemTransactionApplied")
  IN  [i \in DOMAIN evs |-> [variant |-> "System", raw |-> evs[i].raw]]

RegistrationEvents(block) ==
  SelectSeq(block.events,
    LAMBDA e : e.event \in {"Registration", "Deregistration", "MappingAdded", "MappingRemoved"})

BridgeVariants ==
  {"UserTransfer", "ReserveTransfer", "InvalidTransfer", "UnapprovedTransfer",
   "SubminimalFlushTransfer"}
BridgeEvents(block) == SelectSeq(block.events, LAMBDA e : e.event \in BridgeVariants)

NewSession(block) == \E i \in DOMAIN block.events : block.events[i].event = "NewSession"

\* Inherents execute before the extrinsics of users.
BlockDetails(block, bridge) ==
  [timestamp |-> Timestamp(block),
   transactions |-> SystemTransactions(block) \o Transactions(block),
   registrations |-> RegistrationEvents(block),
   bridge |-> bridge]

\* Runtimes before 2.0 have no c2m-bridge pallet.
MakeBlockDetailsV0_22(block) == BlockDetails(block, <<>>)
MakeBlockDetailsV1_0(block) == BlockDetails(block, <<>>)
MakeBlockDetailsV2_0(block) == BlockDetails(block, BridgeEvents(block))
MakeBlockDetailsV2_1(block) == BlockDetails(block, BridgeEvents(block))

\* Bytes of another runtime than the one that built the block do not decode.
MakeBlockDetails(v, block) ==
  CASE v # ProtocolVersion(block.version) -> Err
    [] v = "V0_22" -> MakeBlockDetailsV0_22(block)
    [] v = "V1_0"  -> MakeBlockDetailsV1_0(block)
    [] v = "V2_0"  -> MakeBlockDetailsV2_0(block)
    [] v = "V2_1"  -> MakeBlockDetailsV2_1(block)

------------------------------------------------------------------------------
(* What is read from a block's state: its storage and its runtime API.     *)

RegistrationPair(m) ==
  << [event |-> "Registration", key |-> m.key, dust |-> m.dust],
     [event |-> "MappingAdded", key |-> m.key, dust |-> m.dust, utxo |-> m.utxo] >>

\* Runtimes of ledger 8 keep a list of mappings per Cardano address, of which
\* the first is taken; those of ledger 9 one entry per address and UTXO.
FirstPerKey(ms) ==
  SelectSeq(ms, LAMBDA m : m = ms[CHOOSE i \in DOMAIN ms :
    ms[i].key = m.key /\ \A j \in 1..(i - 1) : ms[j].key # m.key])

StateReads(block, mappings) ==
  [authorities |-> block.state.authorities, contracts |-> block.state.contracts,
   zswap |-> block.state.ledger.zswap, root |-> block.state.ledger,
   d |-> block.state.d, tc |-> block.state.tc,
   registrations |-> FlattenSeq([i \in DOMAIN mappings |-> RegistrationPair(mappings[i])])]

StateReadsV0_22(block) == StateReads(block, FirstPerKey(block.state.mappings))
StateReadsV1_0(block) == StateReads(block, FirstPerKey(block.state.mappings))
StateReadsV2_0(block) == StateReads(block, block.state.mappings)
StateReadsV2_1(block) == StateReads(block, block.state.mappings)

\* Reading with another runtime than the state's does not decode.
ReadState(v, block) ==
  CASE v # StateVersion(block) -> Err
    [] v = "V0_22" -> StateReadsV0_22(block)
    [] v = "V1_0"  -> StateReadsV1_0(block)
    [] v = "V2_0"  -> StateReadsV2_0(block)
    [] v = "V2_1"  -> StateReadsV2_1(block)

\* IncompatibleCodegen: the call is retried at the parent block.
GetZswapMerkleTreeRoot(v, block, parent) ==
  IF ReadState(v, block) # Err THEN ReadState(v, block).zswap
  ELSE IF parent # None THEN ReadState(v, parent).zswap ELSE Err

\* A contract that is not on chain has the empty state, here 0.
GetContractState(v, block, address) ==
  LET contracts == ReadState(v, block).contracts
  IN  IF address \in DOMAIN contracts THEN contracts[address] ELSE 0

------------------------------------------------------------------------------
(* The author.                                                             *)

BabeAuthor(log, authorities) ==
  IF log.tag \notin 1..3 THEN Err
  ELSE IF log.index < Len(authorities) THEN authorities[log.index + 1] ELSE None

LogAuthor(log, authorities, babe) ==
  CASE log.engine = "aura" -> authorities[(log.slot % Len(authorities)) + 1]
    [] log.engine = "babe" /\ babe -> BabeAuthor(log, authorities)
    [] OTHER -> None

\* The first log that yields an author, or fails to decode, decides.
AuthorFromDigestLogs(logs, authorities, babe) ==
  IF authorities = <<>> THEN None
  ELSE FoldLeft(LAMBDA author, log : IF author # None THEN author
                                     ELSE LogAuthor(log, authorities, babe),
                None, logs)

------------------------------------------------------------------------------
(* make_block: the domain block, or an error that ends the stream, and the *)
(* authority set cached for the next block.                                *)

MakeContractAction(v, block, action) ==
  [variant |-> action.variant, address |-> action.address, entry |-> action.entry,
   state |-> GetContractState(v, block, action.address)]

MakeRegularTransaction(raw, version, v, block) ==
  [variant |-> "Regular", hash |-> raw.hash, version |-> version, ids |-> raw.ids,
   actions |-> [i \in DOMAIN raw.actions |-> MakeContractAction(v, block, raw.actions[i])],
   raw |-> raw]

MakeSystemTransaction(raw, version) ==
  [variant |-> "System", hash |-> raw.hash, version |-> version, raw |-> raw]

MakeTransaction(t, version, v, block) ==
  IF t.variant = "Regular" THEN MakeRegularTransaction(t.raw, version, v, block)
                           ELSE MakeSystemTransaction(t.raw, version)

ContentVersion(block) == ProtocolVersion(block.version)

\* Mutant: the set cached for the next block survives a new session.
NextAuthoritiesMutant(authorities, block) == authorities
NextAuthorities(authorities, block) == IF NewSession(block) THEN None ELSE authorities

Author(block, cached) == AuthorFromDigestLogs(block.logs, cached, block.babe)

\* Mutant: the registrations kept in genesis storage are not read.
RegistrationsMutant(v, block, details) == details.registrations
\* Genesis emits no events, so its registrations come from pallet storage.
Registrations(v, block, details) ==
  details.registrations
    \o (IF block.height = 0 THEN ReadState(v, block).registrations ELSE <<>>)

MakeBlock(authorities, block, parent) ==
  LET content == ContentVersion(block)
      state   == StateVersion(block)
      cached  == IF authorities = None THEN ReadState(state, block).authorities ELSE authorities
      author  == Author(block, cached)
      zswap   == GetZswapMerkleTreeRoot(state, block, parent)
      details == MakeBlockDetails(content, block)
      root    == IF block.height = 0 THEN ReadState(state, block).root ELSE None
  IN  IF Err \in {content, state, author, details, zswap} THEN
        [authorities |-> cached, block |-> Err]
      ELSE
        [authorities |-> NextAuthorities(cached, block),
         block |->
           [hash |-> block.hash, height |-> block.height, parent |-> block.parent,
            version |-> content, author |-> author,
            timestamp |-> IF details.timestamp = None THEN 0 ELSE details.timestamp,
            zswap |-> zswap, root |-> root,
            transactions |-> [i \in DOMAIN details.transactions |->
                                MakeTransaction(details.transactions[i], content, state, block)],
            registrations |-> Registrations(state, block, details),
            bridge |-> details.bridge]]

\* fetch_system_parameters
FetchSystemParameters(block) ==
  LET now == ReadState(StateVersion(block), block) IN [d |-> now.d, tc |-> now.tc]
==============================================================================
