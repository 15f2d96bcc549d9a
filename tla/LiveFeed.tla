------------------------------- MODULE LiveFeed -------------------------------
(***************************************************************************)
(* The GraphQL subscriptions of indexer-api that follow a table by an      *)
(* ascending key: blocks, contract actions, contract events, zswap and     *)
(* dust ledger events, unshielded transactions, bridge events, and dust    *)
(* and shielded nullifiers.  Each subscribes to a topic, resolves where to *)
(* start, streams the existing rows in batches and then, on each message,  *)
(* the rows that have appeared since.                                      *)
(*                                                                         *)
(* A row is abstracted to the height of its block and to whether it is     *)
(* `mine': the one the subscription's address, grouping or filter selects. *)
(* The ids of the rows are 1, 2, ... in the order they are saved.  One     *)
(* subscription is modelled; subscriptions share only tables and topics.   *)
(***************************************************************************)
EXTENDS PubSub, Paging

CONSTANTS
  Feeds,       \* the subscriptions to consider
  MaxBlocks,   \* bound: blocks saved
  MaxRows,     \* bound: rows of a block
  BatchSize    \* batch_size of the subscription, BACKFILL_BATCH for bridge events

AllFeeds == {"blocks", "contract_actions", "contract_events", "ledger_events",
             "unshielded", "bridge_events", "nullifiers"}

ASSUME FeedsAssumption  == Feeds \subseteq AllFeeds
ASSUME FeedBoundsAssumption == MaxBlocks \in Nat /\ MaxRows \in Nat
ASSUME FeedBatchAssumption  == BatchSize \in Nat \ {0}

VARIABLES
  tip,        \* blocks 0 .. tip - 1 are saved
  rows,       \* the rows saved with them, by id
  unsent,     \* messages the chain-indexer has still to publish for the last block
  feed,       \* which subscription this is
  phase,      \* where the subscription is
  offset,     \* the client's argument, None if omitted
  until,      \* toBlock of contract events and nullifiers, None if omitted
  start,      \* the height the offset was resolved to
  from,       \* the key the subscription started at
  cursor,     \* the key the subscription goes on from
  next,       \* the key the running storage stream goes on from
  lastRound,  \* last_round
  buffer,     \* rows fetched and not yet yielded
  yielded     \* keys of what the client got

request == <<feed, offset, until>>
table   == <<tip, rows, unsent>>
vars    == <<table, request, phase, start, from, cursor, next, lastRound, buffer,
             yielded, channel>>

None    == -1
Height  == 0 .. MaxBlocks - 1
Message == [height : Height, mine : BOOLEAN]

Topic(f) ==
  CASE f = "unshielded"    -> "UnshieldedUtxoIndexed"
    [] f = "bridge_events" -> "BridgeEventIndexed"
    [] OTHER               -> "BlockIndexed"

HeightOf(k) == IF feed = "blocks" THEN k ELSE rows[k].height

\* The keys of the rows the subscription's queries select.
Matching ==
  IF feed = "blocks" THEN 0 .. tip - 1
  ELSE {k \in DOMAIN rows : /\ rows[k].mine
                            /\ until # None => rows[k].height <= until
                            /\ feed = "nullifiers" /\ offset # None => rows[k].height >= offset}

-----------------------------------------------------------------------------
(* The chain-indexer.                                                      *)

\* What index_block publishes on the subscription's topic after a block: one
\* BlockIndexed, one UnshieldedUtxoIndexed per address the block affects, one
\* BridgeEventIndexed per event.
Messages(block) ==
  CASE feed = "bridge_events" -> [i \in DOMAIN block |-> [height |-> tip, mine |-> block[i]]]
    [] feed = "unshielded"    ->
         IF block = <<>> THEN <<>>
         ELSE IF \A i \in DOMAIN block : block[i] = block[1]
         THEN <<[height |-> tip, mine |-> block[1]]>>
         ELSE <<[height |-> tip, mine |-> FALSE], [height |-> tip, mine |-> TRUE]>>
    [] OTHER                  -> <<[height |-> tip, mine |-> TRUE]>>

\* save_block commits the block with its rows.
SaveBlock(block) ==
  /\ ~panicked
  /\ unsent = <<>>
  /\ tip < MaxBlocks
  /\ tip' = tip + 1
  /\ rows' = rows \o [i \in DOMAIN block |-> [height |-> tip, mine |-> block[i]]]
  /\ unsent' = Messages(block)
  /\ UNCHANGED <<request, phase, start, from, cursor, next, lastRound, buffer,
                 yielded, channel>>

\* Then it publishes, one message after the other.
Announce ==
  /\ ~panicked
  /\ unsent # <<>>
  /\ Publish(Topic(feed), Head(unsent))
  /\ unsent' = Tail(unsent)
  /\ UNCHANGED <<tip, rows, request, phase, start, from, cursor, next, lastRound,
                 buffer, yielded>>

\* The chain-indexer of the cloud build stops before it has published; what it
\* saved is never announced.
StopIndexer ==
  /\ transport = "nats"
  /\ unsent # <<>>
  /\ unsent' = <<>>
  /\ UNCHANGED <<tip, rows, request, phase, start, from, cursor, next, lastRound,
                 buffer, yielded, channel>>

-----------------------------------------------------------------------------
(* The subscription.                                                       *)

Begin(k) == from' = k /\ cursor' = k /\ next' = k

\* The resolver subscribes to the topic first, bridge_events only once the
\* existing events are out.  Nullifiers have a range of blocks, which must not
\* be empty; the others take an id, 1 or 0 if omitted.
Subscribe ==
  /\ ~panicked
  /\ phase = "idle"
  /\ IF feed = "bridge_events" THEN UNCHANGED channel ELSE Open(Topic(feed))
  /\ IF feed \in {"blocks", "contract_actions"}
     THEN /\ phase' = "resolving"
          /\ UNCHANGED <<from, cursor, next>>
     ELSE /\ phase' = CASE feed = "contract_events" -> "checking"
                      [] feed = "nullifiers" /\ until # None /\ offset > until -> "rejected"
                      [] OTHER -> "fetching"
          /\ Begin(IF offset # None /\ feed # "nullifiers"
                   THEN IF feed = "bridge_events" THEN offset + 1 ELSE offset
                   ELSE IF feed \in {"ledger_events", "bridge_events", "nullifiers"} THEN 1 ELSE 0)
  /\ UNCHANGED <<table, request, start, lastRound, buffer, yielded>>

\* resolve_height: an offset that names no block is the client's error; without
\* one it is the latest block.
ResolveHeight ==
  /\ phase = "resolving"
  /\ LET height == IF offset # None THEN offset ELSE IF tip = 0 THEN 0 ELSE tip - 1
     IN  IF offset # None /\ offset >= tip
         THEN phase' = "rejected" /\ UNCHANGED <<start, from, cursor, next>>
         ELSE /\ start' = height
              /\ IF feed = "blocks"
                 THEN phase' = "fetching" /\ Begin(height)
                 ELSE phase' = "locating" /\ UNCHANGED <<from, cursor, next>>
  /\ UNCHANGED <<table, request, lastRound, buffer, yielded, channel>>

\* get_contract_action_id_by_block_height: the first action, of any contract, at
\* that height or above, and 0 if there is none.
FirstFrom(height) ==
  LET ids == {k \in DOMAIN rows : rows[k].height >= height}
  IN  IF ids = {} THEN {0} ELSE {k \in ids : \A other \in ids : k <= other}

LocateContractAction ==
  /\ phase = "locating"
  /\ \E k \in FirstFrom(start) : Begin(k)
  /\ phase' = "fetching"
  /\ UNCHANGED <<table, request, start, lastRound, buffer, yielded, channel>>

\* Mutant: off by one, the block before toBlock is enough.
ReachedToBlockMutant == until # None /\ tip >= until

\* Whether the chain has reached toBlock.
ReachedToBlock == until # None /\ tip > until

CheckToBlock ==
  /\ phase = "checking"
  /\ lastRound' = ReachedToBlock
  /\ phase' = "fetching"
  /\ UNCHANGED <<table, request, start, from, cursor, next, buffer, yielded, channel>>

\* The query: the next rows in ascending order, at most a batch.
Batches(k) == Pages({m \in Matching : m >= k}, BatchSize)

\* Bridge events fetch one batch per message, all others until a batch is empty.
OneBatch == feed = "bridge_events" /\ link # "unopened"

\* Where the storage stream goes on after a batch.
After(batch) == batch[Len(batch)] + 1

\* What follows the last query of a round: nullifiers look now whether the chain
\* has reached toBlock, contract events have done so before.
RoundOver ==
  IF feed = "nullifiers" /\ until # None THEN "reaching"
  ELSE IF lastRound THEN "completed" ELSE "waiting"

\* The storage stream runs its next query; an empty batch ends it.  The live tail
\* of bridge events is opened when the existing ones are out.
Fetch ==
  /\ ~panicked
  /\ phase = "fetching"
  /\ buffer = <<>>
  /\ buffer' \in Batches(next)
  /\ IF buffer' = <<>>
     THEN /\ phase' = RoundOver
          /\ UNCHANGED next
          /\ IF link = "unopened" THEN Open(Topic(feed)) ELSE UNCHANGED channel
     ELSE /\ next' = After(buffer')
          /\ UNCHANGED <<phase, channel>>
  /\ UNCHANGED <<table, request, start, from, cursor, lastRound, yielded>>

\* After a round nullifiers compare the latest block with toBlock.
ReachToBlock ==
  /\ phase = "reaching"
  /\ phase' = IF ReachedToBlock THEN "completed" ELSE "waiting"
  /\ UNCHANGED <<table, request, start, from, cursor, next, lastRound, buffer, yielded,
                 channel>>

\* Mutant: the cursor is the key of the row itself.
YieldMutant ==
  /\ buffer # <<>>
  /\ yielded' = Append(yielded, Head(buffer))
  /\ cursor' = Head(buffer)
  /\ buffer' = Tail(buffer)
  /\ phase' = IF OneBatch /\ Len(buffer) = 1 THEN "waiting" ELSE phase
  /\ UNCHANGED <<table, request, start, from, next, lastRound, channel>>

\* The client takes the next row.
Yield ==
  /\ buffer # <<>>
  /\ yielded' = Append(yielded, Head(buffer))
  /\ cursor' = Head(buffer) + 1
  /\ buffer' = Tail(buffer)
  /\ phase' = IF OneBatch /\ Len(buffer) = 1 THEN "waiting" ELSE phase
  /\ UNCHANGED <<table, request, start, from, next, lastRound, channel>>

\* The stream of messages is polled when there is nothing left to stream.
Poll ==
  /\ phase = "waiting"
  /\ Connect
  /\ UNCHANGED <<table, request, phase, start, from, cursor, next, lastRound, buffer,
                 yielded>>

\* A round of nullifiers goes over the whole range again.
Resume == IF feed = "nullifiers" THEN from ELSE cursor

\* Mutant: only a later block than toBlock makes the round the last.
WakeMutant ==
  /\ phase = "waiting"
  /\ \E message \in Message :
       /\ Receive(message)
       /\ IF message.mine
          THEN /\ phase' = "fetching"
               /\ next' = Resume
               /\ lastRound' = (feed # "nullifiers" /\ until # None /\ message.height > until)
          ELSE UNCHANGED <<phase, next, lastRound>>
  /\ UNCHANGED <<table, request, start, from, cursor, buffer, yielded>>

\* A message wakes the subscription unless its address or filter is another's.
Wake ==
  /\ phase = "waiting"
  /\ \E message \in Message :
       /\ Receive(message)
       /\ IF message.mine
          THEN /\ phase' = "fetching"
               /\ next' = Resume
               /\ lastRound' = (feed # "nullifiers" /\ until # None /\ message.height >= until)
          ELSE UNCHANGED <<phase, next, lastRound>>
  /\ UNCHANGED <<table, request, start, from, cursor, buffer, yielded>>

\* An error of the stream of messages ends the subscription.
Fail ==
  /\ phase = "waiting"
  /\ ReceiveLagged
  /\ phase' = "failed"
  /\ UNCHANGED <<table, request, start, from, cursor, next, lastRound, buffer, yielded>>

\* The broker's connection is lost.
Drop ==
  /\ Disconnect
  /\ UNCHANGED <<table, request, phase, start, from, cursor, next, lastRound, buffer,
                 yielded>>

Init ==
  /\ tip = 0 /\ rows = <<>> /\ unsent = <<>>
  /\ feed \in Feeds
  /\ offset \in (IF feed = "nullifiers" THEN Height \ {0} ELSE Height) \cup {None}
  /\ until \in IF feed \in {"contract_events", "nullifiers"} THEN Height \cup {None} ELSE {None}
  /\ phase = "idle"
  /\ start = 0 /\ from = 0 /\ cursor = 0 /\ next = 0
  /\ lastRound = FALSE
  /\ buffer = <<>> /\ yielded = <<>>
  /\ ChannelInit

Next ==
  \/ \E n \in 0 .. (IF feed = "blocks" THEN 0 ELSE MaxRows) :
       \E block \in [1 .. n -> BOOLEAN] : SaveBlock(block)
  \/ Announce
  \/ StopIndexer
  \/ Subscribe
  \/ ResolveHeight
  \/ LocateContractAction
  \/ CheckToBlock
  \/ Fetch
  \/ ReachToBlock
  \/ Yield
  \/ Poll
  \/ Wake
  \/ Fail
  \/ Drop

Spec == Init /\ [][Next]_vars

\* Tasks are scheduled, queries and polls return, and the client keeps reading.
FairSpec ==
  /\ Spec
  /\ WF_vars(Announce)
  /\ WF_vars(ResolveHeight \/ LocateContractAction \/ CheckToBlock \/ ReachToBlock)
  /\ WF_vars(Fetch)
  /\ WF_vars(Yield)
  /\ WF_vars(Wake)
  /\ WF_vars(Fail)

-----------------------------------------------------------------------------
(* Properties.                                                             *)

Yielded == {yielded[i] : i \in DOMAIN yielded}

\* The client gets every selected row between where the subscription started and
\* its cursor, in ascending order and once, whatever blocks were saved between
\* two queries, however existing and live streaming interleave with messages and
\* lost connections.  Nullifiers, which start over with each message, are the
\* exception.
EachOnceInOrder == feed # "nullifiers" =>
  /\ Yielded = {k \in Matching : from <= k /\ k < cursor}
  /\ \A i, j \in DOMAIN yielded : i < j => yielded[i] < yielded[j]

\* A contract-events subscription bounded by toBlock completes only when the
\* chain has reached that block and every selected event up to it was yielded,
\* so that none committed between the check and the drain is lost.
CompletedIsComplete ==
  phase = "completed" /\ feed = "contract_events" => /\ tip > until
                         /\ {k \in Matching : k >= from} \subseteq Yielded

\* No publisher or subscriber is used with a topic the in-memory channels lack.
EveryTopicIsKnown == ~panicked

\* Every selected row is yielded in the end: within one process, where no
\* message is missed, all of them, those saved while the subscription starts
\* up included; over NATS those saved by the time a message was published that
\* has arrived, even if no other message ever does.  A subscription that
\* completes has yielded them, with one exception: nullifiers bounded by toBlock
\* look whether the chain has reached it after their last query, and complete
\* without the rows of a block saved in between.  Nothing is claimed of bridge
\* events over NATS, where a message brings out one batch, nor after a panic or
\* the error by which a broadcast receiver that fell behind ends the stream.
EverythingIsYielded ==
  \A k \in 0 .. MaxBlocks * MaxRows :
    (/\ k \in Matching /\ k >= from /\ phase \in {"fetching", "waiting"}
     /\ \/ transport = "in_mem"
        \/ /\ feed # "bridge_events"
           /\ \E i \in DOMAIN queue : queue[i].mine /\ HeightOf(k) <= queue[i].height)
      ~> \/ k \in Yielded
         \/ phase = "completed" /\ feed = "nullifiers"
         \/ phase = "failed" \/ panicked

\* A bounded subscription that hears of its last block, or of a later one,
\* completes.
CompletesAtToBlock ==
  (until # None /\ \E i \in DOMAIN queue : queue[i].height >= until)
    ~> (phase \in {"completed", "failed", "rejected"})

-----------------------------------------------------------------------------
(* The inductive invariant behind EachOnceInOrder and CompletedIsComplete. *)

Saved == [height : 0 .. tip - 1, mine : BOOLEAN]

Phase == {"idle", "resolving", "locating", "checking", "fetching", "reaching", "waiting",
          "completed", "rejected", "failed"}

\* Rows belong to saved blocks and messages are about saved blocks, the one the
\* chain-indexer is announcing included.
TypeOK ==
  /\ tip \in Nat
  /\ rows \in Seq(Saved) /\ unsent \in Seq(Saved) /\ queue \in Seq(Saved)
  /\ feed \in AllFeeds
  /\ offset \in Nat \cup {None}
  /\ until \in IF feed \in {"contract_events", "nullifiers"} THEN Nat \cup {None} ELSE {None}
  /\ phase \in Phase
  /\ start \in Nat /\ from \in Nat /\ cursor \in Nat /\ next \in Nat
  /\ lastRound \in BOOLEAN
  /\ buffer \in Seq(Nat) /\ yielded \in Seq(Nat)

\* The key of the next row, or block, to be saved.
NextKey == IF feed = "blocks" THEN tip ELSE Len(rows) + 1

\* The client's argument may lie ahead of the rows; once the cursor has moved, it
\* is behind the next row.
CursorIsBehind == from <= cursor /\ (cursor = from \/ cursor <= NextKey)

Buffered == {buffer[i] : i \in DOMAIN buffer}

\* What is fetched and not yet yielded are the selected rows from the cursor to
\* where the storage stream goes on.
BufferIsNext ==
  /\ Buffered = {k \in Matching : cursor <= k /\ k < next}
  /\ \A i, j \in DOMAIN buffer : i < j => buffer[i] < buffer[j]
  /\ next = IF buffer = <<>> THEN cursor ELSE After(buffer)

Starting == phase \in {"idle", "resolving", "locating", "checking", "rejected"}

StartsAtFrom == Starting => cursor = from /\ next = from /\ ~lastRound

\* The last round is entered knowing that the chain has reached toBlock, so that
\* what is saved from then on is not selected.
LastRoundIsLast ==
  /\ lastRound /\ phase = "fetching" => ReachedToBlock
  /\ phase = "completed" => ReachedToBlock /\ \A k \in Matching : k < cursor

StreamInv == feed # "nullifiers" =>
  /\ phase # "reaching"
  /\ EachOnceInOrder
  /\ CursorIsBehind
  /\ StartsAtFrom
  /\ IF phase = "fetching" THEN BufferIsNext ELSE buffer = <<>>
  /\ LastRoundIsLast

IndInv == TypeOK /\ StreamInv
===============================================================================
