------------------------------ MODULE BlockStream ------------------------------
(***************************************************************************)
(* How the chain-indexer gets its blocks.  SubxtNode::finalized_blocks     *)
(* subscribes to the node's finalized heads, catches up to the first head  *)
(* it receives (by height far from the head, by hash close to it) and then *)
(* forwards the live heads; node_blocks wraps it, drops whatever does not  *)
(* extend the last block it yielded, and starts over; the result is        *)
(* buffered in front of the loop that indexes and saves the blocks.        *)
(*                                                                         *)
(* The node may reconnect at any time, repeating heads or leaving gaps,    *)
(* may go silent, or may answer a request with an error; a request by      *)
(* height may be answered by a peer that is behind and still follows a     *)
(* fork.  The process may stop and is started again.                       *)
(*                                                                         *)
(* Block number i is the block at height i - 1.  There is one fork, which  *)
(* leaves the finalized chain at block number forkAt.                      *)
(***************************************************************************)
EXTENDS Integers, Sequences

CONSTANTS
  MaxBlocks,   \* bound: blocks that are ever finalized
  Margin,      \* FINALIZATION_SAFETY_MARGIN
  BlocksBuffer,\* blocks_buffer
  SilentIn,    \* phases in which the subscription may go silent
  MaxFaults    \* bound: errors, ends of stream, silences and stops

ASSUME MaxBlocksAssumption    == MaxBlocks \in Nat
ASSUME MarginAssumption       == Margin \in Nat
ASSUME BlocksBufferAssumption == BlocksBuffer \in Nat \ {0}
ASSUME SilentInAssumption     == SilentIn \subseteq {"first", "live"}
ASSUME MaxFaultsAssumption    == MaxFaults \in Nat

VARIABLES
  final,        \* the node: blocks 1..final are finalized
  forkAt,       \* where the fork a lagging peer may follow begins
  saved,        \* the blocks table
  pc,           \* where finalized_blocks is; "sleep" between two calls of it
  highest,      \* node_blocks: the last block yielded
  buffer,       \* yielded, not taken by the indexing loop yet
  seen,         \* last_height of the subscription's duplicate filter
  silent,       \* the subscription delivers nothing any more
  lastYielded,  \* last_yielded_height
  first,        \* first_block
  cursor,       \* the next block to fetch
  safe,         \* safe_height
  lastForward,  \* last_forward_hash
  faults        \* how much went wrong so far

locals == <<seen, silent, lastYielded, first, cursor, safe, lastForward>>
vars   == <<final, forkAt, saved, pc, highest, buffer, locals, faults>>

-----------------------------------------------------------------------------
(* Blocks: a number, and whether it lies on the finalized chain.           *)

Main(n) == [num |-> n, main |-> TRUE]
Fork(n) == [num |-> n, main |-> FALSE]

\* The zero hash: parent of the first block, and highest_hash.unwrap_or_default.
NoBlock == Main(0)

Block == {Main(n) : n \in 1 .. MaxBlocks} \cup {Fork(n) : n \in 2 .. MaxBlocks}

Parent(b) == [num |-> b.num - 1, main |-> b.main \/ b.num = forkAt]

\* An error item of the stream.
Err == [num |-> 0, main |-> FALSE]

Phase == {"down", "sleep", "first", "forward", "backward", "live"}

\* block_at_height: a peer that has finalized less than forkAt may answer with
\* its fork.  No peer is further behind than the margin.
BlocksAtHeight(n) ==
  {Main(n)} \cup {Fork(k) : k \in {m \in {n} : forkAt <= m /\ forkAt > final - Margin}}

-----------------------------------------------------------------------------
(* node_blocks.                                                            *)

\* The buffer is polled only while it has room.
Polled == Len(buffer) < BlocksBuffer

\* finalized_blocks yields b and is to continue in phase next; a block that does
\* not extend the highest one is dropped and ends this run of the stream.
Yield(b, next) ==
  IF Parent(b) = highest
  THEN /\ highest' = b
       /\ buffer' = Append(buffer, b)
       /\ pc' = next
  ELSE /\ pc' = "sleep"
       /\ UNCHANGED <<highest, buffer>>

\* An error ends finalized_blocks; node_blocks passes it on and starts over.
YieldErr ==
  /\ buffer' = Append(buffer, Err)
  /\ pc' = "sleep"
  /\ UNCHANGED highest

-----------------------------------------------------------------------------
(* finalized_blocks.                                                       *)

\* subscribe_finalized_blocks(after_height).
Subscribe ==
  /\ pc = "sleep"
  /\ Polled
  /\ pc' = "first"
  /\ seen' = highest.num
  /\ silent' = FALSE
  /\ lastYielded' = highest.num
  /\ lastForward' = highest
  /\ UNCHANGED <<final, forkAt, saved, highest, buffer, first, cursor, safe, faults>>

\* Up to where blocks are fetched by height when the first head is number n.
SafeHeight(n) == IF n - Margin > highest.num + 1 THEN n - Margin ELSE highest.num + 1

\* A head passes the duplicate filter.  The subscription may skip heads.
Receive(n) ==
  /\ ~silent
  /\ n > seen
  /\ seen' = n

ReceiveFirst ==
  /\ pc = "first"
  /\ Polled
  /\ \E n \in 1 .. final :
       /\ Receive(n)
       /\ first' = Main(n)
       /\ safe' = SafeHeight(n)
       /\ pc' = IF Main(n) = highest THEN "live" ELSE "forward"
  /\ cursor' = highest.num + 1
  /\ UNCHANGED <<final, forkAt, saved, highest, buffer, silent, lastYielded,
                 lastForward, faults>>

\* Catch up by height, verifying the parent.
FetchByHeight ==
  /\ pc = "forward"
  /\ Polled
  /\ cursor < safe
  /\ \E b \in BlocksAtHeight(cursor) :
       IF Parent(b) = lastForward
       THEN /\ lastForward' = b
            /\ Yield(b, "forward")
       ELSE /\ YieldErr
            /\ UNCHANGED lastForward
  /\ cursor' = cursor + 1
  /\ UNCHANGED <<final, forkAt, saved, seen, silent, lastYielded, first, safe, faults>>

\* Follow the parents of the first head back to the last block fetched by
\* height, or to the beginning of the chain when that is not an ancestor.
WalkBack ==
  /\ pc = "forward"
  /\ Polled
  /\ cursor >= safe
  /\ cursor' = IF lastForward.main /\ lastForward.num < first.num
               THEN lastForward.num + 1
               ELSE 1
  /\ pc' = "backward"
  /\ UNCHANGED <<final, forkAt, saved, highest, buffer, seen, silent, lastYielded,
                 first, safe, lastForward, faults>>

\* Yield the blocks found on the way, then the first head.
FetchByHash ==
  /\ pc = "backward"
  /\ Polled
  /\ Yield(Main(cursor), IF cursor = first.num THEN "live" ELSE "backward")
  /\ lastYielded' = IF cursor = first.num THEN cursor ELSE lastYielded
  /\ cursor' = cursor + 1
  /\ UNCHANGED <<final, forkAt, saved, seen, silent, first, safe, lastForward, faults>>

ReceiveLive ==
  /\ pc = "live"
  /\ Polled
  /\ \E n \in 1 .. final :
       /\ Receive(n)
       /\ lastYielded' = n
       /\ Yield(Main(n), "live")
  /\ UNCHANGED <<final, forkAt, saved, silent, first, cursor, safe, lastForward, faults>>

\* Mutant: no recovery.
RecoverMutant == FALSE /\ UNCHANGED vars

\* No head within subscription_recovery_timeout: subscribe again.
Recover ==
  /\ pc = "live"
  /\ Polled
  /\ seen' = lastYielded
  /\ silent' = FALSE
  /\ UNCHANGED <<final, forkAt, saved, pc, highest, buffer, lastYielded, first,
                 cursor, safe, lastForward, faults>>

-----------------------------------------------------------------------------
(* The indexing loop.                                                      *)

\* Take the next block, index it and save it.
IndexBlock ==
  /\ buffer # <<>>
  /\ Head(buffer) # Err
  /\ saved' = Append(saved, Head(buffer))
  /\ buffer' = Tail(buffer)
  /\ UNCHANGED <<final, forkAt, pc, highest, locals, faults>>

\* The process is gone: only the database remains.
GoDown ==
  /\ pc' = "down"
  /\ buffer' = <<>>
  /\ highest' = NoBlock
  /\ seen' = 0
  /\ silent' = FALSE
  /\ lastYielded' = 0
  /\ first' = NoBlock
  /\ cursor' = 0
  /\ safe' = 0
  /\ lastForward' = NoBlock
  /\ UNCHANGED <<final, forkAt, saved>>

\* An error item ends the process.
StopOnError ==
  /\ buffer # <<>>
  /\ Head(buffer) = Err
  /\ GoDown
  /\ UNCHANGED faults

\* The process starts after the highest saved block.
Start ==
  /\ pc = "down"
  /\ pc' = "sleep"
  /\ highest' = IF saved = <<>> THEN NoBlock ELSE saved[Len(saved)]
  /\ UNCHANGED <<final, forkAt, saved, buffer, locals, faults>>

-----------------------------------------------------------------------------
(* The node, the network and the operator.                                 *)

Finalize ==
  /\ final < MaxBlocks
  /\ final' = final + 1
  /\ UNCHANGED <<forkAt, saved, pc, highest, buffer, locals, faults>>

Fault ==
  /\ faults < MaxFaults
  /\ faults' = faults + 1

\* A request to the node fails.
RequestFails ==
  /\ Fault
  /\ pc # "down"
  /\ Polled
  /\ YieldErr
  /\ UNCHANGED <<final, forkAt, saved, locals>>

\* The node ends the subscription.
SubscriptionEnds ==
  /\ Fault
  /\ pc \in {"first", "live"}
  /\ Polled
  /\ pc' = "sleep"
  /\ UNCHANGED <<final, forkAt, saved, highest, buffer, locals>>

\* The subscription goes silent, e.g. after a reconnect.
GoSilent ==
  /\ Fault
  /\ pc \in SilentIn
  /\ ~silent
  /\ silent' = TRUE
  /\ UNCHANGED <<final, forkAt, saved, pc, highest, buffer, seen, lastYielded,
                 first, cursor, safe, lastForward>>

Stop ==
  /\ Fault
  /\ pc # "down"
  /\ GoDown

Init ==
  /\ final = 0
  /\ forkAt \in 2 .. MaxBlocks + 1
  /\ saved = <<>>
  /\ pc = "down"
  /\ highest = NoBlock
  /\ buffer = <<>>
  /\ seen = 0
  /\ silent = FALSE
  /\ lastYielded = 0
  /\ first = NoBlock
  /\ cursor = 0
  /\ safe = 0
  /\ lastForward = NoBlock
  /\ faults = 0

Stream ==
  \/ Subscribe
  \/ ReceiveFirst
  \/ FetchByHeight
  \/ WalkBack
  \/ FetchByHash
  \/ ReceiveLive

Next ==
  \/ Stream
  \/ Recover
  \/ IndexBlock
  \/ StopOnError
  \/ Start
  \/ Finalize
  \/ RequestFails
  \/ SubscriptionEnds
  \/ GoSilent
  \/ Stop

Spec == Init /\ [][Next]_vars

\* The runtime polls the stream and the loop, timers fire, a node that is not
\* silent delivers, and a stopped process is started again.
FairSpec ==
  /\ Spec
  /\ WF_vars(Stream)
  /\ WF_vars(Recover)
  /\ WF_vars(IndexBlock)
  /\ WF_vars(StopOnError)
  /\ WF_vars(Start)

-----------------------------------------------------------------------------
(* Properties.                                                             *)

\* The stream's own state has these types; in particular it never claims to have
\* seen or yielded a block that is not finalized.
TypeOK ==
  /\ final \in 0 .. MaxBlocks
  /\ forkAt \in 2 .. MaxBlocks + 1
  /\ saved \in Seq(Block)
  /\ pc \in Phase
  /\ highest \in Block \cup {NoBlock}
  /\ buffer \in Seq(Block \cup {Err})
  /\ seen \in 0 .. final
  /\ silent \in BOOLEAN
  /\ lastYielded \in 0 .. final
  /\ first \in Block \cup {NoBlock}
  /\ cursor \in 0 .. MaxBlocks + 1
  /\ safe \in 0 .. MaxBlocks + 1
  /\ lastForward \in Block \cup {NoBlock}
  /\ faults \in 0 .. MaxFaults

\* The stream is polled only while the buffer has room: it never holds more than
\* blocks_buffer blocks and errors that are not indexed yet.
BufferFits == Len(buffer) <= BlocksBuffer

\* The blocks table as a chain log.
Log == INSTANCE ChainLog WITH log <- [i \in 1 .. Len(saved) |->
                                        IF saved[i].main THEN saved[i].num ELSE 0]

\* The blocks table implements the chain log: it only ever grows by the next
\* finalized block, and every finalized block gets there.
LogSpec == Log!Spec

=============================================================================
