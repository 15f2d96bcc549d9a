---------------------------- MODULE LedgerRetention ----------------------------
(***************************************************************************)
(* The chain-indexer's main loop as a writer of two stores.  The blocks    *)
(* table records, per block, the key of the ledger state after that block. *)
(* The ledger DB keeps those states as a Merkle arena whose garbage        *)
(* collector spares what a "root count" holds.  A block is indexed by      *)
(* applying it in memory, persisting the new state in the ledger DB        *)
(* (count + 1, flushed), saving the block, announcing it, and letting the  *)
(* oldest state leave a bounded retention window (count - 1, not flushed). *)
(* The two stores share no transaction and the process may stop between    *)
(* any two steps; startup has to rebuild the window from the blocks table  *)
(* and the counts, under a retention that may have been reconfigured.      *)
(*                                                                         *)
(* A ledger state is abstracted to its arena root.  Blocks may share one:  *)
(* `chain' fixes the root each block leads to, and is any function.        *)
(* Block number i of the model is the block at height i - 1.               *)
(***************************************************************************)
EXTENDS Integers, FiniteSets

CONSTANTS
  Root,        \* arena roots of ledger states
  Fresh,       \* LedgerState::new, the state before the first block
  MaxBlocks,   \* bound: blocks the node has to offer
  Retentions,  \* values ledger_state_retention is configured to
  MaxStops     \* bound: how often the process stops

ASSUME RootAssumption      == Fresh \notin Root
ASSUME MaxBlocksAssumption == MaxBlocks \in Nat
ASSUME RetentionAssumption == Retentions \subseteq Nat \ {0}
ASSUME MaxStopsAssumption  == MaxStops \in Nat

VARIABLES
  chain,      \* the finalized chain: the root each block leads to
  tip,        \* blocks table: blocks 1..tip are saved
  stored,     \* ledger_db_roots: the stored count of each root, 0 is no row
  intact,     \* roots all of whose nodes are in ledger_db_nodes
  pc,         \* where the process is
  retention,  \* ledger_state_retention of the running process
  window,     \* persisted_ledger_state_keys, as the blocks they belong to
  pending,    \* root count changes not flushed to ledger_db_roots yet
  mem,        \* the in-memory ledger_state
  announced,  \* blocks BlockIndexed was published for
  stops       \* how often the process has stopped

durable  == <<chain, tip, stored, intact>>
volatile == <<pc, retention, window, pending, mem>>
vars     == <<durable, volatile, announced, stops>>

Block == 1 .. MaxBlocks

Phase == {"down", "repaired", "waiting", "applied", "persisted", "saved",
          "published", "trimming", "collecting", "failed"}

NoChange == [r \in Root |-> 0]

-----------------------------------------------------------------------------
(* Reading the two stores.                                                 *)

\* get_newest_ledger_state_keys: the newest n saved blocks.
Newest(n) == {b \in 1 .. tip : b > tip - n}

\* window_root_counts: how many of the given blocks lead to the root.
RootCount(blocks, r) == Cardinality({b \in blocks : chain[b] = r})

\* The state the next block builds on.
TipState == IF tip = 0 THEN Fresh ELSE chain[tip]

\* flush_all_changes_to_db: write stored + delta; storage-core panics when that
\* is negative.
Flushed(delta)    == [r \in Root |-> stored[r] + delta[r]]
Underflows(delta) == \E r \in Root : stored[r] + delta[r] < 0

\* Mutant: the repair leaves the counts of an older release as they are.
RaisedMutant(blocks, r) == stored[r]

\* raise_root_counts for one root: raise to the window's count, unless bringing
\* the root back from zero and dag_is_complete fails.
Raised(blocks, r) ==
  IF \/ RootCount(blocks, r) <= stored[r]
     \/ stored[r] = 0 /\ r \notin intact
  THEN stored[r]
  ELSE RootCount(blocks, r)

-----------------------------------------------------------------------------
(* Startup.                                                                *)

\* The process starts with a configured retention and repairs the root counts
\* of the newest blocks' keys.
Repair(n) ==
  /\ pc = "down"
  /\ retention' = n
  /\ pc' = "repaired"
  /\ stored' = [r \in Root |-> Raised(Newest(n), r)]
  /\ UNCHANGED <<chain, tip, intact, window, pending, mem, announced, stops>>

\* Seed the window with the newest keys that are still roots, and load the
\* newest of them; no such key is fatal unless the blocks table is empty, and so
\* is a state whose nodes are gone.
SeedWindow ==
  LET seeded == {b \in Newest(retention) : stored[chain[b]] > 0}
  IN  /\ pc = "repaired"
      /\ window' = seeded
      /\ \/ /\ seeded = {}
            /\ mem' = Fresh
            /\ pc' = IF tip > 0 THEN "failed" ELSE "waiting"
         \/ \E back \in seeded :
              /\ \A b \in seeded : b <= back
              /\ mem' = chain[back]
              /\ pc' = IF chain[back] \in intact THEN "waiting" ELSE "failed"
      /\ UNCHANGED <<durable, retention, pending, announced, stops>>

-----------------------------------------------------------------------------
(* index_block.                                                            *)

\* The next block arrives and its transactions are applied; a state that is not
\* the tip's is caught by the comparison with the node's zswap root.
ApplyBlock ==
  /\ pc = "waiting"
  /\ tip < MaxBlocks
  /\ IF mem = TipState
     THEN pc' = "applied" /\ mem' = chain[tip + 1]
     ELSE pc' = "failed" /\ UNCHANGED mem
  /\ UNCHANGED <<durable, retention, window, pending, announced, stops>>

\* Mutant: the count is not flushed.
PersistMutant ==
  /\ pc = "applied"
  /\ pending' = [pending EXCEPT ![mem] = @ + 1]
  /\ intact' = intact \cup {mem}
  /\ pc' = "persisted"
  /\ UNCHANGED <<chain, tip, stored, retention, window, mem, announced, stops>>

\* LedgerState::persist: count + 1, then flush together with the unpersists the
\* previous blocks left pending.  The nodes are written with the counts.
Persist ==
  LET delta == [pending EXCEPT ![mem] = @ + 1]
  IN  /\ pc = "applied"
      /\ IF Underflows(delta)
         THEN pc' = "failed" /\ UNCHANGED <<stored, intact, pending>>
         ELSE /\ pc' = "persisted"
              /\ stored' = Flushed(delta)
              /\ intact' = intact \cup {mem}
              /\ pending' = NoChange
      /\ UNCHANGED <<chain, tip, retention, window, mem, announced, stops>>

\* save_block commits the block with the key of the persisted state.
SaveBlock ==
  /\ pc = "persisted"
  /\ tip' = tip + 1
  /\ pc' = "saved"
  /\ UNCHANGED <<chain, stored, intact, retention, window, pending, mem,
                 announced, stops>>

\* BlockIndexed is published once the block is committed.
Publish ==
  /\ pc = "saved"
  /\ announced' = announced \cup {tip}
  /\ pc' = "published"
  /\ UNCHANGED <<durable, retention, window, pending, mem, stops>>

-----------------------------------------------------------------------------
(* The retention window.                                                   *)

\* The block's key enters the window.
PushBack ==
  /\ pc = "published"
  /\ window' = window \cup {tip}
  /\ pc' = "trimming"
  /\ UNCHANGED <<durable, retention, pending, mem, announced, stops>>

\* Mutants: the window keeps one key too few, or is never trimmed.
TooShortMutant == Cardinality(window) >= retention
\* The window holds more keys than it may.
TooLong == Cardinality(window) > retention

\* One round of the while loop: the oldest key leaves and is unpersisted.  The
\* decrement stays in memory.
PopFront ==
  /\ pc = "trimming"
  /\ TooLong
  /\ \E front \in window :
       /\ \A b \in window : front <= b
       /\ window' = window \ {front}
       /\ pending' = [pending EXCEPT ![chain[front]] = @ - 1]
  /\ UNCHANGED <<durable, pc, retention, mem, announced, stops>>

EndTrim ==
  /\ pc = "trimming"
  /\ ~TooLong
  /\ pc' = "collecting"
  /\ UNCHANGED <<durable, retention, window, pending, mem, announced, stops>>

\* What a sweep may delete: states that no stored count holds.
Cullable(counts) == {r \in Root : counts[r] = 0}

\* A time-bounded gc pass: culls any part of what it may.  Whether storage-core
\* flushes the pending counts first is left open.
CollectGarbage ==
  /\ pc = "collecting"
  /\ \/ UNCHANGED <<stored, pending>> /\ pc' = "waiting"
     \/ IF Underflows(pending)
        THEN pc' = "failed" /\ UNCHANGED <<stored, pending>>
        ELSE /\ pc' = "waiting"
             /\ stored' = Flushed(pending)
             /\ pending' = NoChange
  /\ \E culled \in SUBSET Cullable(stored') : intact' = intact \ culled
  /\ UNCHANGED <<chain, tip, retention, window, mem, announced, stops>>

-----------------------------------------------------------------------------
(* The process stops: a crash, a signal, or an error of the node, the      *)
(* database or the broker.  What was only in memory is gone.               *)
Stop ==
  /\ pc \notin {"down", "failed"}
  /\ stops < MaxStops
  /\ stops' = stops + 1
  /\ pc' = "down"
  /\ retention' = 0
  /\ window' = {}
  /\ pending' = NoChange
  /\ mem' = Fresh
  /\ UNCHANGED <<durable, announced>>

(* An empty database, or one written by a release whose root counts were   *)
(* capped at two however many blocks led to a root.                        *)
CappedCount(n, r) == IF RootCount(Newest(n), r) > 2 THEN 2
                                                    ELSE RootCount(Newest(n), r)

Init ==
  /\ chain \in [Block -> Root]
  /\ tip \in 0 .. MaxBlocks
  /\ \E n \in Retentions : stored = [r \in Root |-> CappedCount(n, r)]
  /\ intact = {r \in Root : stored[r] > 0}
  /\ pc = "down"
  /\ retention = 0
  /\ window = {}
  /\ pending = NoChange
  /\ mem = Fresh
  /\ announced = {}
  /\ stops = 0

Step ==
  \/ \E n \in Retentions : Repair(n)
  \/ SeedWindow
  \/ ApplyBlock
  \/ Persist
  \/ SaveBlock
  \/ Publish
  \/ PushBack
  \/ PopFront
  \/ EndTrim
  \/ CollectGarbage

Next == Step \/ Stop

Spec == Init /\ [][Next]_vars

FairSpec == Spec /\ WF_vars(Step)

-----------------------------------------------------------------------------
(* Properties.                                                             *)

\* Blocks, counts, window and the process's own state have these types; in
\* particular the window refers to saved blocks only.
TypeOK ==
  /\ chain \in [Block -> Root]
  /\ tip \in 0 .. MaxBlocks
  /\ stored \in [Root -> Nat]
  /\ intact \in SUBSET Root
  /\ pc \in Phase
  /\ retention \in Nat
  /\ window \in SUBSET (1 .. tip)
  /\ pending \in [Root -> Int]
  /\ mem \in Root \cup {Fresh}
  /\ announced \in SUBSET Block
  /\ stops \in 0 .. MaxStops

\* The indexer never brings itself down: no flush drives a root count negative,
\* a database with blocks always yields a root to resume from, that root loads,
\* and the resumed state is the one the next block builds on.
NeverFails == pc # "failed"

\* While blocks are being indexed the in-memory ledger state is the one after
\* the newest saved block, however often and wherever the process stopped.
ResumesFromTip == pc = "waiting" => mem = TipState

\* Every key in the window is held by the stored counts plus what is pending,
\* once per block it belongs to: unpersisting the window empties the counts at
\* worst, never overdraws them.
WindowIsHeld ==
  pc \notin {"down", "repaired", "failed"} =>
    \A r \in Root : stored[r] + pending[r] >= RootCount(window, r)

\* A state the window or the blocks table's tip refers to is never collected.
WindowIsLoadable ==
  \A b \in 1 .. tip : b = tip \/ b \in window => chain[b] \in intact

\* The window never outgrows the configured retention, but by the block just
\* indexed while it is being trimmed.
WindowIsBounded ==
  pc # "down" => Cardinality(window) <= IF pc = "trimming" THEN retention + 1
                                                           ELSE retention

\* Only blocks that readers can find in the database are announced.
AnnouncedIsSaved == announced \subseteq 1 .. tip

\* As many of the newest blocks' states as the lowest configured retention stay
\* loadable for indexer-api, across stops, reconfigurations and garbage
\* collections.
RecentIsLoadable ==
  \A n \in Retentions :
    (\A m \in Retentions : n <= m) => \A b \in Newest(n) : chain[b] \in intact

\* Every block the node offers is indexed in the end.
EverythingIsIndexed == <>(tip = MaxBlocks)

-----------------------------------------------------------------------------
(* The inductive invariant behind NeverFails.  The counts must cover more  *)
(* than the window: from Persist to PushBack the newest key is held but    *)
(* not in the window yet.  And they must cover the tip while the process   *)
(* is down, which is what startup resumes from.                            *)

Running == pc \notin {"down", "repaired", "failed"}

\* The blocks whose persist is not balanced by an unpersist yet.
Held == IF pc = "persisted" THEN window \cup {tip + 1}
        ELSE IF pc \in {"saved", "published"} THEN window \cup {tip}
        ELSE window

HeldIsCounted ==
  Running => \A r \in Root : stored[r] + pending[r] >= RootCount(Held, r)

RepairedIsCounted ==
  pc = "repaired" =>
    \A r \in Root : stored[r] > 0 => stored[r] >= RootCount(Newest(retention), r)

TipIsRooted == tip > 0 => stored[chain[tip]] > 0

RootedIsIntact == \A r \in Root : stored[r] > 0 => r \in intact

\* Once flushed, what is pending are unpersists only.
OnlyUnpersistsPend == \A r \in Root : pending[r] <= 0

TipIsInWindow ==
  Running /\ tip > 0 /\ pc \notin {"saved", "published"} => tip \in window

MemoryIsCurrent ==
  Running => IF pc \in {"applied", "persisted"}
             THEN tip < MaxBlocks /\ mem = chain[tip + 1]
             ELSE mem = TipState

WindowFits ==
  Running => Cardinality(window) <= IF pc = "trimming" THEN retention + 1
                                                       ELSE retention

StartupIsClean ==
  /\ ~Running => window = {} /\ pending = NoChange
  /\ pc \in {"saved", "published", "trimming"} => tip > 0
  /\ pc # "down" => retention \in Retentions

IndInv ==
  /\ TypeOK
  /\ NeverFails
  /\ HeldIsCounted
  /\ RepairedIsCounted
  /\ TipIsRooted
  /\ RootedIsIntact
  /\ OnlyUnpersistsPend
  /\ TipIsInWindow
  /\ MemoryIsCurrent
  /\ WindowFits
  /\ StartupIsClean
  /\ AnnouncedIsSaved

(* What RecentIsLoadable needs beyond IndInv: the newest blocks, as many   *)
(* as the lowest retention, are counted also while the process is down,    *)
(* and the running process holds all of them.                              *)

Lowest == {n \in Retentions : \A m \in Retentions : n <= m}

RecentIsRooted == \A n \in Lowest : \A b \in Newest(n) : stored[chain[b]] > 0

RecentIsHeld == Running => \A n \in Lowest : Newest(n) \subseteq Held

RecentInv == RecentIsRooted /\ RecentIsHeld

=============================================================================
