------------------------------ MODULE SpoIndexer ------------------------------
(***************************************************************************)
(* The SPO indexer: one task saves one sidechain epoch after another (its  *)
(* committee, its registrations, the performance of its validators) and a  *)
(* second task walks the pools the first one has saved, one page at a time *)
(* behind a stored cursor, and appends a stake history row for each.       *)
(* Time is counted in slots since the chain's epoch 0; a pool is named by  *)
(* the key of its Cardano stake pool operator, in pool_id order.           *)
(***************************************************************************)
EXTENDS Paging

CONSTANTS
  SlotsPerEpoch,   \* slots_per_epoch, read from the node
  SlotDuration,    \* SLOT_DURATION
  FirstBlock,      \* the slot of block 1
  MaxEpochs,       \* bound: the node enters no later epoch
  Registrations,   \* what the node may report as registered: sets of records
                   \* [sk, main, aura, valid], main a positive number
  Committees,      \* the committees the node may report: sequences of sk
  PageSize,        \* stake_refresh.page_size
  Departures       \* may pools be missing from later reports: TRUE, FALSE or either

ASSUME ClockAssumption ==
  /\ SlotsPerEpoch \in Nat \ {0} /\ SlotDuration \in Nat \ {0}
  /\ FirstBlock \in 0..(SlotsPerEpoch - 1) /\ MaxEpochs \in Nat \ {0}
ASSUME PageAssumption == PageSize \in Nat \ {0} /\ Departures \subseteq BOOLEAN
ASSUME ReportsAssumption ==
  /\ \A regs \in Registrations : IsFiniteSet(regs) /\ \A r \in regs : r.main \in Nat \ {0}
  /\ \A c \in Committees : Len(c) \in Nat /\ DOMAIN c = 1..Len(c)

VARIABLES
  now,          \* the node's clock
  departing,    \* of Departures: a pool may be missing from a later report
  epochs,       \* table epochs: epoch number -> [starts, ends]
  membership,   \* table committee_membership: epoch -> its seats in order
  identities,   \* table spo_identity
  history,      \* table spo_history
  performance,  \* table spo_epoch_performance
  updated,      \* table pool_metadata_cache: pool -> epoch whose save touched it
  cursor,       \* spo_stake_refresh_state.last_pool_id
  running,      \* is the process running
  fetched,      \* the epoch task: what it has fetched and not yet saved
  page,         \* the refresh task: the pools of the page still to visit
  saved,        \* the refresh task: the row of Head(page) is committed
  snapshots,    \* table spo_stake_snapshot: the pools that have a row
  listed,       \* auxiliary: the pools known when the page was read
  due           \* auxiliary: pool -> pools to visit before its next row

tables == <<epochs, membership, identities, history, performance, updated>>
refresh == <<page, saved, snapshots, listed, due>>
vars == <<now, departing, tables, cursor, running, fetched, refresh>>

NoPool == 0

Pools == {r.main : r \in UNION Registrations}
Known == DOMAIN updated

EpochAt(t) == t \div SlotsPerEpoch
StartOf(e) == e * SlotsPerEpoch

\* get_latest_epoch and, when no epoch is saved, get_first_epoch_num
LatestEpochNum ==
  IF epochs = <<>>
  THEN EpochAt(now) - (StartOf(EpochAt(now) + 1) - FirstBlock) \div SlotsPerEpoch
  ELSE CHOOSE e \in DOMAIN epochs : \A f \in DOMAIN epochs : f <= e

\* Mutant: the epoch to process is the one the node is in.
EpochToProcessMutant ==
  [epoch_no |-> EpochAt(now), starts |-> StartOf(EpochAt(now)), ends |-> StartOf(EpochAt(now) + 1)]

\* get_epoch_to_process; its None is the guard of FetchEpoch
EpochToProcess ==
  LET offset == (EpochAt(now) - LatestEpochNum) * SlotsPerEpoch
  IN  [epoch_no |-> LatestEpochNum + 1,
       starts   |-> StartOf(EpochAt(now)) - offset,
       ends     |-> StartOf(EpochAt(now) + 1) - offset]

\* committee_to_membership: seat i of the code is i + 1 here
ExpectedSlots(committee) ==
  [i \in DOMAIN committee |->
     SlotsPerEpoch \div Len(committee)
       + (IF SlotsPerEpoch % Len(committee) > i - 1 THEN 1 ELSE 0)]

\* save_membership: the rows of an epoch
Seats(committee) ==
  [i \in DOMAIN committee |-> [sk |-> committee[i], slots |-> ExpectedSlots(committee)[i]]]

\* get_expected_blocks and the remainder added to it
ExpectedBlocks(epoch, committee, i) ==
  LET slots == epoch.ends - epoch.starts
  IN  (IF slots < SlotsPerEpoch THEN slots ELSE SlotsPerEpoch) \div Len(committee)
        + (IF i - 1 < (SlotDuration * SlotsPerEpoch) % Len(committee) THEN 1 ELSE 0)

\* process_next_epoch up to its transaction.  A failed committee request reads
\* as no committee; a failed registrations request ends the process (Stop).
FetchEpoch ==
  /\ running /\ fetched = <<>>
  /\ EpochAt(now) # LatestEpochNum
  /\ \E committee \in Committees \cup {<<>>}, regs \in Registrations :
       /\ departing \/ Known \subseteq {r.main : r \in regs}
       /\ fetched' = <<[epoch |-> EpochToProcess, committee |-> committee, regs |-> regs]>>
  /\ UNCHANGED <<now, departing, tables, cursor, running, refresh>>

Clashes(r, ids) == \E i \in ids : i.sk = r.sk \/ i.main = r.main \/ i.aura = r.aura

\* save_spo of every registration in an order of the node's choosing: one that
\* shares a key with a saved identity is left out.
SavedIdentities(regs) ==
  {ids \in SUBSET (identities \cup regs) :
     /\ identities \subseteq ids
     /\ \A r \in ids \ identities : ~Clashes(r, ids \ {r})
     /\ \A r \in regs \ ids : Clashes(r, ids)}

\* save_spo_history: one row for each reported key that has an identity.  Of two
\* registrations of one key the one saved last sets the status.
HistoryRows(regs, ids, e) ==
  LET sks == {r.sk : r \in regs} \cap {r.sk : r \in ids}
      Statuses == {s \in [sks -> BOOLEAN] : \A sk \in sks : \E r \in regs : r.sk = sk /\ r.valid = s[sk]}
  IN  {{[sk |-> sk, epoch_no |-> e, valid |-> s[sk]] : sk \in sks} : s \in Statuses}

\* One row per validator that is registered and has an identity, for its first
\* seat; produced counts the validator's registrations.
PerformanceRows(ids) ==
  LET c == fetched[1].committee
      Registered(sk) == {r \in fetched[1].regs : r.sk = sk}
  IN  {[sk |-> c[i], epoch_no |-> fetched[1].epoch.epoch_no,
        expected |-> ExpectedBlocks(fetched[1].epoch, c, i),
        produced |-> Cardinality(Registered(c[i]))] :
         i \in {j \in DOMAIN c : /\ Registered(c[j]) # {}
                                 /\ \E r \in ids : r.sk = c[j]
                                 /\ \A k \in 1..(j - 1) : c[k] # c[j]}}

\* The transaction of process_next_epoch
SaveEpoch ==
  /\ running /\ fetched # <<>>
  /\ LET e == fetched[1].epoch.epoch_no
         mains == {r.main : r \in fetched[1].regs}
     IN  \E ids \in SavedIdentities(fetched[1].regs) : \E rows \in HistoryRows(fetched[1].regs, ids, e) :
           /\ e \notin DOMAIN epochs
           /\ epochs' = [n \in DOMAIN epochs \cup {e} |->
                           IF n = e THEN [starts |-> fetched[1].epoch.starts, ends |-> fetched[1].epoch.ends]
                                    ELSE epochs[n]]
           /\ membership' = [n \in DOMAIN epochs \cup {e} |->
                               IF n = e THEN Seats(fetched[1].committee) ELSE membership[n]]
           /\ updated' = [p \in Known \cup mains |-> IF p \in mains THEN e ELSE updated[p]]
           /\ identities' = ids
           /\ history' = history \cup rows
           /\ performance' = performance \cup PerformanceRows(ids)
  /\ fetched' = <<>>
  /\ UNCHANGED <<now, departing, cursor, running, refresh>>

\* get_pool_ids: the most recently updated pools first
PoolIds ==
  Listings(Known, PageSize,
           LAMBDA p, q : updated[p] > updated[q] \/ (updated[p] = updated[q] /\ p < q))

\* get_pool_ids_after
PoolIdsAfter(last) == Pages({p \in Known : p > last}, PageSize)

\* Mutant: a page past the last pool is not followed by a wrap to the start.
ReadPageMutant ==
  /\ running /\ page = <<>> /\ Known # {}
  /\ page' \in IF cursor = NoPool THEN PoolIds ELSE PoolIdsAfter(cursor)
  /\ listed' = Known
  /\ UNCHANGED <<now, departing, tables, cursor, running, fetched, saved, snapshots, due>>

\* refresh_stake_snapshots: the page after the cursor, or from the start
ReadPage ==
  /\ running /\ page = <<>> /\ Known # {}
  /\ page' \in IF cursor = NoPool \/ \A p \in Known : p <= cursor THEN PoolIds ELSE PoolIdsAfter(cursor)
  /\ listed' = Known
  /\ UNCHANGED <<now, departing, tables, cursor, running, fetched, saved, snapshots, due>>

\* The transaction that saves the snapshot and the history row of a pool
SaveStake ==
  /\ running /\ page # <<>> /\ ~saved
  /\ saved' = TRUE
  /\ LET p == Head(page)
     IN  /\ snapshots' = snapshots \cup {p}
         /\ due' = [q \in Pools |-> (IF q = p THEN listed ELSE due[q]) \ {p}]
  /\ UNCHANGED <<now, departing, tables, cursor, running, fetched, page, listed>>

\* Mutant: the cursor advances once, after the last pool of the page.
AdvanceCursorMutant ==
  /\ running /\ page # <<>>
  /\ cursor' = IF Len(page) = 1 THEN Head(page) ELSE cursor
  /\ due' = [q \in Pools |-> due[q] \ {Head(page)}]
  /\ page' = Tail(page)
  /\ saved' = FALSE
  /\ UNCHANGED <<now, departing, tables, running, fetched, snapshots, listed>>

\* set_stake_refresh_cursor, after the row or after a failed request for it
AdvanceCursor ==
  /\ running /\ page # <<>>
  /\ cursor' = Head(page)
  /\ due' = [q \in Pools |-> due[q] \ {Head(page)}]
  /\ page' = Tail(page)
  /\ saved' = FALSE
  /\ UNCHANGED <<now, departing, tables, running, fetched, snapshots, listed>>

\* The next row of a pool whose row is not followed by the cursor is due at once.
Forgiven == IF saved THEN [due EXCEPT ![Head(page)] = {}] ELSE due

\* A database error ends the pass; the next tick starts another.
AbandonPage ==
  /\ running /\ page # <<>>
  /\ page' = <<>> /\ saved' = FALSE
  /\ due' = Forgiven
  /\ UNCHANGED <<now, departing, tables, cursor, running, fetched, snapshots, listed>>

\* SIGTERM, an error of the epoch task, or a crash
Stop ==
  /\ running
  /\ running' = FALSE
  /\ fetched' = <<>>
  /\ page' = <<>> /\ saved' = FALSE
  /\ due' = Forgiven
  /\ UNCHANGED <<now, departing, tables, cursor, snapshots, listed>>

Start ==
  /\ ~running
  /\ running' = TRUE
  /\ UNCHANGED <<now, departing, tables, cursor, fetched, refresh>>

Tick ==
  /\ EpochAt(now + 1) <= MaxEpochs
  /\ now' = now + 1
  /\ UNCHANGED <<departing, tables, cursor, running, fetched, refresh>>

Init ==
  /\ now = FirstBlock
  /\ departing \in Departures
  /\ epochs = <<>> /\ membership = <<>>
  /\ identities = {} /\ history = {} /\ performance = {}
  /\ updated = <<>>
  /\ cursor = NoPool
  /\ running = FALSE
  /\ fetched = <<>>
  /\ page = <<>> /\ saved = FALSE /\ listed = {}
  /\ snapshots = {} /\ due = [p \in Pools |-> {}]

EpochTask == FetchEpoch \/ SaveEpoch
RefreshTask == ReadPage \/ SaveStake \/ AdvanceCursor

Next == EpochTask \/ RefreshTask \/ AbandonPage \/ Stop \/ Start \/ Tick

Spec == Init /\ [][Next]_vars

\* The process is started again after it stopped; its tasks are scheduled.  A
\* task gets through often enough, whatever fails in between.
FairSpec ==
  /\ Spec
  /\ WF_vars(Start) /\ WF_vars(Tick)
  /\ SF_vars(FetchEpoch) /\ SF_vars(SaveEpoch)
  /\ SF_vars(ReadPage) /\ SF_vars(AdvanceCursor)

-----------------------------------------------------------------------------
\* While no registered pool is missing from a later report, refresh_stake_snapshots
\* takes the pools in turn: it appends a second row for a pool only after it has
\* visited every other pool that was known when the page of the first was read,
\* unless it was interrupted between that row and the cursor.
PoolsTakeTurns ==
  [][\A p \in Pools :
       ~departing /\ SaveStake /\ p = Head(page) => due[p] = {}]_vars

\* The pools of the report that was saved last.
Reported == {p \in Known : \A q \in Known : updated[q] <= updated[p]}

\* Every registered pool gets its turn again and again, while others register
\* and leave.  Nothing is said of a pool that is still in the cache and missing
\* from the last report: the page after a wrap may leave it out for ever.
EveryPoolIsRefreshed ==
  \A p \in Pools : p \in Reported ~> (cursor = p \/ p \notin Reported)

\* Every epoch the node enters after the first is saved.
EpochsAreSaved == <>((EpochAt(FirstBlock) + 1)..MaxEpochs \subseteq DOMAIN epochs)

-----------------------------------------------------------------------------
(* What the tasks rely on from one step to the next.                       *)

FirstEpoch == IF FirstBlock = 0 THEN 0 ELSE 1

\* The table of the epochs up to n: the window of epoch e ends where the node's
\* epoch e begins.
Calendar(n) == [e \in FirstEpoch..n |-> [starts |-> StartOf(e - 1), ends |-> StartOf(e)]]

\* Epochs up to n are saved, and n + 1 is the one that may have been fetched: it
\* has begun, and reports every known pool if none ever leaves.
SavedUpTo(n) ==
  /\ epochs = Calendar(n) /\ DOMAIN membership = FirstEpoch..n
  /\ fetched # <<>> =>
       \E c \in Committees \cup {<<>>}, regs \in Registrations :
         /\ fetched = <<[epoch |-> [epoch_no |-> n + 1, starts |-> StartOf(n), ends |-> StartOf(n + 1)],
                         committee |-> c, regs |-> regs]>>
         /\ n < EpochAt(now)
         /\ departing \/ Known \subseteq {r.main : r \in regs}

EpochsInv == now \in Nat /\ \E n \in (FirstEpoch - 1)..EpochAt(now) : SavedUpTo(n)

\* The page holds pools that were known when it was read, and so do the pools
\* that are due; nothing leaves the cache.
RefreshInv ==
  /\ Known \subseteq Pools /\ IsFiniteSet(Known) /\ listed \subseteq Known
  /\ cursor \in Nat /\ saved \in BOOLEAN /\ (saved => page # <<>>)
  /\ page \in Seq(Pools) /\ \A i \in DOMAIN page : page[i] \in listed
  /\ snapshots \subseteq Known /\ due \in [Pools -> SUBSET listed]
  /\ \A p \in Pools : due[p] # {} => p \in listed

\* Pools lie on a ring, ascending and then from the start.  Going up from p to c
\* the refresh has passed q; going up from c to p it comes by q.
Passed(p, c, q) == IF p <= c THEN p < q /\ q <= c ELSE p < q \/ q <= c
Between(c, p, q) == IF c < p THEN c < q /\ q < p ELSE c < q \/ q < p

\* If no pool ever leaves: the last save touched every pool, no pool known to the
\* page lies between the cursor and the page, nor between two entries of it, and
\* of the pools due before a pool's next row, none lies between it and the cursor.
TurnInv ==
  /\ \E n \in Int : \A p \in Known : updated[p] = n
  /\ page # <<>> => \A q \in listed : ~Between(cursor, Head(page), q)
  /\ \A i \in 1..(Len(page) - 1) :
       /\ page[i] < page[i + 1]
       /\ \A q \in listed : ~(page[i] < q /\ q < page[i + 1])
  /\ \A p \in Pools :
       ~(saved /\ p = Head(page)) => \A q \in due[p] : q # p /\ ~Passed(p, cursor, q)
=============================================================================
