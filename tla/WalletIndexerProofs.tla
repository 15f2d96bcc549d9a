-------------------------- MODULE WalletIndexerProofs --------------------------
(***************************************************************************)
(* WalletIndexer for every number of replicas and transactions, every      *)
(* batch size and every set of start indexes.                              *)
(*                                                                         *)
(* What is recorded lies between the wallet's cursors, but a commit moves  *)
(* a cursor to where a batch read earlier ends.  The invariant therefore   *)
(* says of every open task that its batch is without holes and starts at   *)
(* the cursor as it is now, which holds because the lock lets one task at  *)
(* a time near the cursors and because transactions saved since have       *)
(* higher ids.                                                             *)
(***************************************************************************)
EXTENDS WalletIndexer, FiniteSetTheorems, TLAPS

Scanning == {"backward", "forward"}

\* The types of the variables, as sets.
Shapes ==
  /\ kind \in [Id -> Kind \cup {Unsaved}]
  /\ saved \in 0 .. MaxId
  /\ wallet \in [wanted : Int, first : Int, last : Int, origin : Int, ahead : BOOLEAN]
  /\ recorded \subseteq Relevant
  /\ session \in 0 .. sessions
  /\ sessions \in 0 .. MaxSessions
  /\ recent \in BOOLEAN
  /\ expiries \in 0 .. MaxExpiries
  /\ worker \in [Replicas -> [at : {"idle", "backward", "forward", "committed"},
                              wanted : Int, batch : SUBSET Id]]
  /\ listing \in [Replicas -> [at : {"stopped", "cycling", "expiring"}, listed : BOOLEAN]]
  /\ maxSeen \in [Replicas -> Id \cup {Infinity}]
  /\ inbox \in [Replicas -> SUBSET Id]
  /\ notified \subseteq recorded
  /\ stops \in 0 .. MaxStops

\* Exactly the saved transactions have a kind.
SavedHaveKind == \A t \in Id : kind[t] \in IF t <= saved THEN Kind ELSE {Unsaved}

\* The cursors enclose where the wallet was created, and what was passed going
\* forward is saved; only a wallet created ahead may still wait where it began.
RowIsSound ==
  /\ wallet = NoWallet \/ (/\ {wallet.wanted, wallet.first, wallet.last} \subseteq Nat
                           /\ wallet.origin \in StartIndexes)
  /\ wallet.first <= wallet.origin /\ wallet.origin <= wallet.last
  /\ ~wallet.ahead => wallet.last <= saved
  /\ wallet.last <= saved \/ wallet.last = wallet.origin

\* Nobody works on a wallet that was never connected.
AbsentIsIgnored ==
  wallet = NoWallet =>
    /\ session = 0
    /\ \A r \in Replicas : ~listing[r].listed /\ worker[r].at \notin Scanning

\* The lock: one task reads or writes the wallet's row at a time.
OneScans ==
  \A r, s \in Replicas : worker[r].at \in Scanning /\ worker[s].at \in Scanning => r = s

\* A backward batch lies below the first index and, going down from there, leaves
\* out no transaction saved by then; there is none at all if it is empty.
BackwardIsDense(r) ==
  worker[r].at = "backward" =>
    /\ worker[r].wanted \in Nat
    /\ worker[r].wanted < wallet.first
    /\ \A t \in worker[r].batch : worker[r].wanted <= t /\ t < wallet.first
    /\ ~wallet.ahead =>
         /\ \A t \in worker[r].batch, u \in Regular :
              t <= u /\ u < wallet.first => u \in worker[r].batch
         /\ worker[r].batch = {} =>
              \A u \in Regular : ~(worker[r].wanted <= u /\ u < wallet.first)

\* A forward batch lies above the last index and, going up from there, leaves out
\* no transaction.
ForwardIsDense(r) ==
  worker[r].at = "forward" =>
    /\ \A t \in worker[r].batch : wallet.last < t
    /\ \A t \in worker[r].batch, u \in Regular :
         wallet.last < u /\ u <= t => u \in worker[r].batch

BatchesAreDense ==
  \A r \in Replicas :
    worker[r].batch \subseteq Regular /\ BackwardIsDense(r) /\ ForwardIsDense(r)

\* The relevant transactions the two cursors enclose.
Enclosed == {t \in Relevant : /\ wallet.first <= t /\ t <= wallet.last
                              /\ t # wallet.origin}

\* They are recorded, those above the first start index even for a wallet that was
\* created ahead.
RecordedIsEnclosed ==
  /\ recorded \subseteq Enclosed
  /\ \A t \in Enclosed : ~wallet.ahead \/ wallet.origin < t => t \in recorded

IndInv ==
  /\ Shapes
  /\ SavedHaveKind
  /\ RowIsSound
  /\ AbsentIsIgnored
  /\ OneScans
  /\ BatchesAreDense
  /\ RecordedIsEnclosed
  /\ failed = FALSE

-----------------------------------------------------------------------------
(* Batches.                                                                *)

\* A finite set of integers has a highest element.
LEMMA HighestExists ==
  ASSUME NEW S \in SUBSET Int, IsFiniteSet(S), S # {}
  PROVE  \E m \in S : \A n \in S : n <= m
  <1> DEFINE Above(t) == {u \in S : t < u}
             Aboves   == {Above(t) : t \in S}
  <1>1. IsWellFoundedOn(StrictSubsetOrdering(S), FiniteSubsetsOf(S))
    BY FS_StrictSubsetOrderingWellFounded
  <1>2. Aboves \subseteq FiniteSubsetsOf(S) /\ Aboves # {}
    <2>1. \A t \in S : Above(t) \in FiniteSubsetsOf(S)
      BY FS_Subset DEF FiniteSubsetsOf
    <2> QED
      BY <2>1, Zenon
  <1>3. PICK x \in Aboves : \A y \in Aboves : <<y, x>> \notin StrictSubsetOrdering(S)
    <2> HIDE DEF Aboves
    <2> QED
      BY <1>1, <1>2, WFMin
  <1>4. PICK m \in S : x = Above(m)
    OBVIOUS
  <1>5. ASSUME NEW n \in S, m < n
        PROVE  FALSE
    <2>1. n \in Above(m) /\ n \notin Above(n)
      BY <1>5
    <2>2. \A u \in S : n < u => m < u
      BY <1>5
    <2>3. Above(n) \subseteq Above(m)
      BY <2>2, Zenon
    <2>4. <<Above(n), x>> \in StrictSubsetOrdering(S)
      BY <2>1, <2>3, <1>4 DEF StrictSubsetOrdering
    <2> QED
      BY <2>4, <1>3, Zenon
  <1> QED
    BY <1>5

\* The regular transactions are finitely many natural numbers.
LEMMA RegularIsFinite ==
  ASSUME saved \in Nat
  PROVE  Regular \in SUBSET Nat /\ \A S \in SUBSET Regular : IsFiniteSet(S)
  <1>1. IsFiniteSet(1 .. saved) /\ Regular \in SUBSET (1 .. saved)
    BY FS_Interval DEF Regular
  <1>2. ASSUME NEW S \in SUBSET Regular
        PROVE  IsFiniteSet(S)
    BY <1>1, FS_Subset, Zenon
  <1>3. Regular \in SUBSET Nat
    BY <1>1
  <1> QED
    BY <1>2, <1>3

\* A backward batch contains every transaction above one of its own.
LEMMA BackwardBatchIsDense ==
  ASSUME saved \in Nat, NEW from \in Int, NEW to \in Int,
         NEW t \in BackwardBatch(from, to), NEW u \in Regular, t <= u, u < to
  PROVE  u \in BackwardBatch(from, to)
  <1> DEFINE Above(v) == {w \in Regular : v < w /\ w < to}
  <1>1. /\ t \in Regular /\ from <= t
        /\ Cardinality(Above(t)) < BatchSize
    BY DEF BackwardBatch
  <1>2. Regular \in SUBSET Nat /\ IsFiniteSet(Above(t)) /\ IsFiniteSet(Above(u))
    BY RegularIsFinite
  <1>3. Above(u) \in SUBSET Above(t)
    <2>1. \A w \in Regular : u < w => t < w
      BY <1>1, <1>2
    <2> QED
      BY <2>1
  <1>4. Cardinality(Above(u)) <= Cardinality(Above(t))
    <2> HIDE DEF Above
    <2> QED
      BY <1>2, <1>3, FS_Subset
  <1>5. Cardinality(Above(u)) \in Nat /\ Cardinality(Above(t)) \in Nat
    <2> HIDE DEF Above
    <2> QED
      BY <1>2, FS_CardinalityType
  <1>6. Cardinality(Above(u)) < BatchSize
    <2> HIDE DEF Above
    <2> QED
      BY <1>1, <1>4, <1>5, BatchSizeAssumption
  <1> QED
    BY <1>1, <1>2, <1>6 DEF BackwardBatch

\* An empty backward batch means that there is nothing in the range.
LEMMA BackwardBatchIsEmpty ==
  ASSUME saved \in Nat, NEW from \in Int, NEW to \in Int,
         BackwardBatch(from, to) = {},
         NEW u \in Regular, from <= u, u < to
  PROVE  FALSE
  <1> DEFINE Within == {v \in Regular : from <= v /\ v < to}
  <1>1. Within \in SUBSET Int /\ IsFiniteSet(Within) /\ Within # {}
    BY RegularIsFinite
  <1>2. PICK m \in Within : \A n \in Within : n <= m
    <2> HIDE DEF Within
    <2> QED
      BY <1>1, HighestExists
  <1>3. {w \in Regular : m < w /\ w < to} = {}
    BY <1>2, RegularIsFinite
  <1>4. Cardinality({w \in Regular : m < w /\ w < to}) < BatchSize
    BY <1>3, FS_EmptySet, BatchSizeAssumption
  <1> QED
    BY <1>2, <1>4 DEF BackwardBatch

\* A forward batch contains every transaction from where it starts up to one of its
\* own.
LEMMA ForwardBatchIsDense ==
  ASSUME saved \in Nat, NEW from \in Int,
         NEW t \in ForwardBatch(from), NEW u \in Regular, from <= u, u <= t
  PROVE  u \in ForwardBatch(from)
  <1> DEFINE Below(v) == {w \in Regular : from <= w /\ w < v}
  <1>1. t \in Regular /\ Cardinality(Below(t)) < BatchSize
    BY DEF ForwardBatch
  <1>2. Regular \in SUBSET Nat /\ IsFiniteSet(Below(t)) /\ IsFiniteSet(Below(u))
    BY RegularIsFinite
  <1>3. Below(u) \in SUBSET Below(t)
    <2>1. \A w \in Regular : w < u => w < t
      BY <1>1, <1>2
    <2> QED
      BY <2>1
  <1>4. Cardinality(Below(u)) <= Cardinality(Below(t))
    <2> HIDE DEF Below
    <2> QED
      BY <1>2, <1>3, FS_Subset
  <1>5. Cardinality(Below(u)) \in Nat /\ Cardinality(Below(t)) \in Nat
    <2> HIDE DEF Below
    <2> QED
      BY <1>2, FS_CardinalityType
  <1>6. Cardinality(Below(u)) < BatchSize
    <2> HIDE DEF Below
    <2> QED
      BY <1>1, <1>4, <1>5, BatchSizeAssumption
  <1> QED
    BY <1>1, <1>2, <1>6 DEF ForwardBatch

-----------------------------------------------------------------------------
(* Steps that leave the tables alone.                                      *)

\* Unchanged tables hold the same transactions.
LEMMA TablesKept ==
  ASSUME UNCHANGED tables
  PROVE  /\ Regular' = Regular /\ Relevant' = Relevant /\ Enclosed' = Enclosed
         /\ kind' = kind /\ saved' = saved /\ wallet' = wallet /\ recorded' = recorded
  BY DEF tables, Regular, Relevant, Enclosed

\* A step that neither writes the tables nor takes up a task keeps the invariant.
LEMMA BystanderInv ==
  ASSUME IndInv, UNCHANGED <<tables, failed>>, Shapes',
         \A r \in Replicas : worker'[r] = worker[r] \/ worker'[r] = Idle,
         wallet = NoWallet => session' = 0 /\ \A r \in Replicas : ~listing'[r].listed
  PROVE  IndInv'
  <1>1. /\ Regular' = Regular /\ Relevant' = Relevant /\ Enclosed' = Enclosed
        /\ kind' = kind /\ saved' = saved /\ wallet' = wallet /\ recorded' = recorded
    BY TablesKept
  <1>2. \A r \in Replicas : worker'[r].at \in Scanning => worker'[r] = worker[r]
    BY DEF Scanning, Idle
  <1>3. SavedHaveKind' /\ RowIsSound' /\ RecordedIsEnclosed' /\ failed' = FALSE
    BY <1>1 DEF IndInv, SavedHaveKind, RowIsSound, RecordedIsEnclosed
  <1>4. AbsentIsIgnored'
    BY <1>1, <1>2 DEF IndInv, AbsentIsIgnored
  <1>5. OneScans'
    BY <1>2 DEF IndInv, OneScans
  <1>6. BatchesAreDense'
    <2> SUFFICES ASSUME NEW r \in Replicas
                 PROVE  (worker[r].batch \subseteq Regular)' /\ BackwardIsDense(r)' /\ ForwardIsDense(r)'
      BY DEF BatchesAreDense
    <2>1. CASE worker'[r] = worker[r]
      BY <2>1, <1>1 DEF IndInv, BatchesAreDense, BackwardIsDense, ForwardIsDense
    <2>2. CASE worker'[r] = Idle
      BY <2>2 DEF Idle, BackwardIsDense, ForwardIsDense
    <2> QED
      BY <2>1, <2>2
  <1> QED
    BY <1>3, <1>4, <1>5, <1>6 DEF IndInv

LEMMA DisconnectInv ==
  ASSUME IndInv, NEW s \in 1 .. sessions, Disconnect(s)
  PROVE  IndInv'
  <1>1. Shapes'
    BY TablesKept DEF IndInv, Shapes, Disconnect
  <1> QED
    BY <1>1, BystanderInv, Zenon DEF IndInv, AbsentIsIgnored, Disconnect

LEMMA KeepActiveInv ==
  ASSUME IndInv, KeepActive
  PROVE  IndInv'
  <1>1. Shapes'
    BY TablesKept DEF IndInv, Shapes, KeepActive
  <1> QED
    BY <1>1, BystanderInv, Zenon DEF IndInv, AbsentIsIgnored, KeepActive

LEMMA TimePassesInv ==
  ASSUME IndInv, TimePasses
  PROVE  IndInv'
  <1>1. expiries' \in 0 .. MaxExpiries
    BY BoundsAssumption DEF IndInv, Shapes, TimePasses
  <1>2. Shapes'
    BY <1>1, TablesKept, Zenon DEF IndInv, Shapes, TimePasses
  <1> QED
    BY <1>2, BystanderInv, Zenon DEF IndInv, AbsentIsIgnored, TimePasses

LEMMA ReceiveBlockIndexedInv ==
  ASSUME IndInv, NEW r \in Replicas, ReceiveBlockIndexed(r)
  PROVE  IndInv'
  <1>1. PICK id \in inbox[r] :
          /\ inbox' = [inbox EXCEPT ![r] = @ \ {id}]
          /\ maxSeen' = [maxSeen EXCEPT ![r] = IF @ = Infinity \/ @ < id THEN id ELSE @]
    BY Zenon DEF ReceiveBlockIndexed
  <1>2. inbox' \in [Replicas -> SUBSET Id] /\ maxSeen' \in [Replicas -> Id \cup {Infinity}]
    BY <1>1 DEF IndInv, Shapes
  <1>3. Shapes'
    BY <1>2, TablesKept DEF IndInv, Shapes, ReceiveBlockIndexed, account
  <1> QED
    BY <1>3, BystanderInv, Zenon DEF IndInv, AbsentIsIgnored, ReceiveBlockIndexed, account

LEMMA ListWalletsInv ==
  ASSUME IndInv, NEW r \in Replicas, ListWallets(r)
  PROVE  IndInv'
  <1>1. Shapes'
    BY TablesKept DEF IndInv, Shapes, ListWallets, account
  <1>2. wallet = NoWallet => session' = 0 /\ \A q \in Replicas : ~listing'[q].listed
    BY DEF IndInv, Shapes, AbsentIsIgnored, ListWallets, account
  <1> QED
    BY <1>1, <1>2, BystanderInv DEF ListWallets

LEMMA ExpireSessionsInv ==
  ASSUME IndInv, NEW r \in Replicas, ExpireSessions(r)
  PROVE  IndInv'
  <1>1. session' \in {0, session}
    BY DEF ExpireSessions
  <1>2. Shapes'
    BY <1>1, TablesKept, BoundsAssumption DEF IndInv, Shapes, ExpireSessions
  <1>3. wallet = NoWallet => session' = 0 /\ \A q \in Replicas : ~listing'[q].listed
    BY <1>1 DEF IndInv, Shapes, AbsentIsIgnored, ExpireSessions
  <1> QED
    BY <1>2, <1>3, BystanderInv DEF ExpireSessions

LEMMA PublishWalletIndexedInv ==
  ASSUME IndInv, NEW r \in Replicas, PublishWalletIndexed(r)
  PROVE  IndInv'
  <1>1. Shapes'
    BY TablesKept DEF IndInv, Shapes, PublishWalletIndexed, account, Idle
  <1>2. \A q \in Replicas : worker'[q] = worker[q] \/ worker'[q] = Idle
    BY DEF IndInv, Shapes, PublishWalletIndexed
  <1> QED
    BY <1>1, <1>2, BystanderInv, Zenon DEF IndInv, AbsentIsIgnored, PublishWalletIndexed, account

LEMMA StartReplicaInv ==
  ASSUME IndInv, NEW r \in Replicas, StartReplica(r)
  PROVE  IndInv'
  <1>1. Shapes'
    BY TablesKept DEF IndInv, Shapes, StartReplica, account
  <1>2. wallet = NoWallet => session' = 0 /\ \A q \in Replicas : ~listing'[q].listed
    BY DEF IndInv, Shapes, AbsentIsIgnored, StartReplica, account
  <1> QED
    BY <1>1, <1>2, BystanderInv DEF StartReplica

LEMMA StopReplicaInv ==
  ASSUME IndInv, NEW r \in Replicas, StopReplica(r)
  PROVE  IndInv'
  <1>1. Shapes'
    BY TablesKept, BoundsAssumption
    DEF IndInv, Shapes, StopReplica, account, Idle, Unasked, Infinity
  <1>2. \A q \in Replicas : worker'[q] = worker[q] \/ worker'[q] = Idle
    BY DEF IndInv, Shapes, StopReplica
  <1>3. wallet = NoWallet => session' = 0 /\ \A q \in Replicas : ~listing'[q].listed
    BY DEF IndInv, Shapes, AbsentIsIgnored, StopReplica, account, Unasked
  <1> QED
    BY <1>1, <1>2, <1>3, BystanderInv DEF StopReplica

LEMMA StutterInv ==
  ASSUME IndInv, UNCHANGED vars
  PROVE  IndInv'
  <1>1. Shapes'
    BY TablesKept DEF IndInv, Shapes, vars, account
  <1> QED
    BY <1>1, BystanderInv, Zenon DEF IndInv, AbsentIsIgnored, vars, account

-----------------------------------------------------------------------------
(* Steps that write the tables or take up a task.                          *)

\* Connecting creates the row with nothing between its cursors, or lowers the wanted
\* index, which no open task looks at again.
LEMMA ConnectInv ==
  ASSUME IndInv, NEW start \in StartIndexes, Connect(start)
  PROVE  IndInv'
  <1>1. start \in Nat
    BY StartIndexAssumption
  <1>2. /\ Regular' = Regular /\ Relevant' = Relevant /\ Relevant \subseteq Nat
        /\ kind' = kind /\ saved' = saved /\ recorded' = recorded
        /\ worker' = worker /\ listing' = listing /\ failed' = failed
    BY DEF IndInv, Shapes, Connect, Regular, Relevant
  <1>3. /\ saved \in Int
        /\ wallet \in [wanted : Int, first : Int, last : Int, origin : Int, ahead : BOOLEAN]
    BY DEF IndInv, Shapes
  <1>4. ASSUME wallet = NoWallet
        PROVE  RowIsSound' /\ AbsentIsIgnored' /\ BatchesAreDense' /\ RecordedIsEnclosed'
    <2>1. wallet' = [wanted |-> start, first |-> start, last |-> start,
                     origin |-> start, ahead |-> start > saved]
      BY <1>4 DEF Connect
    <2>2. wallet' # NoWallet
      BY <1>1, <2>1 DEF NoWallet
    <2>3. recorded = {} /\ Enclosed' = {}
      <3>1. \A t \in Relevant : ~(wallet.first <= t /\ t <= wallet.last)
        BY <1>2, <1>4 DEF NoWallet
      <3>2. \A t \in Relevant : wallet'.first <= t /\ t <= wallet'.last => t = wallet'.origin
        BY <1>1, <1>2, <2>1
      <3>3. recorded = {}
        BY <3>1 DEF IndInv, RecordedIsEnclosed, Enclosed
      <3>4. Enclosed' = {}
        BY <1>2, <3>2, Zenon DEF Enclosed
      <3> QED
        BY <3>3, <3>4
    <2>4. RowIsSound'
      <3>1. wallet'.ahead = (start > saved)
        BY <2>1
      <3>2. ~(start > saved) => start <= saved
        BY <1>1, <1>3
      <3>3. ~wallet'.ahead => start <= saved
        BY <3>1, <3>2, Zenon
      <3>4. wallet'.last = start /\ saved' = saved
        BY <1>2, <2>1
      <3>5. ~wallet'.ahead => wallet'.last <= saved'
        BY <3>3, <3>4
      <3> QED
        BY <1>1, <2>1, <3>4, <3>5 DEF RowIsSound
    <2>5. RecordedIsEnclosed'
      BY <1>2, <2>3 DEF RecordedIsEnclosed
    <2>6. BatchesAreDense'
      BY <1>2, <1>4 DEF IndInv, AbsentIsIgnored, BatchesAreDense, BackwardIsDense,
                        ForwardIsDense, Scanning
    <2> QED
      BY <2>2, <2>4, <2>5, <2>6 DEF AbsentIsIgnored
  <1>5. ASSUME wallet # NoWallet
        PROVE  RowIsSound' /\ AbsentIsIgnored' /\ BatchesAreDense' /\ RecordedIsEnclosed'
    <2>1. /\ wallet'.first = wallet.first /\ wallet'.last = wallet.last
          /\ wallet'.origin = wallet.origin /\ wallet'.ahead = wallet.ahead
          /\ wallet'.wanted \in {wallet.wanted, start}
          /\ wallet' \in [wanted : Int, first : Int, last : Int, origin : Int, ahead : BOOLEAN]
      BY <1>1, <1>3, <1>5 DEF Connect, Reconnected, Lower
    <2>2. wallet' # NoWallet
      BY <1>1, <1>5, <2>1 DEF NoWallet, IndInv, RowIsSound
    <2>3. Enclosed' = Enclosed
      BY <1>2, <2>1 DEF Enclosed
    <2>4. RowIsSound'
      BY <1>1, <1>2, <1>5, <2>1 DEF IndInv, RowIsSound
    <2>5. RecordedIsEnclosed' /\ BatchesAreDense'
      BY <1>2, <2>1, <2>3 DEF IndInv, RecordedIsEnclosed, BatchesAreDense, BackwardIsDense,
                              ForwardIsDense
    <2> QED
      BY <2>2, <2>4, <2>5 DEF AbsentIsIgnored
  <1>6. session' \in 0 .. sessions' /\ sessions' \in 0 .. MaxSessions /\ recent' \in BOOLEAN
    BY BoundsAssumption DEF IndInv, Shapes, Connect
  <1>7. wallet' \in [wanted : Int, first : Int, last : Int, origin : Int, ahead : BOOLEAN]
    BY <1>1, <1>3 DEF Connect, Reconnected, Lower
  <1>8. Shapes'
    BY <1>2, <1>6, <1>7 DEF IndInv, Shapes, Connect
  <1>9. SavedHaveKind' /\ OneScans' /\ failed' = FALSE
    BY <1>2 DEF IndInv, SavedHaveKind, OneScans
  <1>10. RowIsSound' /\ AbsentIsIgnored' /\ BatchesAreDense' /\ RecordedIsEnclosed'
    BY <1>4, <1>5
  <1> QED
    BY <1>8, <1>9, <1>10 DEF IndInv

\* A task reads the row and its batch under the lock.
LEMMA ScanBackwardInv ==
  ASSUME IndInv, NEW r \in Replicas, ScanBackward(r)
  PROVE  IndInv'
  <1>1. /\ Regular' = Regular /\ Relevant' = Relevant /\ Enclosed' = Enclosed
        /\ kind' = kind /\ saved' = saved /\ wallet' = wallet /\ recorded' = recorded
    BY TablesKept DEF ScanBackward
  <1>2. wallet # NoWallet
    BY DEF IndInv, AbsentIsIgnored, ScanBackward, Listed
  <1>3. wallet.wanted \in Nat /\ wallet.first \in Nat /\ wallet.wanted < wallet.first /\ saved \in Nat
    BY <1>2 DEF IndInv, Shapes, RowIsSound, ScanBackward
  <1> DEFINE Batch == BackwardBatch(wallet.wanted, wallet.first)
  <1>4. /\ worker'[r] = [at |-> "backward", wanted |-> wallet.wanted, batch |-> Batch]
        /\ \A q \in Replicas \ {r} : worker'[q] = worker[q] /\ worker[q].at \notin Scanning
    BY DEF IndInv, Shapes, ScanBackward, LockIsFree, Scanning
  <1>5. Batch \subseteq Regular /\ \A t \in Batch : wallet.wanted <= t /\ t < wallet.first
    BY DEF BackwardBatch
  <1>6. /\ \A t \in Batch, u \in Regular : t <= u /\ u < wallet.first => u \in Batch
        /\ Batch = {} => \A u \in Regular : ~(wallet.wanted <= u /\ u < wallet.first)
    BY <1>3, BackwardBatchIsDense, BackwardBatchIsEmpty
  <1>7. Batch \in SUBSET Id
    BY <1>5, BoundsAssumption DEF IndInv, Shapes, Regular, Id
  <1> HIDE DEF Batch
  <1>8. Shapes'
    <2>1. worker' \in [Replicas -> [at : {"idle", "backward", "forward", "committed"},
                                    wanted : Int, batch : SUBSET Id]]
      BY <1>3, <1>7 DEF IndInv, Shapes, ScanBackward, Batch
    <2> QED
      BY <2>1, <1>1 DEF IndInv, Shapes, ScanBackward, account
  <1>9. SavedHaveKind' /\ RowIsSound' /\ RecordedIsEnclosed' /\ failed' = FALSE
    BY <1>1 DEF IndInv, SavedHaveKind, RowIsSound, RecordedIsEnclosed,
                ScanBackward
  <1>10. AbsentIsIgnored'
    BY <1>1, <1>2 DEF AbsentIsIgnored
  <1>11. OneScans'
    BY <1>4 DEF OneScans
  <1>12. BatchesAreDense'
    <2>1. (worker[r].batch \subseteq Regular)' /\ BackwardIsDense(r)' /\ ForwardIsDense(r)'
      BY <1>1, <1>3, <1>4, <1>5, <1>6 DEF BackwardIsDense, ForwardIsDense
    <2>2. ASSUME NEW q \in Replicas \ {r}
          PROVE  (worker[q].batch \subseteq Regular)' /\ BackwardIsDense(q)' /\ ForwardIsDense(q)'
      BY <1>1, <1>4, SMTT(30) DEF IndInv, BatchesAreDense, BackwardIsDense, ForwardIsDense
    <2> QED
      BY <2>1, <2>2 DEF BatchesAreDense
  <1> QED
    BY <1>8, <1>9, <1>10, <1>11, <1>12 DEF IndInv

LEMMA ScanForwardInv ==
  ASSUME IndInv, NEW r \in Replicas, ScanForward(r)
  PROVE  IndInv'
  <1>1. /\ Regular' = Regular /\ Relevant' = Relevant /\ Enclosed' = Enclosed
        /\ kind' = kind /\ saved' = saved /\ wallet' = wallet /\ recorded' = recorded
    BY TablesKept, SMTT(30) DEF ScanForward
  <1>2. wallet # NoWallet
    BY DEF IndInv, AbsentIsIgnored, ScanForward, Listed
  <1>3. wallet.wanted \in Nat /\ wallet.last \in Nat /\ saved \in Nat /\ Regular \in SUBSET Nat
    BY <1>2, RegularIsFinite, SMTT(30) DEF IndInv, Shapes, RowIsSound
  <1> DEFINE Batch == ForwardBatch(ForwardFrom)
  <1>4. /\ worker' = [worker EXCEPT ![r] = [at |-> "forward", wanted |-> wallet.wanted, batch |-> Batch]]
        /\ worker'[r] = [at |-> "forward", wanted |-> wallet.wanted, batch |-> Batch]
        /\ \A q \in Replicas \ {r} : worker'[q] = worker[q] /\ worker[q].at \notin Scanning
    BY DEF IndInv, Shapes, ScanForward, LockIsFree, Scanning
  <1>5. Batch \subseteq Regular /\ \A t \in Batch : wallet.last < t
    BY <1>3 DEF ForwardBatch, ForwardFrom
  <1>6. \A t \in Batch, u \in Regular : wallet.last < u /\ u <= t => u \in Batch
    BY <1>3, ForwardBatchIsDense DEF ForwardFrom
  <1>7. Batch \in SUBSET Id
    BY <1>5, BoundsAssumption DEF IndInv, Shapes, Regular, Id
  <1> HIDE DEF Batch
  <1>8. Shapes'
    <2>1. worker' \in [Replicas -> [at : {"idle", "backward", "forward", "committed"},
                                    wanted : Int, batch : SUBSET Id]]
      BY <1>3, <1>4, <1>7, SMTT(30) DEF IndInv, Shapes
    <2> QED
      BY <2>1, <1>1 DEF IndInv, Shapes, ScanForward, account
  <1>9. SavedHaveKind' /\ RowIsSound' /\ RecordedIsEnclosed' /\ failed' = FALSE
    BY <1>1 DEF IndInv, SavedHaveKind, RowIsSound, RecordedIsEnclosed,
                ScanForward
  <1>10. AbsentIsIgnored'
    BY <1>1, <1>2 DEF AbsentIsIgnored
  <1>11. OneScans'
    BY <1>4 DEF OneScans
  <1>12. BatchesAreDense'
    <2>1. (worker[r].batch \subseteq Regular)' /\ BackwardIsDense(r)' /\ ForwardIsDense(r)'
      BY <1>1, <1>4, <1>5, <1>6, SMTT(30) DEF BackwardIsDense, ForwardIsDense
    <2>2. ASSUME NEW q \in Replicas \ {r}
          PROVE  (worker[q].batch \subseteq Regular)' /\ BackwardIsDense(q)' /\ ForwardIsDense(q)'
      BY <1>1, <1>4 DEF IndInv, BatchesAreDense, BackwardIsDense, ForwardIsDense
    <2> QED
      BY <2>1, <2>2 DEF BatchesAreDense
  <1> QED
    BY <1>8, <1>9, <1>10, <1>11, <1>12 DEF IndInv

\* What a commit does when the batch holds nothing recorded before: the task is over,
\* and nobody else was near the cursors.
LEMMA RecordStep ==
  ASSUME IndInv, NEW r \in Replicas, NEW row, worker[r].at \in Scanning,
         Found(r) \cap recorded = {}, Record(r, row), UNCHANGED <<kind, saved>>
  PROVE  /\ recorded' = recorded \cup Found(r) /\ wallet' = row /\ failed' = failed
         /\ Regular' = Regular /\ Relevant' = Relevant
         /\ worker' \in [Replicas -> [at : {"idle", "backward", "forward", "committed"},
                                      wanted : Int, batch : SUBSET Id]]
         /\ \A q \in Replicas : worker'[q].at \notin Scanning /\ worker'[q].batch \subseteq Regular
  <1>1. /\ recorded' = recorded \cup Found(r) /\ wallet' = row /\ failed' = failed
        /\ worker' = [worker EXCEPT ![r] = IF Found(r) = {} THEN Idle
                                           ELSE [Idle EXCEPT !.at = "committed"]]
    BY DEF Record
  <1>2. Regular' = Regular /\ Relevant' = Relevant
    BY DEF Regular, Relevant
  <1>3. PICK done \in {Idle, [Idle EXCEPT !.at = "committed"]} : worker' = [worker EXCEPT ![r] = done]
    BY <1>1, Zenon
  <1>4. /\ done \in [at : {"idle", "backward", "forward", "committed"}, wanted : Int, batch : SUBSET Id]
        /\ done.at \notin Scanning /\ done.batch = {}
    BY DEF Idle, Scanning
  <1>5. worker' \in [Replicas -> [at : {"idle", "backward", "forward", "committed"},
                                  wanted : Int, batch : SUBSET Id]]
    BY <1>3, <1>4 DEF IndInv, Shapes
  <1>6. ASSUME NEW q \in Replicas
        PROVE  worker'[q].at \notin Scanning /\ worker'[q].batch \subseteq Regular
    <2>1. CASE q = r
      BY <2>1, <1>3, <1>4 DEF IndInv, Shapes
    <2>2. CASE q # r
      <3>1. worker'[q] = worker[q]
        BY <2>2, <1>3 DEF IndInv, Shapes
      <3> QED
        BY <2>2, <3>1 DEF IndInv, OneScans, BatchesAreDense
    <2> QED
      BY <2>1, <2>2
  <1> QED
    BY <1>1, <1>2, <1>5, <1>6

\* A commit that moves one cursor keeps the invariant if the new row is sound and
\* encloses exactly what is recorded now.
LEMMA CommitInv ==
  ASSUME IndInv, NEW r \in Replicas, NEW row, worker[r].at \in Scanning,
         Found(r) \cap recorded = {}, Record(r, row),
         UNCHANGED <<kind, saved, account, listing, maxSeen, inbox, notified, stops>>,
         row \in [wanted : Nat, first : Nat, last : Nat, origin : StartIndexes, ahead : BOOLEAN],
         row.first <= row.origin, row.origin <= row.last, ~row.ahead => row.last <= saved,
         row.last <= saved \/ row.last = row.origin,
         RecordedIsEnclosed'
  PROVE  IndInv'
  <1>1. /\ recorded' = recorded \cup Found(r) /\ wallet' = row /\ failed' = failed
        /\ Regular' = Regular /\ Relevant' = Relevant
        /\ worker' \in [Replicas -> [at : {"idle", "backward", "forward", "committed"},
                                     wanted : Int, batch : SUBSET Id]]
        /\ \A q \in Replicas : worker'[q].at \notin Scanning /\ worker'[q].batch \subseteq Regular
    BY RecordStep
  <1>2. wallet' \in [wanted : Int, first : Int, last : Int, origin : Int, ahead : BOOLEAN]
    <2>1. \A x \in StartIndexes : x \in Int
      BY StartIndexAssumption
    <2>2. row \in [wanted : Int, first : Int, last : Int, origin : Int, ahead : BOOLEAN]
      BY <2>1
    <2> QED
      BY <1>1, <2>2
  <1>3. recorded' \subseteq Relevant' /\ notified' \subseteq recorded'
    BY <1>1, SMTT(30) DEF IndInv, Shapes, Found
  <1>4. Shapes'
    BY <1>1, <1>2, <1>3 DEF IndInv, Shapes, account
  <1>5. SavedHaveKind' /\ OneScans' /\ failed' = FALSE
    BY <1>1 DEF IndInv, SavedHaveKind, OneScans
  <1>6. RowIsSound'
    BY <1>1 DEF RowIsSound
  <1>7. wallet' # NoWallet
    BY <1>1 DEF NoWallet
  <1>8. AbsentIsIgnored'
    BY <1>7 DEF AbsentIsIgnored
  <1>9. BatchesAreDense'
    BY <1>1 DEF BatchesAreDense, BackwardIsDense, ForwardIsDense, Scanning
  <1> QED
    BY <1>4, <1>5, <1>6, <1>8, <1>9, SMTT(30) DEF IndInv

LEMMA CommitBackwardInv ==
  ASSUME IndInv, NEW r \in Replicas, CommitBackward(r)
  PROVE  IndInv'
  <1> DEFINE batch == worker[r].batch
  <1>1. PICK id \in NewFirst(r) : Record(r, [wallet EXCEPT !.first = id])
    BY DEF CommitBackward
  <1>2. worker[r].at = "backward" /\ worker[r].at \in Scanning
    BY DEF CommitBackward, Scanning
  <1>3. wallet # NoWallet
    BY <1>2 DEF IndInv, AbsentIsIgnored
  <1>4. wallet \in [wanted : Nat, first : Nat, last : Nat, origin : StartIndexes, ahead : BOOLEAN]
    BY <1>3 DEF IndInv, Shapes, RowIsSound
  <1>5. /\ wallet.first <= wallet.origin /\ wallet.origin <= wallet.last /\ wallet.origin \in Nat
        /\ ~wallet.ahead => wallet.last <= saved
        /\ wallet.last <= saved \/ wallet.last = wallet.origin
    BY <1>4, StartIndexAssumption, Zenon DEF IndInv, RowIsSound
  <1>6. /\ batch \subseteq Regular
        /\ worker[r].wanted \in Nat /\ worker[r].wanted < wallet.first
        /\ \A t \in batch : worker[r].wanted <= t /\ t < wallet.first
        /\ ~wallet.ahead =>
             /\ \A t \in batch, u \in Regular : t <= u /\ u < wallet.first => u \in batch
             /\ batch = {} => \A u \in Regular : ~(worker[r].wanted <= u /\ u < wallet.first)
    BY <1>2 DEF IndInv, BatchesAreDense, BackwardIsDense
  <1>7. Regular \subseteq Nat /\ Relevant \subseteq Regular
    BY DEF Regular, Relevant
  <1>8. id \in Nat /\ id < wallet.first /\ \A t \in batch : id <= t
    BY <1>6, <1>7, Zenon DEF NewFirst
  <1>9. Found(r) \cap recorded = {}
    <2>1. \A t \in recorded : t \in Nat /\ wallet.first <= t
      BY <1>7 DEF IndInv, RecordedIsEnclosed, Enclosed
    <2>2. \A t \in Found(r) : t \in Nat /\ t < wallet.first
      BY <1>6, <1>7, Zenon DEF Found
    <2> QED
      BY <2>1, <2>2, <1>4
  <1> DEFINE row == [wallet EXCEPT !.first = id]
  <1>10. /\ row \in [wanted : Nat, first : Nat, last : Nat, origin : StartIndexes, ahead : BOOLEAN]
         /\ row.first = id /\ row.last = wallet.last /\ row.origin = wallet.origin
         /\ row.ahead = wallet.ahead
    BY <1>4, <1>8
  <1>11. /\ recorded' = recorded \cup Found(r) /\ Relevant' = Relevant /\ wallet' = row
    BY <1>1, <1>2, <1>9, RecordStep DEF CommitBackward
  <1> HIDE DEF row
  <1>12. Enclosed' = {t \in Relevant : id <= t /\ t <= wallet.last /\ t # wallet.origin}
    BY <1>10, <1>11 DEF Enclosed
  <1>13. recorded' \subseteq Enclosed'
    <2>1. ASSUME NEW t \in recorded
          PROVE  t \in Enclosed'
      <3>1. /\ t \in Relevant /\ wallet.first <= t /\ t <= wallet.last /\ t # wallet.origin
            /\ t \in Nat
        BY <1>7 DEF IndInv, RecordedIsEnclosed, Enclosed
      <3>2. id <= t
        BY <3>1, <1>4, <1>8
      <3> QED
        BY <3>1, <3>2, <1>12
    <2>2. ASSUME NEW t \in Found(r)
          PROVE  t \in Enclosed'
      <3>1. t \in Relevant /\ t \in Nat /\ t \in batch
        BY <1>7, Zenon DEF Found
      <3>2. id <= t /\ t < wallet.first
        BY <3>1, <1>6, <1>8
      <3> QED
        BY <3>1, <3>2, <1>12, <1>4, <1>5
    <2> QED
      BY <2>1, <2>2, <1>11
  <1>14. ASSUME NEW t \in Enclosed', ~wallet.ahead \/ wallet.origin < t
         PROVE  t \in recorded'
    <2>1. t \in Relevant /\ t \in Regular /\ t \in Nat /\ id <= t /\ t <= wallet.last /\ t # wallet.origin
      BY <1>12, <1>7
    <2>2. CASE wallet.first <= t
      BY <2>1, <2>2, <1>14, <1>11 DEF IndInv, RecordedIsEnclosed, Enclosed
    <2>3. CASE t < wallet.first
      <3>0. ~wallet.ahead
        BY <1>4, <1>5, <1>14, <2>1, <2>3
      <3>1. batch # {}
        BY <1>6, <3>0, <2>1, <2>3 DEF NewFirst
      <3>2. id \in batch
        BY <3>1 DEF NewFirst
      <3>3. t \in batch
        BY <3>2, <1>6, <3>0, <2>1, <2>3
      <3> QED
        BY <3>3, <2>1, <1>11 DEF Found
    <2> QED
      BY <2>1, <2>2, <2>3, <1>4
  <1>15. RecordedIsEnclosed'
    BY <1>10, <1>11, <1>13, <1>14 DEF RecordedIsEnclosed
  <1>16. /\ row.first <= row.origin /\ row.origin <= row.last
         /\ ~row.ahead => row.last <= saved
         /\ row.last <= saved \/ row.last = row.origin
    BY <1>10, <1>4, <1>5, <1>8
  <1> QED
    BY <1>1, <1>2, <1>9, <1>10, <1>15, <1>16, CommitInv DEF CommitBackward, row

LEMMA CommitForwardInv ==
  ASSUME IndInv, NEW r \in Replicas, CommitForward(r)
  PROVE  IndInv'
  <1> DEFINE batch == worker[r].batch
  <1>1. PICK id \in batch : /\ \A t \in batch : t <= id
                            /\ Record(r, [wallet EXCEPT !.last = id])
    BY DEF CommitForward
  <1>2. worker[r].at = "forward" /\ worker[r].at \in Scanning
    BY DEF CommitForward, Scanning
  <1>3. wallet # NoWallet
    BY <1>2 DEF IndInv, AbsentIsIgnored
  <1>4. wallet \in [wanted : Nat, first : Nat, last : Nat, origin : StartIndexes, ahead : BOOLEAN]
    BY <1>3 DEF IndInv, Shapes, RowIsSound
  <1>5. wallet.first <= wallet.origin /\ wallet.origin <= wallet.last /\ wallet.origin \in Nat
    BY <1>4, StartIndexAssumption, Zenon DEF IndInv, RowIsSound
  <1>6. /\ batch \subseteq Regular
        /\ \A t \in batch : wallet.last < t
        /\ \A t \in batch, u \in Regular : wallet.last < u /\ u <= t => u \in batch
    BY <1>2 DEF IndInv, BatchesAreDense, ForwardIsDense
  <1>7. Regular \subseteq Nat /\ Relevant \subseteq Regular /\ \A t \in Regular : t <= saved
    BY DEF IndInv, Shapes, Regular, Relevant
  <1>8. id \in Nat /\ wallet.last < id /\ id <= saved
    BY <1>6, <1>7, Zenon
  <1>9. Found(r) \cap recorded = {}
    <2>1. \A t \in recorded : t \in Nat /\ t <= wallet.last
      BY <1>7 DEF IndInv, RecordedIsEnclosed, Enclosed
    <2>2. \A t \in Found(r) : t \in Nat /\ wallet.last < t
      BY <1>6, <1>7, Zenon DEF Found
    <2> QED
      BY <2>1, <2>2, <1>4
  <1> DEFINE row == [wallet EXCEPT !.last = id]
  <1>10. /\ row \in [wanted : Nat, first : Nat, last : Nat, origin : StartIndexes, ahead : BOOLEAN]
         /\ row.first = wallet.first /\ row.last = id /\ row.origin = wallet.origin
         /\ row.ahead = wallet.ahead
    BY <1>4, <1>8
  <1>11. /\ recorded' = recorded \cup Found(r) /\ Relevant' = Relevant /\ wallet' = row
    BY <1>1, <1>2, <1>9, RecordStep DEF CommitForward
  <1> HIDE DEF row
  <1>12. Enclosed' = {t \in Relevant : wallet.first <= t /\ t <= id /\ t # wallet.origin}
    BY <1>10, <1>11 DEF Enclosed
  <1>13. recorded' \subseteq Enclosed'
    <2>1. ASSUME NEW t \in recorded
          PROVE  t \in Enclosed'
      <3>1. /\ t \in Relevant /\ wallet.first <= t /\ t <= wallet.last /\ t # wallet.origin
            /\ t \in Nat
        BY <1>7 DEF IndInv, RecordedIsEnclosed, Enclosed
      <3>2. t <= id
        BY <3>1, <1>4, <1>8
      <3> QED
        BY <3>1, <3>2, <1>12
    <2>2. ASSUME NEW t \in Found(r)
          PROVE  t \in Enclosed'
      BY <1>1, <1>12, <1>4, <1>5, <1>6, <1>7, <1>8 DEF Found
    <2> QED
      BY <2>1, <2>2, <1>11
  <1>14. ASSUME NEW t \in Enclosed', ~wallet.ahead \/ wallet.origin < t
         PROVE  t \in recorded'
    <2>1. t \in Relevant /\ t \in Regular /\ t \in Nat /\ wallet.first <= t /\ t <= id /\ t # wallet.origin
      BY <1>12, <1>7, Zenon
    <2>2. CASE t <= wallet.last
      BY <2>1, <2>2, <1>14, <1>11 DEF IndInv, RecordedIsEnclosed, Enclosed
    <2>3. CASE wallet.last < t
      <3>1. t \in batch
        BY <1>6, <2>1, <2>3
      <3> QED
        BY <3>1, <2>1, <1>11 DEF Found
    <2> QED
      BY <2>1, <2>2, <2>3, <1>4
  <1>15. RecordedIsEnclosed'
    BY <1>10, <1>11, <1>13, <1>14 DEF RecordedIsEnclosed
  <1>16. /\ row.first <= row.origin /\ row.origin <= row.last
         /\ ~row.ahead => row.last <= saved
         /\ row.last <= saved \/ row.last = row.origin
    BY <1>10, <1>4, <1>5, <1>8
  <1> QED
    BY <1>1, <1>2, <1>9, <1>10, <1>15, <1>16, CommitInv DEF CommitForward, row

\* Saving a block adds transactions above every id in use.
LEMMA SaveBlockInv ==
  ASSUME IndInv, NEW n \in 1 .. MaxPerBlock, SaveBlock(n)
  PROVE  IndInv'
  <1> DEFINE new == saved + 1 .. saved + n
  <1>1. /\ saved \in Nat /\ n \in Nat /\ saved' = saved + n /\ saved' \in 0 .. MaxId
        /\ wallet' = wallet /\ recorded' = recorded /\ worker' = worker /\ listing' = listing
        /\ failed' = failed /\ notified' = notified
    BY BoundsAssumption DEF IndInv, Shapes, SaveBlock
  <1>2. PICK k \in [new -> Kind] : kind' = [t \in Id |-> IF t \in new THEN k[t] ELSE kind[t]]
    BY Zenon DEF SaveBlock
  <1>3. kind' \in [Id -> Kind \cup {Unsaved}]
    BY <1>2 DEF IndInv, Shapes
  <1>4. SavedHaveKind'
    <2> SUFFICES ASSUME NEW t \in Id
                 PROVE  kind'[t] \in IF t <= saved' THEN Kind ELSE {Unsaved}
      BY DEF SavedHaveKind
    <2>1. t \in Nat
      BY BoundsAssumption DEF Id
    <2>2. kind[t] \in IF t <= saved THEN Kind ELSE {Unsaved}
      BY DEF IndInv, SavedHaveKind
    <2>3. CASE t \in new
      <3>1. kind'[t] \in Kind /\ t <= saved'
        BY <2>1, <2>3, <1>1, <1>2
      <3> QED
        BY <3>1
    <2>4. CASE t \notin new
      <3>1. kind'[t] = kind[t] /\ (t <= saved' <=> t <= saved)
        BY <2>1, <2>4, <1>1, <1>2
      <3> QED
        BY <3>1, <2>2
    <2> QED
      BY <2>3, <2>4
  <1>5. \A t \in 1 .. saved : t \in Id /\ kind'[t] = kind[t]
    BY <1>1, <1>2, BoundsAssumption DEF Id
  <1>6. /\ Regular \subseteq Nat /\ Regular' \subseteq Nat /\ Relevant' \subseteq Nat
        /\ Regular \subseteq Regular' /\ Relevant \subseteq Relevant'
        /\ \A t \in Regular' : t \in Regular \/ saved < t
        /\ \A t \in Relevant' : t \in Relevant \/ saved < t
        /\ \A t \in Regular : t <= saved
    BY <1>1, <1>5 DEF Regular, Relevant
  <1>7. wallet \in [wanted : Int, first : Int, last : Int, origin : Int, ahead : BOOLEAN]
    BY DEF IndInv, Shapes
  <1>8. /\ wallet.first <= wallet.origin /\ wallet.origin <= wallet.last
        /\ ~wallet.ahead => wallet.last <= saved
        /\ wallet.last <= saved \/ wallet.last = wallet.origin
    BY SMTT(30) DEF IndInv, RowIsSound
  <1>9. Shapes'
    <2>1. PICK reached \in SUBSET Replicas :
            inbox' = [r \in Replicas |->
                        IF r \in reached
                        THEN inbox[r] \cup {t \in {u \in new : kind'[u] # "system"} :
                                              \A u \in {v \in new : kind'[v] # "system"} : u <= t}
                        ELSE inbox[r]]
      BY Zenon DEF SaveBlock
    <2>2. \A t \in new : t \in Id
      BY <1>1, BoundsAssumption DEF Id
    <2>3. inbox' \in [Replicas -> SUBSET Id]
      BY <2>1, <2>2 DEF IndInv, Shapes
    <2>4. recorded' \subseteq Relevant'
      BY <1>1, <1>6 DEF IndInv, Shapes
    <2> QED
      BY <2>3, <2>4, <1>1, <1>3, Zenon DEF IndInv, Shapes, SaveBlock, account
  <1>10. RowIsSound'
    <2>1. /\ ~wallet.ahead => wallet.last <= saved + n
          /\ wallet.last <= saved + n \/ wallet.last = wallet.origin
      BY <1>1, <1>7, <1>8, SMTT(30)
    <2> QED
      BY <2>1, <1>1, <1>8 DEF IndInv, RowIsSound
  <1>11. AbsentIsIgnored' /\ OneScans' /\ failed' = FALSE
    BY <1>1 DEF IndInv, AbsentIsIgnored, OneScans, SaveBlock, account
  <1>12. BatchesAreDense'
    <2> SUFFICES ASSUME NEW r \in Replicas
                 PROVE  (worker[r].batch \subseteq Regular)' /\ BackwardIsDense(r)' /\ ForwardIsDense(r)'
      BY DEF BatchesAreDense
    <2>1. worker[r].batch \subseteq Regular /\ BackwardIsDense(r) /\ ForwardIsDense(r)
      BY DEF IndInv, BatchesAreDense
    <2>2. ~wallet.ahead => \A u \in Regular' : u < wallet.first => u \in Regular
      BY <1>1, <1>6, <1>7, <1>8
    <2>3. ASSUME NEW t \in worker[r].batch, NEW u \in Regular', u <= t
          PROVE  u \in Regular
      <3>1. t \in Nat /\ u \in Nat /\ t <= saved
        BY <2>1, <1>6, Zenon
      <3> QED
        BY <2>3, <3>1, <1>1, <1>6
    <2>4. (worker[r].batch \subseteq Regular)'
      BY <2>1, <1>1, <1>6, Zenon
    <2>5. BackwardIsDense(r)'
      BY <2>1, <2>2, <1>1, SMTT(30) DEF BackwardIsDense
    <2>6. ForwardIsDense(r)'
      BY <2>1, <2>3, <1>1 DEF ForwardIsDense
    <2> QED
      BY <2>4, <2>5, <2>6
  <1>13. RecordedIsEnclosed'
    <2>1. Enclosed' = {t \in Relevant' : wallet.first <= t /\ t <= wallet.last /\ t # wallet.origin}
      BY <1>1 DEF Enclosed
    <2>2. recorded \subseteq Enclosed'
      BY <2>1, <1>6 DEF IndInv, RecordedIsEnclosed, Enclosed
    <2>3. ASSUME NEW t \in Enclosed', ~wallet.ahead \/ wallet.origin < t
          PROVE  t \in recorded
      <3>1. t \in Relevant' /\ t \in Nat /\ wallet.first <= t /\ t <= wallet.last /\ t # wallet.origin
        BY <2>1, <1>6
      <3>2. t \in Relevant
        BY <2>3, <3>1, <1>1, <1>6, <1>7, <1>8
      <3> QED
        BY <2>3, <3>1, <3>2 DEF IndInv, RecordedIsEnclosed, Enclosed
    <2> QED
      BY <2>2, <2>3, <1>1 DEF RecordedIsEnclosed
  <1> QED
    BY <1>4, <1>9, <1>10, <1>11, <1>12, <1>13, SMTT(30) DEF IndInv

-----------------------------------------------------------------------------
(* The invariant and what follows from it.                                 *)

\* The initial state satisfies the invariant.
LEMMA InitInv ==
  ASSUME Init
  PROVE  IndInv
  <1>1. saved = 0 /\ Regular = {} /\ Relevant = {} /\ Enclosed = {} /\ recorded = {}
    BY DEF Init, Regular, Relevant, Enclosed
  <1>2. Shapes
    <2>1. /\ wallet \in [wanted : Int, first : Int, last : Int, origin : Int, ahead : BOOLEAN]
          /\ kind \in [Id -> Kind \cup {Unsaved}]
      BY SMTT(30) DEF Init, NoWallet
    <2>2. /\ worker \in [Replicas -> [at : {"idle", "backward", "forward", "committed"},
                                      wanted : Int, batch : SUBSET Id]]
          /\ listing \in [Replicas -> [at : {"stopped", "cycling", "expiring"}, listed : BOOLEAN]]
          /\ maxSeen \in [Replicas -> Id \cup {Infinity}]
          /\ inbox \in [Replicas -> SUBSET Id]
      BY DEF Init, Idle, Unasked
    <2>3. /\ session \in 0 .. sessions /\ sessions \in 0 .. MaxSessions /\ saved \in 0 .. MaxId
          /\ expiries \in 0 .. MaxExpiries /\ stops \in 0 .. MaxStops
      BY BoundsAssumption DEF Init
    <2>4. recent \in BOOLEAN /\ recorded \subseteq Relevant /\ notified \subseteq recorded
      BY <1>1, Zenon DEF Init
    <2> QED
      BY <2>1, <2>2, <2>3, <2>4 DEF Shapes
  <1>3. SavedHaveKind
    BY BoundsAssumption, SMTT(30) DEF Init, SavedHaveKind, Id
  <1>4. RowIsSound /\ AbsentIsIgnored /\ OneScans
    BY DEF Init, RowIsSound, AbsentIsIgnored, OneScans, NoWallet, Idle, Unasked, Scanning
  <1>5. BatchesAreDense
    BY DEF Init, BatchesAreDense, BackwardIsDense, ForwardIsDense, Idle
  <1>6. RecordedIsEnclosed /\ failed = FALSE
    BY <1>1 DEF Init, RecordedIsEnclosed
  <1> QED
    BY <1>2, <1>3, <1>4, <1>5, <1>6 DEF IndInv

\* Every step keeps the invariant.
LEMMA NextInv ==
  ASSUME IndInv, [Next]_vars
  PROVE  IndInv'
  <1>1. ASSUME NEW start \in StartIndexes, Connect(start)  PROVE IndInv'
    BY <1>1, ConnectInv
  <1>2. ASSUME NEW s \in 1 .. sessions, Disconnect(s)  PROVE IndInv'
    BY <1>2, DisconnectInv
  <1>3. CASE KeepActive
    BY <1>3, KeepActiveInv
  <1>4. CASE TimePasses
    BY <1>4, TimePassesInv
  <1>5. ASSUME NEW n \in 1 .. MaxPerBlock, SaveBlock(n)  PROVE IndInv'
    BY <1>5, SaveBlockInv
  <1>6. ASSUME NEW r \in Replicas,
               ReceiveBlockIndexed(r) \/ Listing(r) \/ Indexing(r) \/ StopReplica(r)
        PROVE  IndInv'
    BY <1>6, ReceiveBlockIndexedInv, StartReplicaInv, ListWalletsInv, ExpireSessionsInv,
       ScanBackwardInv, ScanForwardInv, CommitBackwardInv, CommitForwardInv,
       PublishWalletIndexedInv, StopReplicaInv
       DEF Listing, Indexing
  <1>7. CASE UNCHANGED vars
    BY <1>7, StutterInv
  <1> QED
    BY <1>1, <1>2, <1>3, <1>4, <1>5, <1>6, <1>7 DEF Next

\* The invariant holds throughout, for every number of replicas and transactions,
\* every batch size and all start indexes.
THEOREM Inductive == Spec => []IndInv
  <1> QED
    BY InitInv, NextInv, PTL DEF Spec

\* Tables and replicas keep their types: only relevant transactions are recorded
\* and only recorded ones notified.
THEOREM TypeCorrect == Spec => []TypeOK
  <1>1. IndInv => TypeOK
    <2> SUFFICES ASSUME IndInv PROVE TypeOK
      OBVIOUS
    <2>1. \A r \in Replicas : /\ worker[r].at \in {"idle", "backward", "forward", "committed"}
                              /\ worker[r].batch \subseteq Regular
                              /\ listing[r].at \in {"stopped", "cycling", "expiring"}
                              /\ maxSeen[r] \in Id \cup {Infinity}
                              /\ inbox[r] \subseteq Id
      BY DEF IndInv, Shapes, BatchesAreDense
    <2>2. wallet = NoWallet \/ (/\ {wallet.wanted, wallet.first, wallet.last} \subseteq Nat
                                /\ wallet.origin \in StartIndexes /\ wallet.ahead \in BOOLEAN)
      BY DEF IndInv, Shapes, RowIsSound
    <2>3. failed \in BOOLEAN
      BY Zenon DEF IndInv
    <2> QED
      BY <2>1, <2>2, <2>3 DEF TypeOK, IndInv, Shapes, SavedHaveKind
  <1> QED
    BY Inductive, <1>1, PTL

\* However many replicas share the work and stop in the middle of it, none inserts a
\* relevant transaction that is already there.
THEOREM ReplicasNeverCollide == Spec => []NeverRecordedTwice
  <1>1. IndInv => NeverRecordedTwice
    BY DEF IndInv, NeverRecordedTwice
  <1> QED
    BY Inductive, <1>1, PTL

\* What is recorded lies between the cursors, and no batch boundary, reconnect or
\* stop makes a scan skip a relevant transaction between them; those at the first
\* start index, and below it in a wallet created ahead, are left out.
THEOREM CursorsTell == Spec => []CursorsBoundRecorded
  <1>1. ASSUME IndInv
        PROVE  CursorsBoundRecorded
    <2> DEFINE between == {t \in Relevant : wallet.first <= t /\ t <= wallet.last}
    <2>1. recorded \subseteq between
      BY <1>1 DEF IndInv, RecordedIsEnclosed, Enclosed
    <2>2. ASSUME NEW t \in between \ recorded, t # wallet.origin
          PROVE  wallet.ahead /\ t < wallet.origin
      <3>1. t \in Enclosed
        BY <2>2 DEF Enclosed
      <3>2. wallet.ahead /\ ~(wallet.origin < t)
        BY <1>1, <2>2, <3>1 DEF IndInv, RecordedIsEnclosed
      <3>3. t \in Int /\ wallet.origin \in Int
        BY <1>1 DEF IndInv, Shapes, Relevant, Regular
      <3> QED
        BY <2>2, <3>2, <3>3
    <2> QED
      BY <2>1, <2>2 DEF CursorsBoundRecorded
  <1> QED
    BY Inductive, <1>1, PTL

\* Each step moves the cursors apart or leaves them, and never raises the wanted
\* index: a commit writes the row it read under the lock, and connecting in
\* between touches the wanted index alone.
LEMMA CursorsStep ==
  ASSUME IndInv, [Next]_vars, wallet # NoWallet
  PROVE  /\ wallet'.first <= wallet.first
         /\ wallet'.last >= wallet.last
         /\ wallet'.wanted <= wallet.wanted
  <1>1. /\ wallet \in [wanted : Nat, first : Nat, last : Nat, origin : StartIndexes, ahead : BOOLEAN]
        /\ saved \in Nat /\ Regular \subseteq Nat
    BY DEF IndInv, Shapes, RowIsSound, Regular
  <1>2. CASE wallet' = wallet
    BY <1>1, <1>2
  <1>3. ASSUME NEW start \in StartIndexes, Connect(start)
        PROVE  /\ wallet'.first = wallet.first /\ wallet'.last = wallet.last
               /\ wallet'.wanted <= wallet.wanted
    BY <1>1, <1>3, StartIndexAssumption DEF Connect, Reconnected, Lower
  <1>4. ASSUME NEW r \in Replicas, CommitBackward(r)
        PROVE  wallet' = wallet \/ (\E id \in Nat : id < wallet.first /\ wallet' = [wallet EXCEPT !.first = id])
    <2>1. PICK id \in NewFirst(r) : Record(r, [wallet EXCEPT !.first = id])
      BY <1>4 DEF CommitBackward
    <2>2. /\ worker[r].batch \subseteq Regular
          /\ worker[r].wanted \in Nat /\ worker[r].wanted < wallet.first
          /\ \A t \in worker[r].batch : t < wallet.first
      BY <1>4 DEF CommitBackward, IndInv, BatchesAreDense, BackwardIsDense
    <2>3. id \in Nat /\ id < wallet.first
      BY <2>2, <1>1, Zenon DEF NewFirst
    <2> QED
      BY <2>1, <2>3 DEF Record
  <1>5. ASSUME NEW r \in Replicas, CommitForward(r)
        PROVE  wallet' = wallet \/ (\E id \in Nat : id > wallet.last /\ wallet' = [wallet EXCEPT !.last = id])
    <2>1. PICK id \in worker[r].batch : Record(r, [wallet EXCEPT !.last = id])
      BY <1>5 DEF CommitForward
    <2>2. worker[r].batch \subseteq Regular /\ \A t \in worker[r].batch : wallet.last < t
      BY <1>5 DEF CommitForward, IndInv, BatchesAreDense, ForwardIsDense
    <2>3. id \in Nat /\ id > wallet.last
      BY <2>2, <1>1, Zenon
    <2> QED
      BY <2>1, <2>3 DEF Record
  <1>6. CASE \E id \in Nat : id < wallet.first /\ wallet' = [wallet EXCEPT !.first = id]
    BY <1>1, <1>6
  <1>7. CASE \E id \in Nat : id > wallet.last /\ wallet' = [wallet EXCEPT !.last = id]
    BY <1>1, <1>7, SMTT(30)
  <1>8. \/ wallet' = wallet
        \/ \E start \in StartIndexes : Connect(start)
        \/ \E r \in Replicas : CommitBackward(r) \/ CommitForward(r)
    BY DEF Next, vars, tables, Disconnect, KeepActive, TimePasses, SaveBlock, ReceiveBlockIndexed,
           Listing, StartReplica, ListWallets, ExpireSessions, Indexing, ScanBackward,
           ScanForward, PublishWalletIndexed, StopReplica
  <1>9. CASE \E start \in StartIndexes : Connect(start)
    BY <1>1, <1>3, <1>9
  <1> QED
    BY <1>2, <1>4, <1>5, <1>6, <1>7, <1>8, <1>9

\* No replica's commit undoes another's progress and no reconnect narrows what was
\* asked for.
THEOREM CursorsOnlyMoveApart == Spec => CursorsMoveApart
  <1>1. IndInv /\ [Next]_vars =>
          [wallet # NoWallet => /\ wallet'.first <= wallet.first
                                /\ wallet'.last >= wallet.last
                                /\ wallet'.wanted <= wallet.wanted]_vars
    BY CursorsStep
  <1> QED
    BY Inductive, <1>1, PTL DEF Spec, CursorsMoveApart

\* A session used within its time to live ends only when its client ends it: a
\* replica that read it as outdated looks again before it ends it.
THEOREM OnlyClientsEndActiveSessions == Spec => ActiveSessionsSurvive
  <1>1. IndInv /\ [Next]_vars =>
          [session # 0 /\ session' = 0 /\ recent => Disconnect(session)]_vars
    <2> SUFFICES ASSUME IndInv, Next, session # 0, session' = 0, recent
                 PROVE  Disconnect(session)
      OBVIOUS
    <2>1. sessions \in Nat
      BY BoundsAssumption DEF IndInv, Shapes
    <2>2. ASSUME NEW start \in StartIndexes, Connect(start)
          PROVE  FALSE
      BY <2>1, <2>2 DEF Connect
    <2>3. ASSUME NEW s \in 1 .. sessions, Disconnect(s)
          PROVE  Disconnect(session)
      BY <2>3 DEF Disconnect
    <2>4. ASSUME NEW r \in Replicas, ExpireSessions(r)
          PROVE  FALSE
      BY <2>4 DEF ExpireSessions, Outdated
    <2> QED
      BY <2>2, <2>3, <2>4, Zenon
      DEF Next, account, KeepActive, TimePasses, SaveBlock, ReceiveBlockIndexed, Listing,
          StartReplica, ListWallets, Indexing, ScanBackward, ScanForward, CommitBackward,
          CommitForward, PublishWalletIndexed, StopReplica
  <1> QED
    BY Inductive, <1>1, PTL DEF Spec, ActiveSessionsSurvive

=============================================================================
