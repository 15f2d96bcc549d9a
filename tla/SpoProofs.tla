------------------------------ MODULE SpoProofs ------------------------------
(***************************************************************************)
(* The SPO indexer saves every epoch once, with its own window; its        *)
(* refresh takes the pools in turn; and the API's SPO queries agree with   *)
(* each other.                                                             *)
(***************************************************************************)
EXTENDS SpoQueries, FiniteSetTheorems, TLAPS

------------------------------------------------------------------------------
(***************************************************************************)
(* Epochs.                                                                 *)
(***************************************************************************)
\* Quotient and remainder.
LEMMA Division ==
  ASSUME NEW x \in Int, NEW S \in Nat \ {0}
  PROVE  /\ x \div S \in Int /\ x % S \in 0 .. (S - 1)
         /\ x = S * (x \div S) + (x % S)
  OBVIOUS

\* A number is the quotient if it leaves a remainder.
LEMMA DivisionIs ==
  ASSUME NEW x \in Int, NEW S \in Nat \ {0}, NEW q \in Int, NEW r \in 0 .. (S - 1),
         x = S * q + r
  PROVE  x \div S = q /\ x % S = r
  <1> DEFINE d == x \div S
             m == x % S
  <1>1. d \in Int /\ m \in 0 .. (S - 1) /\ x = S * d + m
    BY Division
  <1> HIDE DEF d, m
  <1>2. S * (d - q) = r - m
    BY <1>1
  <1>3. ~(d - q >= 1)
    <2>1. ASSUME d - q >= 1 PROVE S * (d - q) >= S
      BY <1>1, <2>1
    <2> QED
      BY <2>1, <1>1, <1>2
  <1>4. ~(d - q <= -1)
    <2>1. ASSUME d - q <= -1 PROVE S * (d - q) <= -S
      BY <1>1, <2>1
    <2> QED
      BY <2>1, <1>1, <1>2
  <1>5. d = q
    BY <1>3, <1>4, <1>1
  <1> QED
    BY <1>5, <1>1 DEF d, m

LEMMA ConstantTypes ==
  /\ SlotsPerEpoch \in Nat \ {0} /\ FirstBlock \in 0 .. (SlotsPerEpoch - 1)
  /\ FirstEpoch \in {0, 1}
  BY ClockAssumption DEF FirstEpoch

LEMMA EpochAtTypes ==
  ASSUME NEW t \in Nat
  PROVE  /\ EpochAt(t) \in Nat /\ StartOf(EpochAt(t)) <= t /\ t < StartOf(EpochAt(t) + 1)
         /\ EpochAt(t) <= EpochAt(t + 1)
  <1> DEFINE S == SlotsPerEpoch
             d == t \div S
             m == t % S
             e == (t + 1) \div S
             k == (t + 1) % S
  <1>1. S \in Nat \ {0}
    BY ConstantTypes
  <1>2. d \in Int /\ m \in 0 .. (S - 1) /\ t = S * d + m
    BY <1>1, Division
  <1>3. e \in Int /\ k \in 0 .. (S - 1) /\ t + 1 = S * e + k
    BY <1>1, Division
  <1>4. EpochAt(t) = d /\ EpochAt(t + 1) = e /\ StartOf(d) = d * S /\ StartOf(d + 1) = (d + 1) * S
    BY DEF EpochAt, StartOf
  <1> HIDE DEF S, d, m, e, k
  <1>5. d >= 0
    <2>1. ASSUME d <= -1 PROVE S * d <= -S
      BY <1>1, <1>2, <2>1
    <2> QED
      BY <2>1, <1>1, <1>2
  <1>6. (d + 1) * S = S * d + S /\ d * S = S * d
    BY <1>1, <1>2
  <1>7. d <= e
    <2>1. ASSUME e <= d - 1 PROVE S * e <= S * d - S
      <3>1. S * (d - e - 1) >= 0
        BY <1>1, <1>2, <1>3, <2>1
      <3> QED
        BY <3>1, <1>1, <1>2, <1>3
    <2> QED
      BY <2>1, <1>1, <1>2, <1>3
  <1> QED
    BY <1>1, <1>2, <1>4, <1>5, <1>6, <1>7

\* get_first_epoch_num does not depend on when it is asked.
LEMMA FirstEpochNum ==
  ASSUME NEW e \in Nat
  PROVE  e - (StartOf(e + 1) - FirstBlock) \div SlotsPerEpoch = FirstEpoch - 1
  <1> DEFINE S == SlotsPerEpoch
             F == FirstBlock
  <1>1. S \in Nat \ {0} /\ F \in 0 .. (S - 1)
    BY ConstantTypes
  <1>2. StartOf(e + 1) = (e + 1) * S
    BY DEF StartOf
  <1>3. CASE F = 0
    <2>1. (e + 1) * S - F = S * (e + 1) + 0 /\ (e + 1) * S - F \in Int
      BY <1>1, <1>3
    <2>2. ((e + 1) * S - F) \div S = e + 1
      BY <2>1, <1>1, DivisionIs
    <2> QED
      BY <2>2, <1>2, <1>3 DEF FirstEpoch
  <1>4. CASE F # 0
    <2>1. (e + 1) * S - F = S * e + (S - F) /\ (e + 1) * S - F \in Int
      BY <1>1
    <2>2. ((e + 1) * S - F) \div S = e
      BY <2>1, <1>1, <1>4, DivisionIs
    <2> QED
      BY <2>2, <1>2, <1>4 DEF FirstEpoch
  <1> QED
    BY <1>3, <1>4

\* get_latest_epoch finds the last one saved.
LEMMA LatestIs ==
  ASSUME now \in Nat, NEW n \in Int, n >= FirstEpoch - 1, epochs = Calendar(n)
  PROVE  LatestEpochNum = n
  <1>1. DOMAIN epochs = FirstEpoch .. n /\ FirstEpoch \in Int
    BY ConstantTypes DEF Calendar
  <1>2. CASE n = FirstEpoch - 1
    <2>1. epochs = <<>>
      BY <1>1, <1>2 DEF Calendar
    <2>2. EpochAt(now) \in Nat
      BY EpochAtTypes
    <2> QED
      BY <2>1, <2>2, <1>2, FirstEpochNum DEF LatestEpochNum
  <1>3. CASE n >= FirstEpoch
    <2>1. n \in DOMAIN epochs /\ \A f \in DOMAIN epochs : f <= n /\ (n <= f => f = n)
      BY <1>1, <1>3
    <2>2. epochs # <<>>
      BY <2>1
    <2> QED
      BY <2>1, <2>2 DEF LatestEpochNum
  <1> QED
    BY <1>1, <1>2, <1>3

\* get_epoch_to_process gives the next epoch its own window, whenever it runs.
LEMMA NextWindow ==
  ASSUME now \in Nat, NEW n \in Int, n >= FirstEpoch - 1, epochs = Calendar(n)
  PROVE  EpochToProcess = [epoch_no |-> n + 1, starts |-> StartOf(n), ends |-> StartOf(n + 1)]
  <1> DEFINE S == SlotsPerEpoch
             E == EpochAt(now)
  <1>1. S \in Nat /\ E \in Nat
    BY ConstantTypes, EpochAtTypes
  <1>2. LatestEpochNum = n
    BY LatestIs
  <1> HIDE DEF S, E
  <1>3. E * S - (E - n) * S = n * S /\ (E + 1) * S - (E - n) * S = (n + 1) * S
    BY <1>1
  <1> QED
    BY <1>2, <1>3 DEF EpochToProcess, StartOf, S, E

LEMMA EpochsInit == Init => EpochsInv
  <1> SUFFICES ASSUME Init PROVE EpochsInv
    OBVIOUS
  <1>1. now \in Nat /\ FirstEpoch \in {0, 1}
    BY ConstantTypes DEF Init
  <1>2. EpochAt(now) \in Nat /\ FirstEpoch - 1 \in (FirstEpoch - 1) .. EpochAt(now)
    BY <1>1, EpochAtTypes
  <1>3. epochs = <<>> /\ membership = <<>> /\ fetched = <<>>
    BY DEF Init
  <1>4. FirstEpoch .. (FirstEpoch - 1) = {}
    BY ConstantTypes
  <1>5. epochs = Calendar(FirstEpoch - 1) /\ DOMAIN membership = FirstEpoch .. (FirstEpoch - 1)
    BY <1>3, <1>4 DEF Calendar
  <1>6. SavedUpTo(FirstEpoch - 1)
    BY <1>3, <1>5, Zenon DEF SavedUpTo
  <1> QED
    BY <1>1, <1>2, <1>6, Zenon DEF EpochsInv

\* Steps that leave the epoch task alone, or drop what it has fetched.
LEMMA EpochsKept ==
  ASSUME EpochsInv, now' \in Nat, EpochAt(now) <= EpochAt(now'),
         UNCHANGED <<departing, epochs, membership, updated>>, fetched' \in {fetched, <<>>}
  PROVE  EpochsInv'
  <1>1. PICK n \in (FirstEpoch - 1) .. EpochAt(now) : SavedUpTo(n)
    BY Zenon DEF EpochsInv
  <1>2. EpochAt(now) \in Nat /\ EpochAt(now') \in Nat /\ FirstEpoch \in Int
    BY EpochAtTypes, ConstantTypes DEF EpochsInv
  <1>3. n \in (FirstEpoch - 1) .. EpochAt(now') /\ (n < EpochAt(now) => n < EpochAt(now'))
    BY <1>2
  <1>4. EpochAt(now)' = EpochAt(now')
    BY DEF EpochAt
  <1>5. SavedUpTo(n)'
    BY <1>1, <1>3, <1>4 DEF SavedUpTo, Calendar, StartOf, Known
  <1>6. n \in ((FirstEpoch - 1) .. EpochAt(now))'
    BY <1>3, <1>4 DEF FirstEpoch
  <1> QED
    BY <1>5, <1>6, Zenon DEF EpochsInv

LEMMA FetchEpochs ==
  ASSUME EpochsInv, FetchEpoch
  PROVE  EpochsInv'
  <1> USE DEF FetchEpoch, tables
  <1>1. PICK n \in (FirstEpoch - 1) .. EpochAt(now) : SavedUpTo(n)
    BY Zenon DEF EpochsInv
  <1>2. now \in Nat /\ epochs = Calendar(n)
    BY <1>1, Zenon DEF EpochsInv, SavedUpTo
  <1>3. now \in Nat /\ EpochAt(now) \in Nat /\ FirstEpoch \in Int /\ epochs = Calendar(n)
    BY <1>2, EpochAtTypes, ConstantTypes
  <1>4. LatestEpochNum = n
    BY <1>3, LatestIs
  <1>5. n < EpochAt(now)
    BY <1>3, <1>4
  <1>6. EpochToProcess = [epoch_no |-> n + 1, starts |-> StartOf(n), ends |-> StartOf(n + 1)]
    BY <1>3, NextWindow
  <1>7. PICK c \in Committees \cup {<<>>}, regs \in Registrations :
          /\ departing \/ Known \subseteq {r.main : r \in regs}
          /\ fetched' = <<[epoch |-> EpochToProcess, committee |-> c, regs |-> regs]>>
    BY Zenon
  <1>8. UNCHANGED <<now, departing, epochs, membership, updated>>
    BY Zenon
  <1>9. SavedUpTo(n)'
    <2>1. epochs' = Calendar(n) /\ DOMAIN membership' = FirstEpoch .. n
      BY <1>1, <1>8, Zenon DEF SavedUpTo
    <2>2. Known' = Known /\ EpochAt(now') = EpochAt(now)
      BY <1>8 DEF Known
    <2>3. fetched' = <<[epoch |-> [epoch_no |-> n + 1, starts |-> StartOf(n), ends |-> StartOf(n + 1)],
                        committee |-> c, regs |-> regs]>>
      BY <1>6, <1>7, Zenon
    <2>4. n < EpochAt(now') /\ (departing' \/ Known' \subseteq {r.main : r \in regs})
      BY <1>5, <1>7, <1>8, <2>2
    <2> QED
      BY <2>1, <2>3, <2>4 DEF SavedUpTo, Calendar, StartOf, Known, EpochAt
  <1> QED
    BY <1>3, <1>8, <1>9, Zenon DEF EpochsInv, EpochAt

\* What process_next_epoch saves, for the epoch after the last one.
LEMMA SavedFacts ==
  ASSUME NEW n \in Int, SavedUpTo(n), SaveEpoch
  PROVE  \E c \in Committees \cup {<<>>}, regs \in Registrations :
           /\ fetched = <<[epoch |-> [epoch_no |-> n + 1, starts |-> StartOf(n), ends |-> StartOf(n + 1)],
                           committee |-> c, regs |-> regs]>>
           /\ n < EpochAt(now)
           /\ departing \/ Known \subseteq {r.main : r \in regs}
           /\ \E ids \in SavedIdentities(regs) :
                /\ identities' = ids
                /\ \E rows \in HistoryRows(regs, ids, n + 1) : history' = history \cup rows
                /\ performance' = performance \cup PerformanceRows(ids)
           /\ epochs' = [e \in DOMAIN epochs \cup {n + 1} |->
                           IF e = n + 1 THEN [starts |-> StartOf(n), ends |-> StartOf(n + 1)] ELSE epochs[e]]
           /\ membership' = [e \in DOMAIN epochs \cup {n + 1} |->
                               IF e = n + 1 THEN Seats(c) ELSE membership[e]]
           /\ updated' = [p \in Known \cup {r.main : r \in regs} |->
                            IF p \in {r.main : r \in regs} THEN n + 1 ELSE updated[p]]
           /\ fetched' = <<>>
           /\ UNCHANGED <<now, cursor, running, refresh>>
  <1>1. PICK c \in Committees \cup {<<>>}, regs \in Registrations :
          /\ fetched = <<[epoch |-> [epoch_no |-> n + 1, starts |-> StartOf(n), ends |-> StartOf(n + 1)],
                          committee |-> c, regs |-> regs]>>
          /\ n < EpochAt(now)
          /\ departing \/ Known \subseteq {r.main : r \in regs}
    BY Zenon DEF SavedUpTo, SaveEpoch
  <1>2. /\ fetched[1].epoch.epoch_no = n + 1 /\ fetched[1].epoch.starts = StartOf(n)
        /\ fetched[1].epoch.ends = StartOf(n + 1)
        /\ fetched[1].committee = c /\ fetched[1].regs = regs
    BY <1>1
  <1>3. LET e0 == fetched[1].epoch.epoch_no
            mains == {r.main : r \in fetched[1].regs}
        IN  \E ids \in SavedIdentities(fetched[1].regs) : \E rows \in HistoryRows(fetched[1].regs, ids, e0) :
           /\ epochs' = [e \in DOMAIN epochs \cup {e0} |->
                           IF e = e0 THEN [starts |-> fetched[1].epoch.starts, ends |-> fetched[1].epoch.ends]
                                     ELSE epochs[e]]
           /\ membership' = [e \in DOMAIN epochs \cup {e0} |->
                               IF e = e0 THEN Seats(fetched[1].committee) ELSE membership[e]]
           /\ updated' = [p \in Known \cup mains |-> IF p \in mains THEN e0 ELSE updated[p]]
           /\ identities' = ids
           /\ history' = history \cup rows
           /\ performance' = performance \cup PerformanceRows(ids)
    BY Zenon DEF SaveEpoch
  <1>4. \E ids \in SavedIdentities(regs) : \E rows \in HistoryRows(regs, ids, n + 1) :
           /\ epochs' = [e \in DOMAIN epochs \cup {n + 1} |->
                           IF e = n + 1 THEN [starts |-> StartOf(n), ends |-> StartOf(n + 1)] ELSE epochs[e]]
           /\ membership' = [e \in DOMAIN epochs \cup {n + 1} |->
                               IF e = n + 1 THEN Seats(c) ELSE membership[e]]
           /\ updated' = [p \in Known \cup {r.main : r \in regs} |->
                            IF p \in {r.main : r \in regs} THEN n + 1 ELSE updated[p]]
           /\ identities' = ids
           /\ history' = history \cup rows
           /\ performance' = performance \cup PerformanceRows(ids)
    BY <1>2, <1>3
  <1>5. fetched' = <<>> /\ UNCHANGED <<now, cursor, running, refresh>>
    BY Zenon DEF SaveEpoch
  <1> QED
    BY <1>1, <1>4, <1>5, Zenon

LEMMA SaveEpochs ==
  ASSUME EpochsInv, SaveEpoch
  PROVE  EpochsInv'
  <1>1. PICK n \in (FirstEpoch - 1) .. EpochAt(now) : SavedUpTo(n)
    BY Zenon DEF EpochsInv
  <1>2. now \in Nat /\ EpochAt(now) \in Nat /\ FirstEpoch \in Int /\ n \in Int
    BY EpochAtTypes, ConstantTypes DEF EpochsInv
  <1>3. PICK c \in Committees \cup {<<>>} :
          /\ n < EpochAt(now) /\ now' = now /\ fetched' = <<>>
          /\ epochs' = [e \in DOMAIN epochs \cup {n + 1} |->
                          IF e = n + 1 THEN [starts |-> StartOf(n), ends |-> StartOf(n + 1)] ELSE epochs[e]]
          /\ membership' = [e \in DOMAIN epochs \cup {n + 1} |->
                              IF e = n + 1 THEN Seats(c) ELSE membership[e]]
    BY <1>1, <1>2, SavedFacts, Zenon
  <1>4. epochs = Calendar(n) /\ DOMAIN epochs = FirstEpoch .. n
    BY <1>1, Zenon DEF SavedUpTo, Calendar
  <1>5. (FirstEpoch .. n) \cup {n + 1} = FirstEpoch .. (n + 1)
    BY <1>2
  <1>6. epochs' = Calendar(n + 1)
    <2>1. \A e \in FirstEpoch .. (n + 1) : e # n + 1 => epochs[e] = [starts |-> StartOf(e - 1), ends |-> StartOf(e)]
      BY <1>2, <1>4 DEF Calendar
    <2>2. n + 1 - 1 = n
      BY <1>2
    <2> QED
      BY <1>3, <1>4, <1>5, <2>1, <2>2 DEF Calendar
  <1>7. SavedUpTo(n + 1)'
    BY <1>3, <1>4, <1>5, <1>6 DEF SavedUpTo, Calendar, StartOf
  <1>8. n + 1 \in (FirstEpoch - 1) .. EpochAt(now')
    BY <1>2, <1>3
  <1> QED
    BY <1>2, <1>3, <1>7, <1>8, Zenon DEF EpochsInv, EpochAt

LEMMA EpochsNext == EpochsInv /\ [Next]_vars => EpochsInv'
  <1> SUFFICES ASSUME EpochsInv, [Next]_vars PROVE EpochsInv'
    OBVIOUS
  <1>1. now \in Nat /\ EpochAt(now) \in Nat
    BY EpochAtTypes DEF EpochsInv
  <1>2. CASE FetchEpoch
    BY <1>2, FetchEpochs
  <1>3. CASE SaveEpoch
    BY <1>3, SaveEpochs
  <1>4. CASE Tick
    <2>1. now' = now + 1 /\ UNCHANGED <<departing, epochs, membership, updated, fetched>>
      BY <1>4, Zenon DEF Tick, tables
    <2> QED
      BY <2>1, <1>1, EpochAtTypes, EpochsKept
  <1>5. CASE ReadPage \/ SaveStake \/ AdvanceCursor \/ AbandonPage \/ Stop \/ Start \/ UNCHANGED vars
    <2>1. now' = now /\ UNCHANGED <<departing, epochs, membership, updated>> /\ fetched' \in {fetched, <<>>}
      BY <1>5, Zenon
      DEF ReadPage, SaveStake, AdvanceCursor, AbandonPage, Stop, Start, vars, tables
    <2> QED
      BY <2>1, <1>1, EpochsKept
  <1> QED
    BY <1>2, <1>3, <1>4, <1>5, Zenon DEF Next, EpochTask, RefreshTask

\* However often it is interrupted, and however long after the fact, the epoch
\* task of process_next_epoch saves the epochs in order and without a gap, each
\* with the window that ends where the node's epoch begins.
THEOREM EpochsAreACalendar == Spec => []EpochsInv
  BY EpochsInit, EpochsNext, PTL DEF Spec

------------------------------------------------------------------------------
(***************************************************************************)
(* Pools take turns.                                                       *)
(***************************************************************************)
\* The image of a finite set is finite, and as large if the function is
\* injective.
LEMMA ImageIsFinite ==
  ASSUME NEW S, IsFiniteSet(S), NEW f
  PROVE  LET T == {f[x] : x \in S}
         IN  /\ IsFiniteSet(T) /\ Cardinality(T) <= Cardinality(S)
             /\ (\A x, y \in S : f[x] = f[y] => x = y) => Cardinality(T) = Cardinality(S)
  <1> DEFINE T == {f[x] : x \in S}
             g == [x \in S |-> f[x]]
  <1>1. g \in Surjection(S, T)
    BY DEF Surjection
  <1>2. /\ IsFiniteSet(T) /\ Cardinality(T) <= Cardinality(S)
        /\ Cardinality(T) = Cardinality(S) <=> g \in Injection(S, T)
    BY <1>1, FS_Surjection, Zenon
  <1>3. ASSUME \A x, y \in S : f[x] = f[y] => x = y PROVE g \in Injection(S, T)
    BY <1>3 DEF Injection, IsInjective
  <1> QED
    BY <1>2, <1>3

LEMMA PoolTypes ==
  /\ Pools \subseteq Nat \ {0}
  /\ \A regs \in Registrations :
       {r.main : r \in regs} \subseteq Pools /\ IsFiniteSet({r.main : r \in regs})
  <1>1. Pools \subseteq Nat \ {0}
    BY ReportsAssumption DEF Pools
  <1>2. ASSUME NEW regs \in Registrations
        PROVE  {r.main : r \in regs} \subseteq Pools /\ IsFiniteSet({r.main : r \in regs})
    <2> DEFINE f == [r \in regs |-> r.main]
    <2>1. {r.main : r \in regs} \subseteq Pools
      BY DEF Pools
    <2>2. {f[r] : r \in regs} = {r.main : r \in regs}
      OBVIOUS
    <2>3. IsFiniteSet(regs)
      BY ReportsAssumption, Zenon
    <2>4. IsFiniteSet({f[r] : r \in regs})
      BY <2>3, ImageIsFinite, Zenon
    <2> QED
      BY <2>1, <2>2, <2>4
  <1> QED
    BY <1>1, <1>2, Zenon

LEMMA RefreshInit == Init => RefreshInv
  <1> SUFFICES ASSUME Init PROVE RefreshInv
    OBVIOUS
  <1>1. Known = {}
    BY DEF Init, Known
  <1>2. /\ cursor = 0 /\ saved = FALSE /\ page = <<>> /\ listed = {}
        /\ snapshots = {} /\ due = [p \in Pools |-> {}]
    BY DEF Init, NoPool
  <1>3. /\ due \in [Pools -> SUBSET listed] /\ snapshots \subseteq Known
        /\ \A p \in Pools : due[p] = {}
    BY <1>2
  <1>4. page \in Seq(Pools) /\ DOMAIN page = {} /\ cursor \in Nat
    BY <1>2
  <1> QED
    BY <1>1, <1>2, <1>3, <1>4, FS_EmptySet, Zenon DEF RefreshInv

\* A page of the listing is a sequence over what is listed.
LEMMA ListingTypes ==
  ASSUME NEW S, IsFiniteSet(S), NEW s \in [1 .. Least(PageSize, Cardinality(S)) -> S]
  PROVE  s \in Seq(S) /\ DOMAIN s = 1 .. Len(s) /\ (S # {} => s # <<>>)
  <1>1. Cardinality(S) \in Nat /\ PageSize \in Nat \ {0} /\ (S # {} => Cardinality(S) # 0)
    BY FS_CardinalityType, FS_EmptySet, PageAssumption
  <1>2. Least(PageSize, Cardinality(S)) \in Nat /\ (S # {} => Least(PageSize, Cardinality(S)) >= 1)
    BY <1>1 DEF Least
  <1> QED
    BY <1>2

\* The refresh task lists known pools: all from the start, or those after the
\* cursor.
LEMMA PageListed ==
  ASSUME RefreshInv, ReadPage
  PROVE  \E S \in SUBSET Known :
           /\ IsFiniteSet(S) /\ S # {}
           /\ \/ S = Known /\ (cursor = NoPool \/ \A p \in Known : p <= cursor) /\ page' \in PoolIds
              \/ S = {p \in Known : p > cursor} /\ page' \in PoolIdsAfter(cursor)
           /\ page' \in Seq(S) /\ page' # <<>> /\ DOMAIN page' = 1 .. Len(page')
  <1> USE DEF ReadPage
  <1>1. IsFiniteSet(Known) /\ Known # {} /\ Known \subseteq Nat /\ cursor \in Nat
    BY PoolTypes DEF RefreshInv
  <1>2. CASE cursor = NoPool \/ \A p \in Known : p <= cursor
    <2>1. page' \in PoolIds
      BY <1>2, Zenon
    <2>2. page' \in [1 .. Least(PageSize, Cardinality(Known)) -> Known]
      BY <2>1, Zenon DEF PoolIds, Listings
    <2>3. page' \in Seq(Known) /\ page' # <<>> /\ DOMAIN page' = 1 .. Len(page')
      BY <2>2, <1>1, ListingTypes, Zenon
    <2> QED
      BY <1>1, <1>2, <2>1, <2>3
  <1>3. CASE ~(cursor = NoPool \/ \A p \in Known : p <= cursor)
    <2> DEFINE S == {p \in Known : p > cursor}
    <2>1. page' \in PoolIdsAfter(cursor)
      BY <1>3, Zenon
    <2>2. page' \in [1 .. Least(PageSize, Cardinality(S)) -> S]
      BY <2>1, Zenon DEF PoolIdsAfter, Pages, Listings
    <2>3. IsFiniteSet(S) /\ S \in SUBSET Known
      BY <1>1, FS_Subset
    <2>4. S # {}
      BY <1>1, <1>3
    <2>5. page' \in Seq(S) /\ page' # <<>> /\ DOMAIN page' = 1 .. Len(page')
      BY <2>2, <2>3, <2>4, ListingTypes, Zenon
    <2> QED
      BY <2>1, <2>3, <2>4, <2>5
  <1> QED
    BY <1>2, <1>3

LEMMA ReadPageRefresh ==
  ASSUME RefreshInv, ReadPage
  PROVE  RefreshInv'
  <1>1. PICK S \in SUBSET Known : page' \in Seq(S) /\ DOMAIN page' = 1 .. Len(page')
    BY PageListed, Zenon
  <1>2. listed' = Known /\ UNCHANGED <<updated, cursor, snapshots, due>> /\ page = <<>> /\ saved' = saved
    BY DEF ReadPage, tables
  <1>3. Known' = Known
    BY <1>2 DEF Known
  <1>4. Known \subseteq Pools /\ S \subseteq Pools
    BY DEF RefreshInv
  <1>5. page' \in Seq(Pools) /\ \A i \in DOMAIN page' : page'[i] \in Known
    BY <1>1, <1>4
  <1>6. saved = FALSE
    BY <1>2 DEF RefreshInv
  <1>7. due \in [Pools -> SUBSET Known] /\ \A p \in Pools : due[p] # {} => p \in Known
    BY DEF RefreshInv
  <1> QED
    BY <1>2, <1>3, <1>4, <1>5, <1>6, <1>7 DEF RefreshInv

LEMMA SaveStakeRefresh ==
  ASSUME RefreshInv, SaveStake
  PROVE  RefreshInv'
  <1> USE DEF SaveStake
  <1> DEFINE h == Head(page)
  <1>1. page \in Seq(Pools) /\ page # <<>> /\ \A i \in DOMAIN page : page[i] \in listed
    BY DEF RefreshInv
  <1>2. h = page[1] /\ 1 \in DOMAIN page
    BY <1>1
  <1>3. h \in listed /\ listed \subseteq Known /\ Known \subseteq Pools
    BY <1>1, <1>2 DEF RefreshInv
  <1>4. /\ due' = [q \in Pools |-> (IF q = h THEN listed ELSE due[q]) \ {h}]
        /\ snapshots' = snapshots \cup {h}
        /\ UNCHANGED <<updated, cursor, page, listed>> /\ saved' = TRUE
    BY Zenon DEF tables
  <1> HIDE DEF h
  <1>5. due' \in [Pools -> SUBSET listed]
    BY <1>3, <1>4 DEF RefreshInv
  <1>6. \A p \in Pools : due'[p] # {} => p \in listed
    BY <1>3, <1>4 DEF RefreshInv
  <1>7. snapshots' \subseteq Known
    BY <1>3, <1>4 DEF RefreshInv
  <1>8. Known' = Known
    BY <1>4 DEF Known
  <1> QED
    BY <1>1, <1>4, <1>5, <1>6, <1>7, <1>8 DEF RefreshInv

LEMMA AdvanceRefresh ==
  ASSUME RefreshInv, AdvanceCursor
  PROVE  RefreshInv'
  <1> USE DEF AdvanceCursor
  <1> DEFINE h == Head(page)
  <1>1. page \in Seq(Pools) /\ page # <<>> /\ \A i \in DOMAIN page : page[i] \in listed
    BY DEF RefreshInv
  <1>2. h = page[1] /\ 1 \in DOMAIN page /\ h \in Pools
    BY <1>1
  <1>3. h \in Nat
    BY <1>2, PoolTypes, SMTT(30)
  <1>4. /\ page' = Tail(page) /\ cursor' = h /\ saved' = FALSE
        /\ due' = [q \in Pools |-> due[q] \ {h}]
        /\ UNCHANGED <<updated, listed, snapshots>>
    BY Zenon DEF tables
  <1>5. page' \in Seq(Pools) /\ \A i \in DOMAIN page' : page'[i] \in listed
    BY <1>1, <1>4
  <1> HIDE DEF h
  <1>6. due' \in [Pools -> SUBSET listed] /\ \A p \in Pools : due'[p] # {} => p \in listed
    BY <1>2, <1>4 DEF RefreshInv
  <1>7. Known' = Known
    BY <1>4 DEF Known
  <1> QED
    BY <1>3, <1>4, <1>5, <1>6, <1>7, Zenon DEF RefreshInv

LEMMA SaveEpochRefresh ==
  ASSUME EpochsInv, RefreshInv, SaveEpoch
  PROVE  RefreshInv'
  <1>1. PICK n \in (FirstEpoch - 1) .. EpochAt(now) : SavedUpTo(n)
    BY Zenon DEF EpochsInv
  <1>2. n \in Int
    OBVIOUS
  <1>3. PICK regs \in Registrations :
          /\ updated' = [p \in Known \cup {r.main : r \in regs} |->
                           IF p \in {r.main : r \in regs} THEN n + 1 ELSE updated[p]]
          /\ UNCHANGED <<cursor, refresh>>
    BY <1>1, <1>2, SavedFacts, Zenon
  <1>4. Known' = Known \cup {r.main : r \in regs}
    BY <1>3 DEF Known
  <1>5. Known' \subseteq Pools /\ IsFiniteSet(Known') /\ Known \subseteq Known'
    BY <1>4, PoolTypes, FS_Union, Zenon DEF RefreshInv
  <1> QED
    BY <1>3, <1>5 DEF RefreshInv, refresh

LEMMA RefreshNext == EpochsInv /\ RefreshInv /\ [Next]_vars => RefreshInv'
  <1> SUFFICES ASSUME EpochsInv, RefreshInv, [Next]_vars PROVE RefreshInv'
    OBVIOUS
  <1>1. CASE ReadPage
    BY <1>1, ReadPageRefresh
  <1>2. CASE SaveStake
    BY <1>2, SaveStakeRefresh
  <1>3. CASE AdvanceCursor
    BY <1>3, AdvanceRefresh
  <1>4. CASE SaveEpoch
    BY <1>4, SaveEpochRefresh
  <1>5. CASE AbandonPage \/ Stop
    <2>1. /\ page' = <<>> /\ saved' = FALSE /\ due' = Forgiven
          /\ UNCHANGED <<updated, cursor, snapshots, listed>>
      BY <1>5 DEF AbandonPage, Stop, tables
    <2>2. Known' = Known /\ page' \in Seq(Pools) /\ DOMAIN page' = {}
      BY <2>1 DEF Known
    <2>3. due' \in [Pools -> SUBSET listed] /\ \A p \in Pools : due'[p] # {} => p \in listed
      BY <2>1 DEF RefreshInv, Forgiven
    <2> QED
      BY <2>1, <2>2, <2>3, Zenon DEF RefreshInv
  <1>6. CASE FetchEpoch \/ Start \/ Tick \/ UNCHANGED vars
    <2>1. UNCHANGED <<updated, cursor, refresh>>
      BY <1>6 DEF FetchEpoch, Start, Tick, tables, vars
    <2> QED
      BY <2>1 DEF RefreshInv, refresh, Known
  <1> QED
    BY <1>1, <1>2, <1>3, <1>4, <1>5, <1>6, Zenon DEF Next, EpochTask, RefreshTask

LEMMA TurnInit == Init => TurnInv
  <1> SUFFICES ASSUME Init PROVE TurnInv
    OBVIOUS
  <1>1. Known = {} /\ page = <<>> /\ Len(page) = 0 /\ \A p \in Pools : due[p] = {}
    BY DEF Init, Known
  <1>2. 1 .. (Len(page) - 1) = {}
    BY <1>1
  <1>3. \E n \in Int : \A p \in Known : updated[p] = n
    BY <1>1
  <1> QED
    BY <1>1, <1>2, <1>3, Zenon DEF TurnInv

\* If every save touches all pools, get_pool_ids lists them in the order of
\* their ids, as get_pool_ids_after does.
LEMMA ListingOrder ==
  ASSUME RefreshInv, \E n \in Int : \A p \in Known : updated[p] = n, ReadPage,
         NEW S \in SUBSET Known, page' \in Seq(S),
         \/ S = Known /\ page' \in PoolIds
         \/ S = {p \in Known : p > cursor} /\ page' \in PoolIdsAfter(cursor)
  PROVE  /\ \A i, j \in DOMAIN page' : i < j => page'[i] < page'[j]
         /\ \A p \in S : \/ \E i \in DOMAIN page' : page'[i] = p
                         \/ \A i \in DOMAIN page' : page'[i] < p
  <1>1. \A i \in DOMAIN page' : page'[i] \in S
    OBVIOUS
  <1>2. CASE S = Known /\ page' \in PoolIds
    <2> DEFINE Before(p, q) == updated[p] > updated[q] \/ (updated[p] = updated[q] /\ p < q)
    <2>1. /\ \A i, j \in DOMAIN page' : i < j => Before(page'[i], page'[j])
          /\ \A p \in S : \/ \E i \in DOMAIN page' : page'[i] = p
                          \/ \A i \in DOMAIN page' : Before(page'[i], p)
      BY <1>2, Zenon DEF PoolIds, Listings
    <2>2. \A p, q \in S : Before(p, q) => p < q
      BY <1>2
    <2> HIDE DEF Before
    <2> QED
      BY <1>1, <2>1, <2>2, Zenon
  <1>3. CASE S = {p \in Known : p > cursor} /\ page' \in PoolIdsAfter(cursor)
    BY <1>3, Zenon DEF PoolIdsAfter, Pages, Listings
  <1> QED
    BY <1>2, <1>3

LEMMA ReadPageTurn ==
  ASSUME RefreshInv, TurnInv, ReadPage
  PROVE  TurnInv'
  <1>1. PICK S \in SUBSET Known :
          /\ \/ S = Known /\ (cursor = NoPool \/ \A p \in Known : p <= cursor) /\ page' \in PoolIds
             \/ S = {p \in Known : p > cursor} /\ page' \in PoolIdsAfter(cursor)
          /\ page' \in Seq(S) /\ page' # <<>> /\ DOMAIN page' = 1 .. Len(page')
    BY PageListed, Zenon
  <1>2. \E n \in Int : \A p \in Known : updated[p] = n
    BY Zenon DEF TurnInv
  <1>3. /\ \A i, j \in DOMAIN page' : i < j => page'[i] < page'[j]
        /\ \A p \in S : \/ \E i \in DOMAIN page' : page'[i] = p
                        \/ \A i \in DOMAIN page' : page'[i] < p
    BY <1>1, <1>2, ListingOrder, Zenon
  <1>4. listed' = Known /\ UNCHANGED <<updated, cursor, due, saved>> /\ page = <<>>
    BY DEF ReadPage, tables
  <1>5. saved = FALSE /\ saved' = FALSE /\ cursor \in Nat /\ Known \subseteq Nat /\ Known' = Known
    BY <1>4, PoolTypes DEF RefreshInv, Known
  <1>6. /\ Len(page') \in Nat \ {0} /\ Head(page') = page'[1] /\ 1 \in DOMAIN page'
        /\ \A i \in DOMAIN page' : page'[i] \in S
    BY <1>1
  <1>7. ASSUME NEW q \in S PROVE Head(page') <= q
    <2>1. q \in Nat /\ page'[1] \in Nat
      BY <1>5, <1>6, Zenon
    <2>2. ASSUME NEW i \in DOMAIN page', page'[i] = q PROVE page'[1] <= q
      <3>1. i = 1 \/ 1 < i
        BY <1>1, <1>6
      <3>2. page'[1] = q \/ page'[1] < q
        BY <3>1, <2>2, <1>3, <1>6, Zenon
      <3> QED
        BY <3>2, <2>1
    <2>3. (\A i \in DOMAIN page' : page'[i] < q) => page'[1] < q
      BY <1>6
    <2> QED
      BY <2>1, <2>2, <2>3, <1>3, <1>6
  <1>8. ASSUME NEW q \in Known PROVE ~Between(cursor, Head(page'), q)
    <2>1. q \in Nat /\ Head(page') \in S /\ Head(page') \in Nat
      BY <1>5, <1>6, Zenon
    <2>2. CASE S = Known /\ (cursor = NoPool \/ \A p \in Known : p <= cursor)
      <3>1. Head(page') <= q /\ Head(page') # 0
        BY <2>1, <2>2, <1>7, PoolTypes DEF RefreshInv
      <3>2. cursor = 0 \/ q <= cursor
        BY <2>2 DEF NoPool
      <3> QED
        BY <2>1, <3>1, <3>2, <1>5 DEF Between
    <2>3. CASE S = {p \in Known : p > cursor}
      <3>1. Head(page') > cursor /\ (q > cursor => Head(page') <= q)
        BY <2>1, <2>3, <1>7
      <3> QED
        BY <2>1, <3>1, <1>5 DEF Between
    <2> QED
      BY <1>1, <2>2, <2>3
  <1>9. ASSUME NEW i \in 1 .. (Len(page') - 1)
        PROVE  page'[i] < page'[i + 1] /\ \A q \in Known : ~(page'[i] < q /\ q < page'[i + 1])
    <2>1. i \in DOMAIN page' /\ i + 1 \in DOMAIN page' /\ i < i + 1
      BY <1>1, <1>6
    <2>2. page'[i] < page'[i + 1]
      BY <2>1, <1>3, Zenon
    <2>3. ASSUME NEW q \in Known, page'[i] < q, q < page'[i + 1] PROVE FALSE
      <3>1. q \in Nat /\ page'[i] \in S /\ page'[i + 1] \in S /\ page'[i] \in Nat /\ page'[i + 1] \in Nat
        BY <2>1, <1>5, <1>6, Zenon
      <3>2. q \in S
        BY <3>1, <2>3, <1>1, <1>5
      <3>3. PICK k \in DOMAIN page' : page'[k] = q
        BY <3>1, <3>2, <2>1, <2>3, <1>3
      <3>4. k \in Int /\ (k < i \/ k = i \/ k = i + 1 \/ i + 1 < k)
        BY <1>1, <1>6
      <3>5. ~(k < i) /\ k # i /\ k # i + 1 /\ ~(i + 1 < k)
        BY <3>1, <3>3, <2>1, <2>3, <1>3
      <3> QED
        BY <3>4, <3>5
    <2> QED
      BY <2>2, <2>3
  <1>10. \A p \in Pools : \A q \in due[p] : q # p /\ ~Passed(p, cursor, q)
    BY <1>5, Zenon DEF TurnInv
  <1> QED
    BY <1>2, <1>4, <1>5, <1>8, <1>9, <1>10, Zenon DEF TurnInv, Between, Passed

LEMMA SaveStakeTurn ==
  ASSUME RefreshInv, TurnInv, SaveStake
  PROVE  TurnInv'
  <1> USE DEF SaveStake
  <1> DEFINE h == Head(page)
  <1>1. /\ due' = [q \in Pools |-> (IF q = h THEN listed ELSE due[q]) \ {h}]
        /\ UNCHANGED <<updated, cursor, page, listed>> /\ ~saved /\ saved' = TRUE
    BY Zenon DEF tables
  <1>2. ASSUME NEW p \in Pools, ~(saved' /\ p = Head(page'))
        PROVE  \A q \in due'[p] : q # p /\ ~Passed(p, cursor', q)
    <2>1. p # h
      BY <1>1, <1>2
    <2>2. due'[p] \subseteq due[p]
      BY <2>1, <1>1, <1>2
    <2>3. \A q \in due[p] : q # p /\ ~Passed(p, cursor, q)
      BY <1>1, Zenon DEF TurnInv
    <2>4. cursor' = cursor
      BY <1>1, Zenon
    <2> QED
      BY <2>2, <2>3, <2>4, Zenon
  <1>3. Known' = Known
    BY <1>1 DEF Known
  <1>4. /\ \E n \in Int : \A p \in Known : updated[p] = n
        /\ page # <<>> => \A q \in listed : ~Between(cursor, Head(page), q)
        /\ \A i \in 1..(Len(page) - 1) :
             /\ page[i] < page[i + 1]
             /\ \A q \in listed : ~(page[i] < q /\ q < page[i + 1])
    BY Zenon DEF TurnInv
  <1> QED
    BY <1>1, <1>2, <1>3, <1>4 DEF TurnInv, Between, Passed

\* Between the cursor and the pool the refresh comes to next there is no pool
\* the page knows: whoever is passed at that pool was passed before, or is it.
LEMMA PassedBefore ==
  ASSUME NEW c \in Nat, NEW h \in Nat, NEW p \in Nat, NEW q \in Nat,
         ~Between(c, h, p), ~Between(c, h, q), p # h, q # h, Passed(p, h, q)
  PROVE  Passed(p, c, q)
  BY DEF Between, Passed

LEMMA AdvanceTurn ==
  ASSUME RefreshInv, TurnInv, AdvanceCursor
  PROVE  TurnInv'
  <1> DEFINE h == Head(page)
  <1>1. /\ cursor' = h /\ page' = Tail(page) /\ saved' = FALSE
        /\ due' = [q \in Pools |-> due[q] \ {h}]
        /\ UNCHANGED <<updated, listed>> /\ page # <<>>
    BY DEF AdvanceCursor, tables
  <1>2. /\ h = page[1] /\ 1 \in DOMAIN page /\ h \in Pools /\ h \in Nat /\ Pools \subseteq Nat /\ cursor \in Nat
        /\ Len(page') = Len(page) - 1 /\ Len(page) \in Nat
        /\ \A i \in 1 .. Len(page') : page'[i] = page[i + 1]
    <2>1. page \in Seq(Pools) /\ page # <<>> /\ cursor \in Nat
      BY <1>1, Zenon DEF RefreshInv
    <2>2. Pools \subseteq Nat
      BY PoolTypes
    <2> QED
      BY <1>1, <2>1, <2>2
  <1>3. /\ \A q \in listed : ~Between(cursor, h, q)
        /\ \A i \in 1..(Len(page) - 1) :
             /\ page[i] < page[i + 1]
             /\ \A q \in listed : ~(page[i] < q /\ q < page[i + 1])
    BY <1>1, Zenon DEF TurnInv
  <1>4. ASSUME page' # <<>> PROVE \A q \in listed : ~Between(h, Head(page'), q)
    <2>1. 1 \in 1 .. (Len(page) - 1) /\ Head(page') = page[2] /\ page' = Tail(page) /\ 1 + 1 = 2
      BY <1>1, <1>2, <1>4 DEF RefreshInv
    <2>2. h < Head(page') /\ \A q \in listed : ~(h < q /\ q < Head(page'))
      BY <2>1, <1>2, <1>3
    <2> QED
      BY <2>2 DEF Between
  <1>5. ASSUME NEW i \in 1 .. (Len(page') - 1)
        PROVE  page'[i] < page'[i + 1] /\ \A q \in listed : ~(page'[i] < q /\ q < page'[i + 1])
    <2>1. i + 1 \in 1 .. (Len(page) - 1) /\ page'[i] = page[i + 1] /\ page'[i + 1] = page[(i + 1) + 1]
      BY <1>2
    <2> QED
      BY <2>1, <1>3, Zenon
  <1>6. ASSUME NEW p \in Pools, NEW q \in due'[p]
        PROVE  q # p /\ ~Passed(p, h, q)
    <2>1. q \in due[p] /\ q # h
      BY <1>1, <1>6
    <2>2. p \in listed /\ q \in listed /\ p \in Nat /\ q \in Nat
      <3>1. due[p] \subseteq listed /\ (due[p] # {} => p \in listed) /\ listed \subseteq Pools
        BY DEF RefreshInv
      <3> QED
        BY <1>2, <2>1, <3>1
    <2>3. CASE p = h
      BY <1>2, <2>1, <2>2, <2>3 DEF Passed
    <2>4. CASE p # h
      <3>1. ~Between(cursor, h, p) /\ ~Between(cursor, h, q)
        BY <1>3, <2>2, Zenon
      <3>2. q # p /\ ~Passed(p, cursor, q)
        BY <2>1, <2>4, Zenon DEF TurnInv
      <3> QED
        BY <1>2, <2>1, <2>2, <2>4, <3>1, <3>2, PassedBefore, Zenon
    <2> QED
      BY <2>3, <2>4
  <1>7. Known' = Known /\ \E n \in Int : \A p \in Known : updated[p] = n
    BY <1>1, Zenon DEF Known, TurnInv
  <1> HIDE DEF h
  <1> QED
    BY <1>1, <1>4, <1>5, <1>6, <1>7 DEF TurnInv, Between, Passed

LEMMA SaveEpochTurn ==
  ASSUME EpochsInv, RefreshInv, TurnInv, SaveEpoch, ~departing
  PROVE  TurnInv'
  <1>1. PICK n \in (FirstEpoch - 1)..EpochAt(now) : SavedUpTo(n)
    BY Zenon DEF EpochsInv
  <1>2. n \in Int
    OBVIOUS
  <1>3. PICK regs \in Registrations :
          /\ Known \subseteq {r.main : r \in regs}
          /\ updated' = [p \in Known \cup {r.main : r \in regs} |->
                           IF p \in {r.main : r \in regs} THEN n + 1 ELSE updated[p]]
          /\ UNCHANGED <<cursor, refresh>>
    BY <1>2, <1>1, SavedFacts, Zenon
  <1>4. n + 1 \in Int
    OBVIOUS
  <1>5. \A p \in Known' : updated'[p] = n + 1
    BY <1>3 DEF Known
  <1>6. UNCHANGED <<cursor, page, listed, due, saved>>
    BY <1>3 DEF refresh
  <1>7. /\ page # <<>> => \A q \in listed : ~Between(cursor, Head(page), q)
        /\ \A i \in 1..(Len(page) - 1) :
             /\ page[i] < page[i + 1]
             /\ \A q \in listed : ~(page[i] < q /\ q < page[i + 1])
        /\ \A p \in Pools :
             ~(saved /\ p = Head(page)) => \A q \in due[p] : q # p /\ ~Passed(p, cursor, q)
    BY Zenon DEF TurnInv
  <1> QED
    BY <1>4, <1>5, <1>6, <1>7 DEF TurnInv, Between, Passed

LEMMA DropPageTurn ==
  ASSUME RefreshInv, TurnInv, page' = <<>>, saved' = FALSE,
         due' = Forgiven, UNCHANGED <<updated, cursor, listed>>
  PROVE  TurnInv'
  <1>1. Known' = Known /\ \E n \in Int : \A p \in Known : updated[p] = n
    BY Zenon DEF Known, TurnInv
  <1>2. 1 .. (Len(page') - 1) = {}
    OBVIOUS
  <1>3. ASSUME NEW p \in Pools PROVE \A q \in due'[p] : q # p /\ ~Passed(p, cursor, q)
    <2>1. CASE saved /\ p = Head(page)
      BY <2>1 DEF Forgiven, RefreshInv
    <2>2. CASE ~(saved /\ p = Head(page))
      <3>1. due'[p] = due[p]
        BY <2>2 DEF Forgiven, RefreshInv
      <3> QED
        BY <2>2, <3>1, Zenon DEF TurnInv
    <2> QED
      BY <2>1, <2>2
  <1> QED
    BY <1>1, <1>2, <1>3 DEF TurnInv, Passed

LEMMA TurnNext ==
  ASSUME EpochsInv, RefreshInv, TurnInv, [Next]_vars, ~departing
  PROVE  TurnInv'
  <1>1. CASE ReadPage
    BY <1>1, ReadPageTurn
  <1>2. CASE SaveStake
    BY <1>2, SaveStakeTurn
  <1>3. CASE AdvanceCursor
    BY <1>3, AdvanceTurn
  <1>4. CASE SaveEpoch
    BY <1>4, SaveEpochTurn
  <1>5. CASE AbandonPage \/ Stop
    <2>1. page' = <<>> /\ saved' = FALSE /\ due' = Forgiven /\ UNCHANGED <<updated, cursor, listed>>
      BY <1>5 DEF AbandonPage, Stop, tables
    <2> QED
      BY <2>1, DropPageTurn, Zenon
  <1>6. CASE FetchEpoch \/ Start \/ Tick \/ UNCHANGED vars
    <2>1. UNCHANGED <<updated, cursor, page, listed, due, saved>>
      BY <1>6, SMTT(30) DEF FetchEpoch, Start, Tick, tables, vars, refresh
    <2> QED
      BY <2>1 DEF TurnInv, Known, Between, Passed
  <1> QED
    BY <1>1, <1>2, <1>3, <1>4, <1>5, <1>6, Zenon DEF Next, EpochTask, RefreshTask

LEMMA DepartingStays == [Next]_vars => departing' = departing
  BY DEF Next, EpochTask, RefreshTask, FetchEpoch, SaveEpoch, ReadPage, SaveStake, AdvanceCursor,
         AbandonPage, Stop, Start, Tick, vars

\* The row SaveStake appends comes after a whole round.
LEMMA ARoundIsOver ==
  ASSUME RefreshInv, TurnInv, SaveStake, NEW p \in Pools, p = Head(page)
  PROVE  due[p] = {}
  <1>1. /\ ~saved /\ page # <<>> /\ p \in Nat /\ cursor \in Nat
        /\ p \in listed /\ due[p] \subseteq listed /\ \A q \in due[p] : q \in Nat
    BY PoolTypes DEF SaveStake, RefreshInv
  <1>2. ASSUME NEW q \in due[p] PROVE FALSE
    <2>0. q # p /\ ~Passed(p, cursor, q)
      BY <1>1, <1>2, Zenon DEF TurnInv
    <2>1. q \in Nat /\ ~Between(cursor, p, p) /\ ~Between(cursor, p, q)
      BY <1>1, Zenon DEF TurnInv
    <2> QED
      BY <1>1, <2>0, <2>1 DEF Between, Passed
  <1> QED
    BY <1>2, Zenon

\* refresh_stake_snapshots takes the pools in turn, whatever their number, the
\* page size, and the order in which pages, saves, failures and restarts
\* interleave, as long as no registered pool is missing from a later report: it
\* appends a second row for a pool only after it has visited every other pool
\* that was known when the page of the first was read.
THEOREM PoolsAlwaysTakeTurns == Spec => PoolsTakeTurns
  <1> DEFINE Inv == EpochsInv /\ RefreshInv /\ (~departing => TurnInv)
  <1>1. Init => Inv
    BY EpochsInit, RefreshInit, TurnInit
  <1>2. Inv /\ [Next]_vars => Inv'
    <2>1. [Next]_vars => departing' = departing
      BY DepartingStays
    <2>2. Inv /\ [Next]_vars => EpochsInv' /\ RefreshInv'
      BY EpochsNext, RefreshNext, Zenon
    <2>3. ASSUME Inv, [Next]_vars, ~departing' PROVE TurnInv'
      <3>1. ~departing
        BY <2>1, <2>3
      <3> QED
        BY <2>3, <3>1, TurnNext, Zenon
    <2> QED
      BY <2>2, <2>3, Zenon
  <1>3. Inv /\ [Next]_vars =>
          [\A p \in Pools : ~departing /\ SaveStake /\ p = Head(page) => due[p] = {}]_vars
    BY ARoundIsOver, Zenon
  <1> QED
    BY <1>1, <1>2, <1>3, PTL DEF Spec, PoolsTakeTurns

------------------------------------------------------------------------------
(***************************************************************************)
(* Tables.                                                                 *)
(***************************************************************************)
LEMMA TablesInit == Init => TablesInv
  <1> SUFFICES ASSUME Init PROVE TablesInv
    OBVIOUS
  <1>1. Known = {} /\ DOMAIN membership = {} /\ identities = {} /\ history = {} /\ performance = {}
    BY DEF Init, Known
  <1> QED
    BY <1>1, FS_EmptySet, Zenon DEF TablesInv

\* save_spo keeps the keys unique, and leaves out only what would break that.
LEMMA NewIdentities ==
  ASSUME TablesInv, NEW regs \in Registrations, NEW ids \in SavedIdentities(regs)
  PROVE  /\ identities \subseteq ids /\ ids \subseteq UNION Registrations
         /\ \A i, j \in ids : i.sk = j.sk \/ i.main = j.main => i = j
         /\ \A r \in regs : \/ \E i \in ids : i.main = r.main
                            \/ \E i \in ids : i.main # r.main /\ SharesKey(r, i)
  <1>1. /\ ids \subseteq identities \cup regs /\ identities \subseteq ids
        /\ \A r \in ids \ identities : ~Clashes(r, ids \ {r})
        /\ \A r \in regs \ ids : Clashes(r, ids)
    BY Zenon DEF SavedIdentities
  <1>2. ids \subseteq UNION Registrations
    BY <1>1 DEF TablesInv
  <1>3. ASSUME NEW i \in ids, NEW j \in ids, i.sk = j.sk \/ i.main = j.main PROVE i = j
    <2>1. CASE i \in identities /\ j \in identities
      BY <2>1, <1>3, Zenon DEF TablesInv
    <2>2. CASE i \notin identities
      BY <2>2, <1>1, <1>3, Zenon DEF Clashes
    <2>3. CASE j \notin identities
      BY <2>3, <1>1, <1>3, Zenon DEF Clashes
    <2> QED
      BY <2>1, <2>2, <2>3
  <1>4. ASSUME NEW r \in regs
        PROVE  \/ \E i \in ids : i.main = r.main
               \/ \E i \in ids : i.main # r.main /\ SharesKey(r, i)
    <2>1. CASE r \in ids
      BY <2>1
    <2>2. CASE r \notin ids
      <3>1. PICK i \in ids : i.sk = r.sk \/ i.main = r.main \/ i.aura = r.aura
        BY <2>2, <1>1, Zenon DEF Clashes
      <3> QED
        BY <3>1, Zenon DEF SharesKey
    <2> QED
      BY <2>1, <2>2
  <1> QED
    BY <1>1, <1>2, <1>3, <1>4, Zenon

\* save_spo_history gives each reported key with an identity one status.
OneStatus(rows, regs, ids, e) ==
  /\ IsFiniteSet(rows)
  /\ \A h \in rows : h.epoch_no = e /\ h.valid \in BOOLEAN /\ \E i \in ids : i.sk = h.sk
  /\ \A g, h \in rows : g.sk = h.sk => g.valid = h.valid
  /\ \A r \in regs, i \in ids : r.sk = i.sk => \E h \in rows : h.sk = r.sk /\ h.epoch_no = e

LEMMA NewHistory ==
  ASSUME NEW regs \in Registrations, NEW ids, NEW e, NEW rows \in HistoryRows(regs, ids, e)
  PROVE  OneStatus(rows, regs, ids, e)
  <1> DEFINE sks == {r.sk : r \in regs} \cap {r.sk : r \in ids}
  <1>1. PICK s \in [sks -> BOOLEAN] : rows = {[sk |-> sk, epoch_no |-> e, valid |-> s[sk]] : sk \in sks}
    BY Zenon DEF HistoryRows
  <1>2. IsFiniteSet(sks)
    <2> DEFINE f == [r \in regs |-> r.sk]
    <2>1. IsFiniteSet(regs)
      BY ReportsAssumption, Zenon
    <2>2. sks \subseteq {f[r] : r \in regs}
      OBVIOUS
    <2> HIDE DEF f, sks
    <2>3. IsFiniteSet({f[r] : r \in regs})
      BY <2>1, ImageIsFinite, Zenon
    <2> QED
      BY <2>2, <2>3, FS_Subset, Zenon
  <1>3. \A sk \in sks : \E i \in ids : i.sk = sk
    OBVIOUS
  <1>4. \A r \in regs, i \in ids : r.sk = i.sk => r.sk \in sks
    OBVIOUS
  <1> HIDE DEF sks
  <1>5. IsFiniteSet(rows)
    <2> DEFINE g == [sk \in sks |-> [sk |-> sk, epoch_no |-> e, valid |-> s[sk]]]
    <2>1. {g[sk] : sk \in sks} = rows
      BY <1>1
    <2>2. IsFiniteSet({g[sk] : sk \in sks})
      BY <1>2, ImageIsFinite, ZenonT(30)
    <2> QED
      BY <2>1, <2>2, Zenon
  <1>6. \A h \in rows : h.epoch_no = e /\ h.valid \in BOOLEAN /\ h.sk \in sks /\ h.valid = s[h.sk]
    BY <1>1
  <1>7. ASSUME NEW sk \in sks PROVE \E h \in rows : h.sk = sk /\ h.epoch_no = e
    <2> DEFINE h == [sk |-> sk, epoch_no |-> e, valid |-> s[sk]]
    <2>1. h \in rows /\ h.sk = sk /\ h.epoch_no = e
      BY <1>1
    <2> QED
      BY <2>1, Zenon
  <1>8. \A g, h \in rows : g.sk = h.sk => g.valid = h.valid
    BY <1>6
  <1>9. \A h \in rows : h.epoch_no = e /\ h.valid \in BOOLEAN /\ \E i \in ids : i.sk = h.sk
    BY <1>3, <1>6, Zenon
  <1>10. \A r \in regs, i \in ids : r.sk = i.sk => \E h \in rows : h.sk = r.sk /\ h.epoch_no = e
    BY <1>4, <1>7, Zenon
  <1> QED
    BY <1>5, <1>8, <1>9, <1>10, Zenon DEF OneStatus

\* get_expected_blocks and committee_to_membership share the remainder out
\* differently, but each gives a seat the quotient or one more.
LEMMA SeatsAndBlocks ==
  ASSUME NEW c \in Committees \cup {<<>>}, NEW n \in Int, NEW i \in DOMAIN c,
         NEW epoch, epoch.starts = StartOf(n), epoch.ends = StartOf(n + 1)
  PROVE  Seats(c)[i].slots - ExpectedBlocks(epoch, c, i) \in {-1, 0, 1}
  <1> DEFINE d == SlotsPerEpoch \div Len(c)
             a == IF SlotsPerEpoch % Len(c) > i - 1 THEN 1 ELSE 0
             b == IF i - 1 < (SlotDuration * SlotsPerEpoch) % Len(c) THEN 1 ELSE 0
  <1>1. Len(c) \in Nat \ {0} /\ SlotsPerEpoch \in Nat \ {0}
    BY ReportsAssumption, ConstantTypes
  <1>2. d \in Int
    BY <1>1, Division
  <1>3. epoch.ends - epoch.starts = SlotsPerEpoch
    BY <1>1 DEF StartOf
  <1>4. Seats(c)[i].slots = d + a
    BY DEF Seats, ExpectedSlots
  <1>5. ExpectedBlocks(epoch, c, i) = d + b
    BY <1>1, <1>3 DEF ExpectedBlocks
  <1>6. a \in {0, 1} /\ b \in {0, 1}
    BY ZenonT(30)
  <1> HIDE DEF d, a, b
  <1> QED
    BY <1>2, <1>4, <1>5, <1>6

LEMMA NewPerformance ==
  ASSUME NEW c \in Committees \cup {<<>>}, NEW regs \in Registrations, NEW n \in Int,
         fetched = <<[epoch |-> [epoch_no |-> n + 1, starts |-> StartOf(n), ends |-> StartOf(n + 1)],
                      committee |-> c, regs |-> regs]>>,
         NEW ids, NEW f \in PerformanceRows(ids)
  PROVE  /\ f.epoch_no = n + 1
         /\ \E r \in regs, i \in ids : r.sk = f.sk /\ i.sk = f.sk
         /\ \E k \in DOMAIN Seats(c) : Seats(c)[k].sk = f.sk /\ Seats(c)[k].slots - f.expected \in {-1, 0, 1}
  <1> DEFINE ep == fetched[1].epoch
  <1>1. /\ ep.epoch_no = n + 1 /\ ep.starts = StartOf(n) /\ ep.ends = StartOf(n + 1)
        /\ fetched[1].committee = c /\ fetched[1].regs = regs
    OBVIOUS
  <1>2. PICK j \in DOMAIN fetched[1].committee :
          /\ {r \in fetched[1].regs : r.sk = fetched[1].committee[j]} # {}
          /\ \E r \in ids : r.sk = fetched[1].committee[j]
          /\ f = [sk |-> fetched[1].committee[j], epoch_no |-> fetched[1].epoch.epoch_no,
                  expected |-> ExpectedBlocks(fetched[1].epoch, fetched[1].committee, j),
                  produced |-> Cardinality({r \in fetched[1].regs : r.sk = fetched[1].committee[j]})]
    BY ZenonT(30) DEF PerformanceRows
  <1>3. j \in DOMAIN c /\ f.sk = c[j] /\ f.epoch_no = n + 1 /\ f.expected = ExpectedBlocks(ep, c, j)
    BY <1>1, <1>2
  <1>4. DOMAIN Seats(c) = DOMAIN c /\ Seats(c)[j].sk = c[j]
    BY <1>3 DEF Seats
  <1>5. Seats(c)[j].slots - f.expected \in {-1, 0, 1}
    BY <1>1, <1>3, SeatsAndBlocks, Zenon
  <1>6. \E k \in DOMAIN Seats(c) : Seats(c)[k].sk = f.sk /\ Seats(c)[k].slots - f.expected \in {-1, 0, 1}
    BY <1>3, <1>4, <1>5, ZenonT(30)
  <1>7. fetched[1].committee[j] = f.sk
    BY <1>1, <1>3, Zenon
  <1>8. PICK r \in fetched[1].regs : r.sk = fetched[1].committee[j]
    BY <1>2, Zenon
  <1>9. PICK i \in ids : i.sk = fetched[1].committee[j]
    BY <1>2, Zenon
  <1>10. r \in regs /\ r.sk = f.sk /\ i.sk = f.sk
    BY <1>1, <1>7, <1>8, <1>9, Zenon
  <1> QED
    BY <1>3, <1>6, <1>9, <1>10, Zenon

LEMMA SaveEpochTables ==
  ASSUME EpochsInv, TablesInv, SaveEpoch
  PROVE  TablesInv'
  <1>1. PICK n \in (FirstEpoch - 1) .. EpochAt(now) : SavedUpTo(n)
    BY Zenon DEF EpochsInv
  <1>2. n \in Int
    OBVIOUS
  <1>3. PICK c \in Committees \cup {<<>>}, regs \in Registrations :
          /\ fetched = <<[epoch |-> [epoch_no |-> n + 1, starts |-> StartOf(n), ends |-> StartOf(n + 1)],
                          committee |-> c, regs |-> regs]>>
          /\ n < EpochAt(now)
          /\ departing \/ Known \subseteq {r.main : r \in regs}
          /\ \E ids \in SavedIdentities(regs) :
               /\ identities' = ids
               /\ \E rows \in HistoryRows(regs, ids, n + 1) : history' = history \cup rows
               /\ performance' = performance \cup PerformanceRows(ids)
          /\ epochs' = [e \in DOMAIN epochs \cup {n + 1} |->
                          IF e = n + 1 THEN [starts |-> StartOf(n), ends |-> StartOf(n + 1)] ELSE epochs[e]]
          /\ membership' = [e \in DOMAIN epochs \cup {n + 1} |->
                              IF e = n + 1 THEN Seats(c) ELSE membership[e]]
          /\ updated' = [p \in Known \cup {r.main : r \in regs} |->
                           IF p \in {r.main : r \in regs} THEN n + 1 ELSE updated[p]]
          /\ fetched' = <<>>
          /\ UNCHANGED <<now, cursor, running, refresh>>
    BY <1>1, <1>2, SavedFacts, Zenon
  <1>4. PICK ids \in SavedIdentities(regs) :
          /\ identities' = ids
          /\ \E rows \in HistoryRows(regs, ids, n + 1) : history' = history \cup rows
          /\ performance' = performance \cup PerformanceRows(ids)
    BY <1>3, Zenon
  <1>5. PICK rows \in HistoryRows(regs, ids, n + 1) : history' = history \cup rows
    BY <1>4, Zenon
  <1>6. /\ identities \subseteq ids /\ ids \subseteq UNION Registrations
        /\ \A i, j \in ids : i.sk = j.sk \/ i.main = j.main => i = j
        /\ \A r \in regs : \/ \E i \in ids : i.main = r.main
                           \/ \E i \in ids : i.main # r.main /\ SharesKey(r, i)
    BY NewIdentities, Zenon
  <1>7. /\ IsFiniteSet(rows)
        /\ \A h \in rows : h.epoch_no = n + 1 /\ h.valid \in BOOLEAN /\ \E i \in ids : i.sk = h.sk
        /\ \A g, h \in rows : g.sk = h.sk => g.valid = h.valid
        /\ \A r \in regs, i \in ids : r.sk = i.sk => \E h \in rows : h.sk = r.sk /\ h.epoch_no = n + 1
    <2>1. OneStatus(rows, regs, ids, n + 1)
      BY NewHistory, Zenon
    <2> QED
      BY <2>1, Zenon DEF OneStatus
  <1>8. /\ DOMAIN epochs = DOMAIN membership /\ n + 1 \notin DOMAIN epochs
        /\ DOMAIN epochs' = DOMAIN epochs \cup {n + 1} /\ DOMAIN membership' = DOMAIN membership \cup {n + 1}
        /\ membership'[n + 1] = Seats(c)
        /\ \A e \in DOMAIN membership : membership'[e] = membership[e] /\ e # n + 1
    <2>1. DOMAIN epochs = FirstEpoch..n /\ DOMAIN membership = FirstEpoch..n
      BY <1>1 DEF SavedUpTo, Calendar
    <2>2. FirstEpoch \in Int /\ n + 1 \notin FirstEpoch..n
      BY ConstantTypes
    <2> QED
      BY <2>1, <2>2, <1>3, ZenonT(30)
  <1>9. \A sk : IdentitiesWith(sk)' = {i \in ids : i.sk = sk} /\ \A p : IdentitiesOf(p)' = {i \in ids : i.main = p}
    BY <1>4 DEF IdentitiesWith, IdentitiesOf
  <1>10. \A sk : IdentitiesWith(sk) # {} => {i \in ids : i.sk = sk} # {}
    BY <1>6 DEF IdentitiesWith
  <1>11. IsFiniteSet(history')
    BY <1>5, <1>7, FS_Union, Zenon DEF TablesInv
  <1>12. ASSUME NEW h \in history'
         PROVE  h.epoch_no \in DOMAIN epochs' /\ h.valid \in BOOLEAN /\ {i \in ids : i.sk = h.sk} # {}
    <2>1. CASE h \in history
      <3>1. h.epoch_no \in DOMAIN epochs /\ h.valid \in BOOLEAN /\ IdentitiesWith(h.sk) # {}
        BY <2>1, Zenon DEF TablesInv
      <3> QED
        BY <3>1, <1>8, <1>10, Zenon
    <2>2. CASE h \in rows
      BY <2>2, <1>7, <1>8, Zenon
    <2> QED
      BY <1>5, <2>1, <2>2, Zenon
  <1>13. ASSUME NEW g \in history', NEW h \in history', g.sk = h.sk, g.epoch_no = h.epoch_no
         PROVE  g.valid = h.valid
    <2>1. CASE g \in history /\ h \in history
      BY <2>1, <1>13, Zenon DEF TablesInv
    <2>2. CASE g \in rows /\ h \in rows
      BY <2>2, <1>7, <1>13, Zenon
    <2>3. \A k \in history : k.epoch_no # n + 1
      BY <1>8, Zenon DEF TablesInv
    <2> QED
      BY <1>5, <1>7, <1>13, <2>1, <2>2, <2>3, Zenon
  <1>14. \A e \in DOMAIN membership' : \E d \in Committees \cup {<<>>} : membership'[e] = Seats(d)
    <2>1. \A e \in DOMAIN membership : \E d \in Committees \cup {<<>>} : membership[e] = Seats(d)
      BY Zenon DEF TablesInv
    <2> QED
      BY <2>1, <1>8, Zenon
  <1>15. ASSUME NEW f \in performance'
         PROVE  /\ f.epoch_no \in DOMAIN membership'
                /\ \E k \in DOMAIN membership'[f.epoch_no] :
                     /\ membership'[f.epoch_no][k].sk = f.sk
                     /\ membership'[f.epoch_no][k].slots - f.expected \in {-1, 0, 1}
                /\ {i \in ids : i.sk = f.sk} # {}
                /\ \E h \in history' : h.sk = f.sk /\ h.epoch_no = f.epoch_no
    <2>1. CASE f \in performance
      <3>1. /\ f.epoch_no \in DOMAIN membership /\ IsSeatOf(f.epoch_no, f)
            /\ IdentitiesWith(f.sk) # {}
            /\ \E h \in history : h.sk = f.sk /\ h.epoch_no = f.epoch_no
        BY <2>1, Zenon DEF TablesInv
      <3>2. membership'[f.epoch_no] = membership[f.epoch_no] /\ f.epoch_no \in DOMAIN membership'
        BY <3>1, <1>8, Zenon
      <3>3. \E h \in history' : h.sk = f.sk /\ h.epoch_no = f.epoch_no
        BY <3>1, <1>5, ZenonT(30)
      <3> QED
        BY <3>1, <3>2, <3>3, <1>10, Zenon DEF IsSeatOf
    <2>2. CASE f \in PerformanceRows(ids)
      <3>1. /\ f.epoch_no = n + 1
            /\ \E r \in regs, i \in ids : r.sk = f.sk /\ i.sk = f.sk
            /\ \E k \in DOMAIN Seats(c) : Seats(c)[k].sk = f.sk /\ Seats(c)[k].slots - f.expected \in {-1, 0, 1}
        BY <1>2, <1>3, <2>2, NewPerformance, Zenon
      <3>2. f.epoch_no \in DOMAIN membership' /\ membership'[f.epoch_no] = Seats(c)
        BY <3>1, <1>8, Zenon
      <3>3. \E h \in history' : h.sk = f.sk /\ h.epoch_no = f.epoch_no
        BY <3>1, <1>5, <1>7
      <3> QED
        BY <3>1, <3>2, <3>3
    <2> QED
      BY <1>4, <2>1, <2>2, Zenon
  <1>16. ASSUME NEW p \in Known'
         PROVE  \/ {i \in ids : i.main = p} # {}
                \/ \E r \in UNION Registrations, i \in ids : r.main = p /\ i.main # p /\ SharesKey(r, i)
    <2>1. CASE p \in Known
      <3>1. IdentitiesOf(p) # {} \/ WasRefused(p)
        BY <2>1, Zenon DEF TablesInv
      <3>2. CASE IdentitiesOf(p) # {}
        BY <3>2, <1>6, ZenonT(30) DEF IdentitiesOf
      <3>3. CASE WasRefused(p)
        BY <3>3, <1>6, ZenonT(30) DEF WasRefused
      <3> QED
        BY <3>1, <3>2, <3>3, Zenon
    <2>2. CASE p \notin Known
      <3>1. PICK r \in regs : r.main = p
        BY <2>2, <1>3, Zenon DEF Known
      <3>2. r \in UNION Registrations
        OBVIOUS
      <3> QED
        BY <3>1, <3>2, <1>6, Zenon
    <2> QED
      BY <2>1, <2>2, ZenonT(30)
  <1>17. /\ \A f : IsSeatOf(f.epoch_no, f)' <=>
                      \E k \in DOMAIN membership'[f.epoch_no] :
                        /\ membership'[f.epoch_no][k].sk = f.sk
                        /\ membership'[f.epoch_no][k].slots - f.expected \in {-1, 0, 1}
         /\ \A p : WasRefused(p)' <=>
                      \E r \in UNION Registrations, i \in ids : r.main = p /\ i.main # p /\ SharesKey(r, i)
    BY <1>4, Zenon DEF IsSeatOf, WasRefused, SharesKey
  <1>18. \A f \in performance' : /\ f.epoch_no \in DOMAIN membership' /\ IsSeatOf(f.epoch_no, f)'
                                 /\ IdentitiesWith(f.sk)' # {}
                                 /\ \E h \in history' : h.sk = f.sk /\ h.epoch_no = f.epoch_no
    BY <1>9, <1>15, <1>17, Zenon
  <1>19. \A p \in Known' : IdentitiesOf(p)' # {} \/ WasRefused(p)'
    BY <1>9, <1>16, <1>17, Zenon
  <1>20. \A h \in history' : /\ h.epoch_no \in DOMAIN epochs' /\ h.valid \in BOOLEAN
                             /\ IdentitiesWith(h.sk)' # {}
    BY <1>9, <1>12, Zenon
  <1> QED
    BY <1>4, <1>6, <1>11, <1>13, <1>14, <1>18, <1>19, <1>20, ZenonT(30) DEF TablesInv

LEMMA TablesNext ==
  ASSUME EpochsInv, TablesInv, [Next]_vars
  PROVE  TablesInv'
  <1>1. CASE SaveEpoch
    BY <1>1, SaveEpochTables
  <1>2. CASE ~SaveEpoch
    <2>1. UNCHANGED tables
      BY <1>2, Zenon DEF Next, EpochTask, RefreshTask, FetchEpoch, ReadPage, SaveStake, AdvanceCursor, AbandonPage,
                  Stop, Start, Tick, vars
    <2> QED
      <3>1. UNCHANGED <<epochs, membership, identities, history, performance>> /\ Known' = Known
        BY <2>1 DEF tables, Known
      <3>2. /\ \A sk : IdentitiesWith(sk)' = IdentitiesWith(sk)
            /\ \A p : IdentitiesOf(p)' = IdentitiesOf(p)
        BY <3>1, Zenon DEF IdentitiesWith, IdentitiesOf
      <3>3. \A e, f : IsSeatOf(e, f)' <=> IsSeatOf(e, f)
        BY <3>1, Zenon DEF IsSeatOf
      <3>4. \A p : WasRefused(p)' <=> WasRefused(p)
        BY <3>1, Zenon DEF WasRefused, SharesKey
      <3> QED
        BY <3>1, <3>2, <3>3, <3>4, Zenon DEF TablesInv
  <1> QED
    BY <1>1, <1>2

------------------------------------------------------------------------------
(***************************************************************************)
(* Queries.                                                                *)
(***************************************************************************)
\* A set of natural numbers has a least member.
LEMMA MinOfNaturals ==
  ASSUME NEW T, T \subseteq Nat, T # {}
  PROVE  Min(T) \in T /\ \A n \in T : Min(T) <= n
  <1>1. PICK m \in T : \A n \in T : ~(<<n, m>> \in OpToRel(<, Nat))
    BY NatLessThanWellFounded, WFMin, Zenon
  <1>2. \A n \in T : ~(n < m)
    BY <1>1, Zenon DEF OpToRel
  <1>3. \A n \in T : m <= n
    BY <1>2
  <1> QED
    BY <1>3, Zenon DEF Min

\* Every saved epoch is followed by the same number of windows up to now.
LEMMA EpochInfoIs ==
  ASSUME EpochsInv, NEW last \in DOMAIN epochs
  PROVE  EpochInfo(last) = [epoch_no |-> EpochAt(now) + 1, duration |-> SlotsPerEpoch,
                            elapsed |-> now % SlotsPerEpoch]
  <1> DEFINE S == SlotsPerEpoch
             d == EpochAt(now)
             m == now % S
  <1>1. PICK n \in (FirstEpoch - 1) .. d : SavedUpTo(n)
    BY Zenon DEF EpochsInv
  <1>2. last \in FirstEpoch .. n /\ epochs[last].starts = StartOf(last - 1) /\ epochs[last].ends = StartOf(last)
    BY <1>1, Zenon DEF SavedUpTo, Calendar
  <1>3. S \in Nat \ {0} /\ now \in Nat /\ d \in Nat /\ m \in 0 .. (S - 1) /\ now = S * d + m
    <2>1. S \in Nat \ {0} /\ now \in Nat
      BY ConstantTypes DEF EpochsInv
    <2>2. d \in Nat
      BY <2>1, EpochAtTypes
    <2>3. d = now \div S
      BY DEF EpochAt
    <2> QED
      BY <2>1, <2>2, <2>3, Division
  <1>4. last \in Int /\ last <= d
    BY <1>2, <1>3, ConstantTypes
  <1> DEFINE ends == epochs[last].ends
             duration == ends - epochs[last].starts
             k == (now - ends) \div S
  <1>5. ends = last * S /\ duration = S
    BY <1>2, <1>3, <1>4 DEF StartOf
  <1>6. now - ends = S * (d - last) + m /\ now - ends \in Int
    BY <1>3, <1>4, <1>5
  <1>7. ~(ends > now)
    <2>1. S * (d - last) >= 0
      BY <1>3, <1>4
    <2> QED
      BY <2>1, <1>3, <1>4, <1>5, <1>6
  <1>8. k = d - last
    <2>1. d - last \in Int
      BY <1>3, <1>4
    <2> QED
      BY <2>1, <1>3, <1>6, DivisionIs
  <1>9. ends + ((k + 1) - 1) * S = S * d
    BY <1>3, <1>4, <1>5, <1>8
  <1>10. Least(Greatest(now - S * d, 0), S) = m
    BY <1>3 DEF Least, Greatest
  <1>11. last + (k + 1) = d + 1 /\ k + 1 # 0
    BY <1>3, <1>4, <1>8
  <1>12. EpochInfo(last) =
           LET n0 == IF ends > now THEN 0 ELSE (now - ends) \div duration + 1
               begin == IF n0 = 0 THEN epochs[last].starts ELSE ends + (n0 - 1) * duration
           IN  [epoch_no |-> last + n0, duration |-> duration,
                elapsed |-> Least(Greatest(now - begin, 0), duration)]
    BY Zenon DEF EpochInfo
  <1> HIDE DEF S, d, m, ends, duration
  <1>13. EpochInfo(last) = [epoch_no |-> last + (k + 1), duration |-> S,
                            elapsed |-> Least(Greatest(now - (ends + ((k + 1) - 1) * S), 0), S)]
    BY <1>5, <1>7, <1>11, <1>12
  <1> QED
    BY <1>9, <1>10, <1>11, <1>13 DEF d, m, S

LEMMA InfoKeepsPace == EpochsInv => EpochInfoKeepsPace
  <1> SUFFICES ASSUME EpochsInv, NEW last \in DOMAIN epochs
               PROVE  /\ EpochInfo(last).elapsed = now % SlotsPerEpoch
                      /\ \A other \in DOMAIN epochs : EpochInfo(other) = EpochInfo(last)
    BY Zenon DEF EpochInfoKeepsPace
  <1>1. EpochAt(now) \in Nat
    BY EpochAtTypes DEF EpochsInv
  <1>2. \A e \in DOMAIN epochs :
          EpochInfo(e) = [epoch_no |-> EpochAt(now) + 1, duration |-> SlotsPerEpoch,
                          elapsed |-> now % SlotsPerEpoch]
    BY EpochInfoIs, Zenon
  <1> QED
    BY <1>1, <1>2

LEMMA SnapshotTypes ==
  ASSUME RefreshInv
  PROVE  snapshots \subseteq Known /\ IsFiniteSet(snapshots) /\ snapshots \subseteq Pools
  <1>1. snapshots \subseteq Known /\ snapshots \subseteq Pools
    BY DEF RefreshInv
  <1> QED
    BY <1>1, FS_Subset DEF RefreshInv

LEMMA ListIsWhole == RefreshInv /\ TablesInv => SpoListIsWhole
  <1> SUFFICES ASSUME RefreshInv, TablesInv PROVE SpoListIsWhole
    OBVIOUS
  <1>1. CASE SpoListFails
    <2>1. ASSUME NEW p \in snapshots, IdentitiesOf(p) = {}
          PROVE  /\ \E r \in UNION Registrations, i \in identities : r.main = p /\ i.main # p /\ SharesKey(r, i)
                 /\ Composite(p).metadata /\ Composite(p).performance = {}
      <3>1. p \in Known
        BY SnapshotTypes
      <3>2. WasRefused(p)
        BY <2>1, <3>1, Zenon DEF TablesInv
      <3>3. Composite(p) = [identity |-> {}, metadata |-> TRUE, performance |-> {}]
        BY <2>1, <3>1, Zenon DEF Composite
      <3> QED
        BY <3>2, <3>3 DEF WasRefused
    <2> QED
      BY <1>1, <2>1, Zenon DEF SpoListIsWhole
  <1>2. CASE ~SpoListFails
    <2> DEFINE f == [p \in snapshots |-> CHOOSE i \in IdentitiesOf(p) : TRUE]
    <2>1. \A p \in snapshots : f[p] \in identities /\ f[p].main = p
      BY <1>2, Zenon DEF SpoListFails, IdentitiesOf
    <2> HIDE DEF f
    <2>2. ASSUME NEW i \in SpoList PROVE i = f[i.main] /\ i.main \in snapshots
      <3>1. i \in identities /\ i.main \in snapshots
        BY Zenon DEF SpoList
      <3>2. f[i.main] \in identities /\ f[i.main].main = i.main
        BY <2>1, <3>1, Zenon
      <3> QED
        BY <3>1, <3>2, Zenon DEF TablesInv
    <2>3. \A p \in snapshots : f[p] \in SpoList
      BY <2>1, Zenon DEF SpoList
    <2>4. {f[p] : p \in snapshots} = SpoList
      BY <2>2, <2>3, Zenon
    <2>5. {r.main : r \in SpoList} = snapshots
      BY <2>1, <2>2, <2>3
    <2>6. \A p, q \in snapshots : f[p] = f[q] => p = q
      BY <2>1, Zenon
    <2>7. Cardinality({f[p] : p \in snapshots}) = Cardinality(snapshots)
      BY <2>6, SnapshotTypes, ImageIsFinite, Zenon
    <2> QED
      BY <1>2, <2>4, <2>5, <2>7, Zenon DEF SpoListIsWhole, SpoCount
  <1> QED
    BY <1>1, <1>2

\* The seats of an epoch are numbered from 1.
LEMMA SeatTypes ==
  ASSUME NEW c \in Committees \cup {<<>>}
  PROVE  Len(Seats(c)) \in Nat /\ DOMAIN Seats(c) = 1 .. Len(Seats(c))
  <1>1. Len(c) \in Nat /\ DOMAIN c = 1 .. Len(c)
    BY ReportsAssumption
  <1> DEFINE T == {Seats(c)[i] : i \in DOMAIN c}
  <1>2. Seats(c) \in [1 .. Len(c) -> T]
    BY <1>1 DEF Seats
  <1>3. Seats(c) \in Seq(T)
    BY <1>1, <1>2
  <1> QED
    BY <1>3

LEMMA WholeCommittee == TablesInv => CommitteeIsWhole
  <1> SUFFICES ASSUME TablesInv, NEW e \in DOMAIN membership
               PROVE  /\ Cardinality(Committee(e)) = Len(membership[e])
                      /\ \A f \in performance : f.epoch_no = e =>
                           \E row \in Committee(e) :
                             /\ row.ids = IdentitiesWith(f.sk) /\ row.ids # {}
                             /\ row.slots - f.expected \in {-1, 0, 1}
    BY Zenon DEF CommitteeIsWhole
  <1> DEFINE seats == SeatsOf(e)
             Row(n, ids) == [position |-> n, sk |-> seats[n].sk, slots |-> seats[n].slots, ids |-> ids]
             Joined(n) == IF IdentitiesWith(seats[n].sk) = {} THEN {Row(n, {})}
                          ELSE {Row(n, {i}) : i \in IdentitiesWith(seats[n].sk)}
             g == [n \in DOMAIN seats |-> Row(n, IdentitiesWith(seats[n].sk))]
  <1>1. seats = membership[e] /\ Len(seats) \in Nat /\ DOMAIN seats = 1 .. Len(seats)
    BY SeatTypes, Zenon DEF TablesInv, SeatsOf
  <1>2. Committee(e) = UNION {Joined(n) : n \in DOMAIN seats}
    BY Zenon DEF Committee
  <1> HIDE DEF seats
  <1>3. \A sk : \A i \in IdentitiesWith(sk) : IdentitiesWith(sk) = {i}
    BY ZenonT(30) DEF IdentitiesWith, TablesInv
  <1>4. ASSUME NEW n \in DOMAIN seats PROVE Joined(n) = {g[n]}
    <2> DEFINE I == IdentitiesWith(seats[n].sk)
    <2>1. g[n] = Row(n, I)
      OBVIOUS
    <2>2. CASE I = {}
      BY <2>1, <2>2, Zenon
    <2>3. CASE I # {}
      <3>1. PICK i : I = {i}
        BY <2>3, <1>3, Zenon
      <3>2. {Row(n, {j}) : j \in I} = {Row(n, {i})}
        BY <3>1, Zenon
      <3> QED
        BY <2>1, <2>3, <3>1, <3>2, Zenon
    <2> QED
      BY <2>2, <2>3, Zenon
  <1>5. \A n \in DOMAIN seats : /\ g[n].position = n /\ g[n].ids = IdentitiesWith(seats[n].sk)
                                /\ g[n].slots = seats[n].slots
    OBVIOUS
  <1> HIDE DEF g, Joined, Row
  <1>6. Committee(e) = {g[n] : n \in DOMAIN seats}
    <2>1. \A row : row \in Committee(e) <=> \E n \in DOMAIN seats : row \in Joined(n)
      BY <1>2, Zenon
    <2>2. \A n \in DOMAIN seats : \A row : row \in Joined(n) <=> row = g[n]
      BY <1>4
    <2>3. \A row : row \in Committee(e) <=> \E n \in DOMAIN seats : row = g[n]
      BY <2>1, <2>2, Zenon
    <2> QED
      BY <2>3, Zenon
  <1>7. Cardinality(Committee(e)) = Len(seats)
    <2>1. IsFiniteSet(DOMAIN seats) /\ Cardinality(DOMAIN seats) = Len(seats)
      BY <1>1, FS_Interval
    <2>2. \A m, n \in DOMAIN seats : g[m] = g[n] => m = n
      BY <1>5, Zenon
    <2>3. Cardinality({g[n] : n \in DOMAIN seats}) = Cardinality(DOMAIN seats)
      BY <2>1, <2>2, ImageIsFinite, Zenon
    <2> QED
      BY <1>6, <2>1, <2>3, Zenon
  <1>8. ASSUME NEW f \in performance, f.epoch_no = e
        PROVE  \E row \in Committee(e) :
                 /\ row.ids = IdentitiesWith(f.sk) /\ row.ids # {}
                 /\ row.slots - f.expected \in {-1, 0, 1}
    <2>1. PICK n \in DOMAIN seats : seats[n].sk = f.sk /\ seats[n].slots - f.expected \in {-1, 0, 1}
      BY <1>1, <1>8, Zenon DEF TablesInv, IsSeatOf
    <2>2. IdentitiesWith(f.sk) # {}
      BY Zenon DEF TablesInv
    <2>3. /\ g[n] \in Committee(e) /\ g[n].ids = IdentitiesWith(f.sk)
          /\ g[n].slots - f.expected \in {-1, 0, 1}
      BY <1>5, <1>6, <2>1, Zenon
    <2> QED
      BY <2>2, <2>3, Zenon
  <1> QED
    BY <1>1, <1>7, <1>8, Zenon

\* The tables speak of saved epochs only.
LEMMA EpochTypes ==
  ASSUME EpochsInv
  PROVE  DOMAIN epochs \subseteq Nat /\ DOMAIN membership = DOMAIN epochs
  <1>1. PICK n \in (FirstEpoch - 1) .. EpochAt(now) : SavedUpTo(n)
    BY Zenon DEF EpochsInv
  <1>2. DOMAIN epochs = FirstEpoch .. n /\ DOMAIN membership = FirstEpoch .. n
    BY <1>1 DEF SavedUpTo, Calendar
  <1>3. FirstEpoch .. n \subseteq Nat
    BY ConstantTypes
  <1> QED
    BY <1>2, <1>3, Zenon

\* A pool is first seen in a saved epoch, or at the end of the range.
LEMMA FirstSeenTypes ==
  ASSUME EpochsInv, TablesInv, NEW p, NEW end \in Nat
  PROVE  FirstSeen(p, end) \in Nat /\ FirstSeen(p, end) \in DOMAIN epochs \cup {end}
  <1>1. \A h \in history : h.epoch_no \in DOMAIN epochs
    BY Zenon DEF TablesInv
  <1>2. \A f \in performance : f.epoch_no \in DOMAIN membership
    BY Zenon DEF TablesInv
  <1>3. MentionedIn(p) \subseteq DOMAIN epochs
    BY <1>1, <1>2, EpochTypes DEF MentionedIn
  <1>4. MentionedIn(p) # {} => Min(MentionedIn(p)) \in MentionedIn(p)
    <2>1. MentionedIn(p) \subseteq Nat
      BY <1>3, EpochTypes, Zenon
    <2> QED
      BY <2>1, MinOfNaturals, Zenon
  <1>5. FirstSeen(p, end) = IF MentionedIn(p) = {} THEN end ELSE Min(MentionedIn(p))
    BY Zenon DEF FirstSeen
  <1> QED
    BY <1>3, <1>4, <1>5, EpochTypes

LEMMA TotalsMeet == EpochsInv /\ RefreshInv /\ TablesInv => TotalsMeetCount
  <1> SUFFICES ASSUME EpochsInv, RefreshInv, TablesInv, snapshots # {},
                      NEW from \in {0, MaxEpochs}, NEW to \in 0..MaxEpochs
               PROVE  LET series == RegisteredTotals(from, to)
                          end == Greatest(from, to)
                      IN  /\ (\A e \in DOMAIN epochs : e <= end) => series[end].total = SpoCount
                          /\ \A e \in (Least(from, to) + 1)..end :
                               series[e].total = series[e - 1].total + series[e].newly
    BY Zenon DEF TotalsMeetCount
  <1> DEFINE start == Least(from, to)
             end == Greatest(from, to)
             g == [p \in snapshots |-> <<p, FirstSeen(p, end)>>]
             first == {<<p, FirstSeen(p, end)>> : p \in snapshots}
             upto(e) == {f \in first : f[2] <= e}
             at(e) == {f \in first : f[2] = e}
             series == RegisteredTotals(from, to)
  <1>1. start \in Nat /\ end \in Nat /\ start <= end
    BY ClockAssumption DEF Least, Greatest
  <1>2. series = [e \in start..end |-> [total |-> Cardinality(upto(e)), newly |-> Cardinality(at(e))]]
    BY Zenon DEF RegisteredTotals
  <1>3. {g[p] : p \in snapshots} = first
    OBVIOUS
  <1>4. \A p, q \in snapshots : g[p] = g[q] => p = q
    OBVIOUS
  <1> HIDE DEF series, start, end
  <1>5. \A p \in snapshots : FirstSeen(p, end) \in Nat /\ FirstSeen(p, end) \in DOMAIN epochs \cup {end}
    BY <1>1, FirstSeenTypes, Zenon
  <1>6. \A f \in first : f[2] \in Nat /\ f[2] \in DOMAIN epochs \cup {end}
    BY <1>5
  <1> HIDE DEF g, first
  <1>7. IsFiniteSet(first) /\ Cardinality(first) = SpoCount
    <2>1. IsFiniteSet(snapshots)
      BY SnapshotTypes
    <2> HIDE DEF upto, at
    <2>2. IsFiniteSet({g[p] : p \in snapshots})
      BY <2>1, ImageIsFinite, Zenon
    <2>3. Cardinality({g[p] : p \in snapshots}) = Cardinality(snapshots)
      BY <1>4, <2>1, ImageIsFinite, Zenon
    <2> QED
      BY <1>3, <2>2, <2>3, Zenon DEF SpoCount
  <1>8. ASSUME \A e \in DOMAIN epochs : e <= end PROVE series[end].total = SpoCount
    <2>1. upto(end) = first
      BY <1>1, <1>6, <1>8
    <2> HIDE DEF upto, at
    <2>2. series[end].total = Cardinality(upto(end))
      BY <1>1, <1>2
    <2> QED
      BY <1>7, <2>1, <2>2
  <1>9. ASSUME NEW e \in (start + 1)..end PROVE series[e].total = series[e - 1].total + series[e].newly
    <2>1. e \in Int /\ e \in start..end /\ e - 1 \in start..end
      BY <1>1
    <2>2. upto(e) = upto(e - 1) \cup at(e) /\ upto(e - 1) \cap at(e) = {}
      BY <2>1, <1>6
    <2>3. upto(e - 1) \in SUBSET first /\ at(e) \in SUBSET first
      OBVIOUS
    <2> HIDE DEF upto, at
    <2>4. /\ series[e].total = Cardinality(upto(e)) /\ series[e].newly = Cardinality(at(e))
          /\ series[e - 1].total = Cardinality(upto(e - 1))
      BY <2>1, <1>2
    <2>5. IsFiniteSet(upto(e - 1)) /\ IsFiniteSet(at(e))
      BY <2>3, <1>7, FS_Subset, Zenon
    <2>6. Cardinality(upto(e)) = Cardinality(upto(e - 1)) + Cardinality(at(e)) - Cardinality({})
      BY <2>2, <2>5, FS_Union, Zenon
    <2>7. /\ Cardinality(upto(e - 1)) \in Nat /\ Cardinality(at(e)) \in Nat
          /\ Cardinality({}) = 0
      BY <2>5, FS_CardinalityType, FS_EmptySet
    <2> QED
      BY <2>4, <2>6, <2>7
  <1> QED
    BY <1>8, <1>9, Zenon DEF series, start, end

\* COALESCE(si.pool_id, <key>) tells the keys apart.
LEMMA IdKeyInjective ==
  ASSUME TablesInv, NEW a, NEW b, IdKey(a) = IdKey(b)
  PROVE  a = b
  <1>1. ASSUME NEW sk
        PROVE  \/ IdentitiesWith(sk) = {} /\ IdKey(sk) = <<NoPool, sk>>
               \/ \E i \in identities : i.sk = sk /\ IdKey(sk) = <<i.main, "pool">>
    <2> DEFINE i == CHOOSE i \in IdentitiesWith(sk) : TRUE
    <2>1. CASE IdentitiesWith(sk) = {}
      BY <2>1, Zenon DEF IdKey
    <2>2. CASE IdentitiesWith(sk) # {}
      <3>1. i \in IdentitiesWith(sk)
        BY <2>2, Zenon
      <3>2. i \in identities /\ i.sk = sk
        BY <3>1, Zenon DEF IdentitiesWith
      <3>3. IdKey(sk) = <<i.main, "pool">>
        BY <2>2, Zenon DEF IdKey
      <3> QED
        BY <3>2, <3>3, Zenon
    <2> QED
      BY <2>1, <2>2, Zenon
  <1>2. \A i \in identities : i.main # NoPool
    BY PoolTypes, Zenon DEF TablesInv, Pools, NoPool
  <1>3. \/ IdentitiesWith(a) = {} /\ IdKey(a) = <<NoPool, a>>
        \/ \E i \in identities : i.sk = a /\ IdKey(a) = <<i.main, "pool">>
    BY <1>1, Zenon
  <1>4. \/ IdentitiesWith(b) = {} /\ IdKey(b) = <<NoPool, b>>
        \/ \E i \in identities : i.sk = b /\ IdKey(b) = <<i.main, "pool">>
    BY <1>1, Zenon
  <1>5. ASSUME NEW i \in identities, NEW j \in identities, i.sk = a, j.sk = b, i.main = j.main PROVE a = b
    BY <1>5, Zenon DEF TablesInv
  <1>6. ASSUME NEW i \in identities, NEW sk PROVE <<i.main, "pool">> # <<NoPool, sk>>
    BY <1>2
  <1>7. <<NoPool, a>> = <<NoPool, b>> => a = b
    OBVIOUS
  <1>8. \A i, j \in identities : <<i.main, "pool">> = <<j.main, "pool">> => i.main = j.main
    OBVIOUS
  <1> QED
    BY <1>3, <1>4, <1>5, <1>6, <1>7, <1>8, Zenon

LEMMA Untagged ==
  ASSUME NEW R, NEW tag, NEW T,
         \A y \in R : y[2] = tag => \E k \in T : y = <<k, tag>>,
         \A k \in T : <<k, tag>> \in R
  PROVE  {x[1] : x \in {y \in R : y[2] = tag}} = T
  <1> DEFINE Q == {y \in R : y[2] = tag}
  <1>1. \A x \in Q : x[1] \in T
    OBVIOUS
  <1>2. ASSUME NEW k \in T PROVE k \in {x[1] : x \in Q}
    <2>1. <<k, tag>> \in Q /\ <<k, tag>>[1] = k
      OBVIOUS
    <2> HIDE DEF Q
    <2> QED
      BY <2>1, Zenon
  <1> QED
    BY <1>1, <1>2, Zenon

\* The sources of get_registered_presence, told apart again.
LEMMA PresenceAt ==
  ASSUME NEW e
  PROVE  LET At(source) == {x[1] : x \in {y \in Presence(e) : y[2] = source}}
         IN  /\ At("history") = {IdKey(h.sk) : h \in {g \in history : g.epoch_no = e}}
             /\ At("committee") = {IdKey(s.sk) : s \in Range(SeatsOf(e))}
             /\ At("performance") = {IdKey(f.sk) : f \in {g \in performance : g.epoch_no = e}}
  <1> DEFINE H == {IdKey(h.sk) : h \in {g \in history : g.epoch_no = e}}
             C == {IdKey(s.sk) : s \in Range(SeatsOf(e))}
             P == {IdKey(f.sk) : f \in {g \in performance : g.epoch_no = e}}
             rows == {<<k, "history">> : k \in H} \cup {<<k, "committee">> : k \in C}
                       \cup {<<k, "performance">> : k \in P}
  <1>1. \A x : x \in Presence(e) <=> x \in rows
    BY Zenon DEF Presence
  <1> HIDE DEF H, C, P
  <1>2. /\ {x[1] : x \in {y \in rows : y[2] = "history"}} = H
        /\ {x[1] : x \in {y \in rows : y[2] = "committee"}} = C
        /\ {x[1] : x \in {y \in rows : y[2] = "performance"}} = P
    <2>1. \A y \in rows : /\ y[2] = "history" => \E k \in H : y = <<k, "history">>
                          /\ y[2] = "committee" => \E k \in C : y = <<k, "committee">>
                          /\ y[2] = "performance" => \E k \in P : y = <<k, "performance">>
      OBVIOUS
    <2>2. /\ \A k \in H : <<k, "history">> \in rows
          /\ \A k \in C : <<k, "committee">> \in rows
          /\ \A k \in P : <<k, "performance">> \in rows
      OBVIOUS
    <2> HIDE DEF rows
    <2>3. {x[1] : x \in {y \in rows : y[2] = "history"}} = H
      BY <2>1, <2>2, Untagged, Zenon
    <2>4. {x[1] : x \in {y \in rows : y[2] = "committee"}} = C
      BY <2>1, <2>2, Untagged, Zenon
    <2>5. {x[1] : x \in {y \in rows : y[2] = "performance"}} = P
      BY <2>1, <2>2, Untagged, Zenon
    <2> QED
      BY <2>3, <2>4, <2>5, Zenon
  <1>3. Presence(e) = rows
    BY <1>1
  <1> HIDE DEF rows
  <1> QED
    BY <1>2, <1>3, Zenon DEF H, C, P

LEMMA RegistrationsMatch == EpochsInv /\ TablesInv => RegistrationsAgree
  <1> SUFFICES ASSUME EpochsInv, TablesInv, NEW e \in DOMAIN epochs
               PROVE  LET rows == Presence(e)
                          At(source) == {x[1] : x \in {y \in rows : y[2] = source}}
                          stat == RegisteredStat(e)
                          first == FirstValidEpochs(e)
                      IN  /\ stat.valid + stat.invalid = Cardinality(At("history"))
                          /\ At("performance") \subseteq At("history") \cap At("committee")
                          /\ stat.federated <= Cardinality(At("committee"))
                          /\ PoolsWithStatus(e, TRUE) \subseteq DOMAIN first
                          /\ \A k \in DOMAIN first : k \in PoolsWithStatus(first[k], TRUE)
    BY Zenon DEF RegistrationsAgree
  <1> DEFINE E == {g \in history : g.epoch_no = e}
             H == {IdKey(h.sk) : h \in E}
             seats == SeatsOf(e)
             C == {IdKey(s.sk) : s \in Range(seats)}
             P == {IdKey(f.sk) : f \in {g \in performance : g.epoch_no = e}}
             V == PoolsWithStatus(e, TRUE)
             I == PoolsWithStatus(e, FALSE)
             keys == [sk \in {h.sk : h \in history} \cup {s.sk : s \in Range(seats)} |-> IdKey(sk)]
  <1>1. e \in Nat /\ e \in DOMAIN membership /\ seats = membership[e]
    BY EpochTypes, Zenon DEF SeatsOf
  <1>2. /\ \A h \in history : h.epoch_no \in Nat /\ h.valid \in BOOLEAN /\ IdentitiesWith(h.sk) # {}
        /\ IsFiniteSet(history)
    BY EpochTypes, Zenon DEF TablesInv
  <1>3. /\ V = {IdKey(h.sk) : h \in {g \in E : g.valid = TRUE}}
        /\ I = {IdKey(h.sk) : h \in {g \in E : g.valid = FALSE}}
    BY <1>2, Zenon DEF PoolsWithStatus
  <1>4. Cardinality(V) + Cardinality(I) = Cardinality(H)
    <2>1. V \cup I = H
      <3>1. \A g \in E : g.valid = TRUE \/ g.valid = FALSE
        BY <1>2, Zenon
      <3> HIDE DEF E, V, I
      <3> QED
        BY <1>3, <3>1
    <2>2. V \cap I = {}
      <3>1. ASSUME NEW g \in E, NEW h \in E, g.valid = TRUE, h.valid = FALSE, IdKey(g.sk) = IdKey(h.sk) PROVE FALSE
        <4>1. g.sk = h.sk
          BY <3>1, IdKeyInjective, Zenon
        <4>2. g.valid = h.valid
          BY <4>1, ZenonT(30) DEF TablesInv
        <4> QED
          BY <3>1, <4>2
      <3> HIDE DEF E, V, I
      <3> QED
        BY <1>3, <3>1, Zenon
    <2>3. IsFiniteSet(H)
      <3> DEFINE f == [h \in E |-> IdKey(h.sk)]
      <3>1. IsFiniteSet(E)
        BY <1>2, FS_Subset
      <3>2. {f[h] : h \in E} = H
        BY Zenon
      <3> HIDE DEF f, E, H
      <3>3. IsFiniteSet({f[h] : h \in E})
        BY <3>1, ImageIsFinite, Zenon
      <3> QED
        BY <3>2, <3>3, Zenon
    <2> HIDE DEF V, I, H
    <2>4. V \in SUBSET H /\ I \in SUBSET H
      BY <2>1
    <2>5. IsFiniteSet(V) /\ IsFiniteSet(I)
      BY <2>3, <2>4, FS_Subset, Zenon
    <2>6. Cardinality(V \cup I) = Cardinality(V) + Cardinality(I) - Cardinality(V \cap I)
      BY <2>5, FS_Union, Zenon
    <2>7. Cardinality(V) \in Nat /\ Cardinality(I) \in Nat /\ Cardinality({}) = 0
      BY <2>5, FS_CardinalityType, FS_EmptySet
    <2>8. Cardinality(H) = Cardinality(V) + Cardinality(I) - Cardinality({})
      BY <2>1, <2>2, <2>6, Zenon
    <2> QED
      BY <2>7, <2>8
  <1>5. P \subseteq H \cap C
    <2>1. ASSUME NEW f \in performance, f.epoch_no = e PROVE IdKey(f.sk) \in H /\ IdKey(f.sk) \in C
      <3>1. PICK h \in history : h.sk = f.sk /\ h.epoch_no = e
        BY <2>1, Zenon DEF TablesInv
      <3>2. PICK n \in DOMAIN seats : seats[n].sk = f.sk
        <4>1. IsSeatOf(e, f)
          BY <2>1, Zenon DEF TablesInv
        <4> HIDE DEF seats
        <4> QED
          BY <4>1, <1>1, Zenon DEF IsSeatOf
      <3>3. seats[n] \in Range(seats)
        BY <3>2, Zenon DEF Range
      <3> HIDE DEF seats
      <3> QED
        BY <3>1, <3>2, <3>3
    <2> HIDE DEF H, C
    <2> QED
      BY <2>1
  <1>6. RegisteredStat(e).federated <= Cardinality(C)
    <2> DEFINE A == {s.sk : s \in {t \in Range(seats) : t.slots > 0}}
               f == [sk \in A |-> IdKey(sk)]
               S == DOMAIN seats
               c == [n \in S |-> seats[n].sk]
               k == [n \in S |-> IdKey(seats[n].sk)]
    <2>1. IsFiniteSet(S)
      <3>1. Len(seats) \in Nat /\ S = 1 .. Len(seats)
        BY <1>1, SeatTypes, ZenonT(30) DEF TablesInv
      <3> QED
        BY <3>1, FS_Interval
    <2>2. {k[n] : n \in S} = C
      BY DEF Range
    <2>3. A \subseteq {c[n] : n \in S} /\ {f[sk] : sk \in A} \subseteq C
      BY Zenon DEF Range
    <2>4. RegisteredStat(e).federated = Cardinality(A)
      BY DEF RegisteredStat
    <2>5. \A x, y \in A : f[x] = f[y] => x = y
      <3>1. \A x, y : IdKey(x) = IdKey(y) => x = y
        BY IdKeyInjective, Zenon
      <3> HIDE DEF A
      <3> QED
        BY <3>1
    <2> HIDE DEF A, f, S, c, k, C
    <2>6. IsFiniteSet(C) /\ IsFiniteSet({c[n] : n \in S})
      <3>1. IsFiniteSet({k[n] : n \in S}) /\ IsFiniteSet({c[n] : n \in S})
        BY <2>1, ImageIsFinite, Zenon
      <3> QED
        BY <2>2, <3>1, Zenon
    <2>7. IsFiniteSet(A)
      BY <2>3, <2>6, FS_Subset, Zenon
    <2>8. Cardinality({f[sk] : sk \in A}) = Cardinality(A)
      BY <2>5, <2>7, ImageIsFinite, Zenon
    <2>9. Cardinality({f[sk] : sk \in A}) <= Cardinality(C)
      BY <2>3, <2>6, FS_Subset, Zenon
    <2> QED
      BY <2>4, <2>8, <2>9
  <1>7. /\ V \subseteq DOMAIN FirstValidEpochs(e)
        /\ \A k \in DOMAIN FirstValidEpochs(e) : k \in PoolsWithStatus(FirstValidEpochs(e)[k], TRUE)
    <2> DEFINE rows == {h \in history : h.valid /\ h.epoch_no <= e}
               Of(k) == {h.epoch_no : h \in {g \in rows : IdKey(g.sk) = k}}
    <2>1. FirstValidEpochs(e) = [k \in {IdKey(h.sk) : h \in rows} |-> Min(Of(k))]
      BY Zenon DEF FirstValidEpochs
    <2>2. V \subseteq {IdKey(h.sk) : h \in rows}
      <3>1. \A g \in E : g.valid = TRUE => g \in rows
        BY <1>1, <1>2
      <3> HIDE DEF V, E, rows
      <3> QED
        BY <1>3, <3>1
    <2>3. ASSUME NEW k \in {IdKey(h.sk) : h \in rows} PROVE k \in PoolsWithStatus(Min(Of(k)), TRUE)
      <3>1. Of(k) # {} /\ Of(k) \subseteq Nat
        BY <1>2
      <3>2. Min(Of(k)) \in Of(k)
        BY <3>1, MinOfNaturals, Zenon
      <3>3. PICK h \in history : h.valid /\ IdKey(h.sk) = k /\ h.epoch_no = Min(Of(k))
        BY <3>2, Zenon
      <3>4. h.valid = TRUE /\ IdentitiesWith(h.sk) # {}
        BY <1>2, <3>3, SMTT(30)
      <3> HIDE DEF rows, Of
      <3> QED
        BY <3>3, <3>4, Zenon DEF PoolsWithStatus
    <2> HIDE DEF rows, Of
    <2> QED
      BY <2>1, <2>2, <2>3, Zenon
  <1>8. RegisteredStat(e).valid = Cardinality(V) /\ RegisteredStat(e).invalid = Cardinality(I)
    BY DEF RegisteredStat
  <1>9. /\ {x[1] : x \in {y \in Presence(e) : y[2] = "history"}} = H
        /\ {x[1] : x \in {y \in Presence(e) : y[2] = "committee"}} = C
        /\ {x[1] : x \in {y \in Presence(e) : y[2] = "performance"}} = P
    BY PresenceAt, Zenon
  <1> HIDE DEF H, C, P, V, I
  <1> QED
    BY <1>4, <1>5, <1>6, <1>7, <1>8, <1>9, Zenon DEF V

\* The API's SPO queries agree in every state, however many pools, committees
\* and epochs there are, and wherever the two tasks have stopped: spo_list with
\* spo_count, committee with the expected blocks, the totals series with the
\* count, the registration statistics with each other, and current_epoch_info
\* with the clock.
THEOREM QueriesAlwaysAgree == Spec => []SpoQueriesAgree
  <1> DEFINE Inv == EpochsInv /\ RefreshInv /\ TablesInv
  <1>1. Init => Inv
    BY EpochsInit, RefreshInit, TablesInit
  <1>2. Inv /\ [Next]_vars => Inv'
    BY EpochsNext, RefreshNext, TablesNext
  <1>3. Inv => SpoQueriesAgree
    BY InfoKeepsPace, ListIsWhole, WholeCommittee, TotalsMeet, RegistrationsMatch DEF SpoQueriesAgree
  <1> QED
    BY <1>1, <1>2, <1>3, PTL DEF Spec
=============================================================================
