-------------------------- MODULE LedgerReadsProofs --------------------------
(***************************************************************************)
(* The quotas of subscriptions for every limit, length of a minute, set of *)
(* connections, sessions and requests, whatever the requests do; and the   *)
(* chain that requests read from, as it grows and old states go.           *)
(***************************************************************************)
EXTENDS LedgerReads, FiniteSetTheorems, TLAPS

------------------------------------------------------------------------------
(* The rate of a session.  RateIsBounded speaks of the times of tokens     *)
(* taken and not of the bucket; it follows from what a bucket still holds: *)
(* since any token was taken, the tokens taken and those left together are *)
(* no more than a full bucket and what it gained.                          *)

Bucket == [tokens : Nat, last : Nat]
Rate   == MaxSessionSubscriptionsPerMinute

\* The budget of a bucket b whose tokens were taken at the times of seq.
Budget(b, seq) ==
  /\ b.tokens <= Capacity
  /\ \A i \in 1 .. Len(seq) :
       /\ seq[i] <= b.last
       /\ b.tokens + (Len(seq) - i + 1) * Minute <= Capacity + (b.last - seq[i]) * Rate

\* RateIsBounded for one session.
Bounded(seq) ==
  \A i, j \in 1 .. Len(seq) :
    i <= j => (j - i + 1) * Minute <= Capacity + (seq[j] - seq[i]) * Rate

Sound(b, seq, now) ==
  /\ seq \in Seq(Nat)
  /\ b = None => seq = <<>>
  /\ b # None => b \in Bucket /\ b.last <= now /\ Budget(b, seq)
  /\ Bounded(seq)

\* The inductive invariant.
RateInv ==
  /\ clock \in Nat
  /\ DOMAIN buckets = Sessions /\ DOMAIN taken = Sessions
  /\ \A s \in Sessions : Sound(buckets[s], taken[s], clock)

\* Time passed in two stretches gains what it gains in one.
LEMMA Gains ==
  ASSUME NEW a \in Int, NEW b \in Int, NEW c \in Int, NEW r \in Int
  PROVE  (a - b) * r + (b - c) * r = (a - c) * r
  BY SMT

\* Quotas are positive numbers, and so is the capacity of a bucket.
LEMMA Quotas ==
  /\ Rate \in Nat /\ Rate > 0 /\ Minute \in Nat /\ Minute > 0
  /\ Capacity \in Nat /\ Capacity >= Minute
  <1>1. Rate \in Nat /\ Rate > 0 /\ Minute \in Nat /\ Minute > 0
    BY QuotaConfig DEF Rate
  <1>2. \A r, m \in Nat : r > 0 => r * m \in Nat /\ r * m >= m
    BY SMT
  <1> QED
    BY <1>1, <1>2 DEF Capacity, Rate

\* A bucket refilled holds no more than before and what it gained since.
LEMMA RefillGains ==
  ASSUME NEW b \in Bucket, b.last <= clock, clock \in Nat, b.tokens <= Capacity
  PROVE  /\ Refilled(b) \in Nat
         /\ Refilled(b) <= Capacity
         /\ Refilled(b) <= b.tokens + (clock - b.last) * Rate
  <1> DEFINE gain == (clock - b.last) * Rate
  <1>1. b.tokens \in Nat /\ b.last \in Nat
    BY DEF Bucket
  <1>2. \A x, r \in Nat : x * r \in Nat
    BY SMT
  <1>3. gain \in Nat
    BY <1>1, <1>2, Quotas
  <1> HIDE DEF gain
  <1>4. Refilled(b) = IF b.tokens + gain < Capacity THEN b.tokens + gain ELSE Capacity
    BY DEF Refilled, gain, Rate
  <1>5. Refilled(b) \in Nat /\ Refilled(b) <= Capacity /\ Refilled(b) <= b.tokens + gain
    BY <1>1, <1>3, <1>4, Quotas
  <1> QED
    BY <1>5 DEF gain

\* Time passes: nothing is taken.
LEMMA SoundLater ==
  ASSUME NEW b, NEW seq, NEW now \in Nat, NEW later \in Nat, now <= later, Sound(b, seq, now)
  PROVE  Sound(b, seq, later)
  BY DEF Sound, Bucket

\* The bucket try_take works on.
Held(b) == IF b = None THEN TokenBucketNew ELSE b

\* A bucket that is new is full; in either case it is within its budget.
LEMMA HeldIsSound ==
  ASSUME NEW b, NEW seq, clock \in Nat, Sound(b, seq, clock)
  PROVE  Held(b) \in Bucket /\ Held(b).last <= clock /\ Budget(Held(b), seq)
  <1>1. CASE b = None
    <2>1. seq = <<>>
      BY <1>1 DEF Sound
    <2>2. Held(b) = [tokens |-> Capacity, last |-> clock]
      BY <1>1 DEF Held, TokenBucketNew
    <2>3. Held(b) \in Bucket /\ Held(b).last = clock /\ Held(b).tokens = Capacity
      BY <2>2, Quotas DEF Bucket
    <2> QED
      BY <2>1, <2>3, Quotas DEF Budget
  <1>2. CASE b # None
    BY <1>2 DEF Held, Sound
  <1> QED
    BY <1>1, <1>2

\* Refilling keeps the budget: what the bucket gains, time allows.
LEMMA RefillKeepsBudget ==
  ASSUME NEW b, NEW seq, clock \in Nat, Sound(b, seq, clock)
  PROVE  /\ Refilled(Held(b)) \in Nat
         /\ Refilled(Held(b)) <= Capacity
         /\ \A i \in 1 .. Len(seq) :
              /\ seq[i] <= clock
              /\ Refilled(Held(b)) + (Len(seq) - i + 1) * Minute
                   <= Capacity + (clock - seq[i]) * Rate
  <1> DEFINE held == Held(b)
             full == Refilled(held)
  <1>1. held \in Bucket /\ held.last <= clock /\ Budget(held, seq)
    BY HeldIsSound
  <1>2. held.tokens \in Nat /\ held.last \in Nat /\ held.tokens <= Capacity
    BY <1>1 DEF Bucket, Budget
  <1>3. full \in Nat /\ full <= Capacity /\ full <= held.tokens + (clock - held.last) * Rate
    BY <1>1, <1>2, RefillGains
  <1>4. ASSUME NEW i \in 1 .. Len(seq)
        PROVE  /\ seq[i] <= clock
               /\ full + (Len(seq) - i + 1) * Minute <= Capacity + (clock - seq[i]) * Rate
    <2> DEFINE gain  == (clock - held.last) * Rate
               since == (held.last - seq[i]) * Rate
               whole == (clock - seq[i]) * Rate
               spent == (Len(seq) - i + 1) * Minute
    <2>1. seq \in Seq(Nat)
      BY DEF Sound
    <2>2. Len(seq) \in Nat /\ i \in Nat /\ seq[i] \in Nat
      BY <2>1
    <2>3. seq[i] <= held.last /\ held.tokens + spent <= Capacity + since
      BY <1>1 DEF Budget
    <2>4. gain + since = whole
      BY <1>2, <2>2, Gains, Quotas
    <2>5. gain \in Int /\ since \in Int /\ whole \in Int /\ spent \in Int
      <3>1. clock \in Int /\ held.last \in Int /\ seq[i] \in Int /\ Rate \in Int /\ Minute \in Int
        BY <1>2, <2>2, Quotas
      <3>2. \A x, y, z \in Int : (x - y) * z \in Int
        OBVIOUS
      <3>3. \A x, y, z \in Int : (x - y + 1) * z \in Int
        OBVIOUS
      <3> QED
        BY <2>2, <3>1, <3>2, <3>3
    <2>6. full <= held.tokens + gain
      BY <1>3
    <2> HIDE DEF gain, since, whole, spent, full
    <2>7. full + spent <= Capacity + whole
      BY <1>2, <1>3, <2>3, <2>4, <2>5, <2>6, Quotas
    <2>8. seq[i] <= clock
      BY <1>1, <1>2, <2>2, <2>3
    <2> QED
      BY <2>7, <2>8 DEF spent, whole
  <1> QED
    BY <1>3, <1>4

\* A token refused: the bucket is only refilled.
LEMMA SoundRefused ==
  ASSUME NEW b, NEW seq, clock \in Nat, Sound(b, seq, clock)
  PROVE  Sound([tokens |-> Refilled(Held(b)), last |-> clock], seq, clock)
  <1> DEFINE new == [tokens |-> Refilled(Held(b)), last |-> clock]
  <1>1. Refilled(Held(b)) \in Nat
    BY RefillKeepsBudget
  <1>2. new \in Bucket /\ new.last = clock /\ new.tokens = Refilled(Held(b))
    BY <1>1 DEF Bucket
  <1>3. new # None
    BY <1>2, NoneIsNoBucket DEF Bucket
  <1> HIDE DEF new
  <1>4. Budget(new, seq)
    BY <1>2, RefillKeepsBudget DEF Budget
  <1>5. seq \in Seq(Nat) /\ Bounded(seq)
    BY DEF Sound
  <1>6. Sound(new, seq, clock)
    BY <1>2, <1>3, <1>4, <1>5 DEF Sound
  <1> QED
    BY <1>6 DEF new

\* A token taken now: of a bucket that held one, the rest is still within the
\* budget since each earlier token and since this one.
LEMMA SoundTaken ==
  ASSUME NEW b, NEW seq, clock \in Nat, Sound(b, seq, clock), Refilled(Held(b)) >= Minute
  PROVE  Sound([tokens |-> Refilled(Held(b)) - Minute, last |-> clock], Append(seq, clock), clock)
  <1> DEFINE full == Refilled(Held(b))
             new  == [tokens |-> full - Minute, last |-> clock]
             more == Append(seq, clock)
  <1>1. seq \in Seq(Nat) /\ Bounded(seq)
    BY DEF Sound
  <1>2. /\ more \in Seq(Nat) /\ Len(more) = Len(seq) + 1 /\ Len(seq) \in Nat
        /\ more[Len(seq) + 1] = clock
        /\ \A i \in 1 .. Len(seq) : more[i] = seq[i] /\ seq[i] \in Nat
    BY <1>1
  <1>3. /\ full \in Nat /\ full <= Capacity /\ full >= Minute
        /\ \A i \in 1 .. Len(seq) :
             seq[i] <= clock /\ full + (Len(seq) - i + 1) * Minute <= Capacity + (clock - seq[i]) * Rate
    BY RefillKeepsBudget
  <1> HIDE DEF full, more
  <1>4. new \in Bucket /\ new.last = clock /\ new.tokens = full - Minute
    BY <1>3, Quotas DEF Bucket
  <1>5. new # None
    BY <1>4, NoneIsNoBucket DEF Bucket
  <1>6. ASSUME NEW i \in 1 .. Len(more)
        PROVE  /\ more[i] <= clock
               /\ full - Minute + (Len(more) - i + 1) * Minute <= Capacity + (clock - more[i]) * Rate
    <2>1. CASE i = Len(seq) + 1
      <3>1. more[i] = clock /\ Len(more) - i + 1 = 1 /\ clock - more[i] = 0
        BY <1>2, <2>1
      <3>2. (Len(more) - i + 1) * Minute = Minute /\ (clock - more[i]) * Rate = 0
        BY <3>1, Quotas
      <3> QED
        BY <1>3, <3>1, <3>2, Quotas
    <2>2. CASE i \in 1 .. Len(seq)
      <3> DEFINE whole == (clock - seq[i]) * Rate
                 spent == (Len(seq) - i + 1) * Minute
      <3>1. more[i] = seq[i] /\ seq[i] <= clock /\ full + spent <= Capacity + whole
        BY <1>2, <1>3, <2>2
      <3>2. \A n, m \in Int : (n + 1) * m = n * m + m
        BY SMT
      <3>3. (Len(more) - i + 1) * Minute = spent + Minute
        <4>1. Len(more) - i + 1 = (Len(seq) - i + 1) + 1
          BY <1>2, <2>2
        <4> QED
          BY <1>2, <2>2, <3>2, <4>1, Quotas
      <3>4. whole \in Int /\ spent \in Int
        BY <1>2, <2>2, Quotas
      <3> HIDE DEF whole, spent
      <3>5. full - Minute + (spent + Minute) <= Capacity + whole
        BY <1>3, <3>1, <3>4, Quotas
      <3> QED
        BY <3>1, <3>3, <3>5 DEF whole
    <2> QED
      BY <1>2, <2>1, <2>2
  <1>7. Budget(new, more)
    BY <1>3, <1>4, <1>6, Quotas DEF Budget
  <1>8. ASSUME NEW i \in 1 .. Len(more), NEW j \in 1 .. Len(more), i <= j
        PROVE  (j - i + 1) * Minute <= Capacity + (more[j] - more[i]) * Rate
    <2>1. CASE j = Len(seq) + 1
      <3> DEFINE spent == (j - i + 1) * Minute
                 whole == (more[j] - more[i]) * Rate
      <3>1. full - Minute + spent <= Capacity + whole
        BY <1>2, <1>6, <2>1
      <3>2. spent \in Int /\ whole \in Int
        BY <1>2, Quotas
      <3> HIDE DEF spent, whole
      <3>3. spent <= Capacity + whole
        BY <1>3, <3>1, <3>2, Quotas
      <3> QED
        BY <3>3 DEF spent, whole
    <2>2. CASE j \in 1 .. Len(seq)
      <3>1. i \in 1 .. Len(seq)
        BY <1>2, <1>8, <2>2
      <3>2. (j - i + 1) * Minute <= Capacity + (seq[j] - seq[i]) * Rate
        BY <1>1, <1>8, <2>2, <3>1 DEF Bounded
      <3>3. more[i] = seq[i] /\ more[j] = seq[j]
        BY <1>2, <2>2, <3>1
      <3> QED
        BY <3>2, <3>3
    <2> QED
      BY <1>2, <2>1, <2>2
  <1>9. Bounded(more)
    BY <1>8 DEF Bounded
  <1>10. Sound(new, more, clock)
    BY <1>2, <1>4, <1>5, <1>7, <1>9 DEF Sound
  <1> QED
    BY <1>10 DEF new, more, full

\* What a step does to buckets and the clock: nothing, or a session asks for a
\* token, or time passes.
LEMMA QuotaSteps ==
  ASSUME [Next]_vars
  PROVE  \/ UNCHANGED <<buckets, clock, taken>>
         \/ \E s : TryTake(s) /\ UNCHANGED clock
         \/ UNCHANGED <<buckets, taken>> /\ clock' = clock + 1
  <1>1. CASE SaveBlock
    BY <1>1 DEF SaveBlock, quotas
  <1>2. CASE Collect
    BY <1>2 DEF Collect, quotas
  <1>3. CASE PassTime
    BY <1>3 DEF PassTime, Tick
  <1>4. CASE UNCHANGED vars
    BY <1>4 DEF vars, quotas
  <1>5. ASSUME NEW t \in cast.tasks, Ask(t)
        PROVE  UNCHANGED <<buckets, clock, taken>>
    BY <1>5 DEF Ask, quotas
  <1>6. ASSUME NEW t \in cast.tasks, Acquire(t)
        PROVE  UNCHANGED <<buckets, clock, taken>>
    BY <1>6 DEF Acquire
  <1>7. ASSUME NEW t \in cast.tasks, AcquireToken(t)
        PROVE  TryTake(t.session) /\ UNCHANGED clock
    BY <1>7 DEF AcquireToken
  <1>8. ASSUME NEW t \in cast.tasks, Disconnect(t)
        PROVE  UNCHANGED <<buckets, clock, taken>>
    BY <1>8 DEF Disconnect, Ends
  <1>9. ASSUME NEW t \in cast.tasks,
               \/ FindBlock(t) \/ CheckAge(t) \/ CheckLoadable(t) \/ LoadSnapshot(t)
               \/ FindCutoff(t) \/ StreamDtimes(t) \/ FetchEntries(t) \/ YieldEntry(t)
               \/ Complete(t)
        PROVE  UNCHANGED <<buckets, clock, taken>>
    BY <1>9, Zenon DEF FindBlock, CheckAge, CheckLoadable, LoadSnapshot, FindCutoff, StreamDtimes,
                FetchEntries, YieldEntry, Complete, Reads, Step, Ends, quotas
  <1>10. ASSUME NEW t \in cast.tasks, AskVersion(t) \/ CachedUpdate(t)
         PROVE  UNCHANGED <<buckets, clock, taken>>
    BY <1>10 DEF AskVersion, CachedUpdate, CheckCache, LockCache, ReadKey, LoadState,
                 Answers, Panics, Step, quotas
  <1> QED
    BY <1>1, <1>2, <1>3, <1>4, <1>5, <1>6, <1>7, <1>8, <1>9, <1>10 DEF Next

\* The invariant is inductive.
THEOREM RateInductive == (Init => RateInv) /\ (RateInv /\ [Next]_vars => RateInv')
  <1>1. ASSUME Init PROVE RateInv
    <2>1. ASSUME NEW s \in Sessions
          PROVE  Sound(None, <<>>, 0)
      BY DEF Sound, Bounded
    <2> QED
      BY <1>1, <2>1 DEF Init, QuotaInit, RateInv
  <1>2. ASSUME RateInv, [Next]_vars PROVE RateInv'
    <2>1. CASE UNCHANGED <<buckets, clock, taken>>
      BY <1>2, <2>1 DEF RateInv
    <2>2. CASE UNCHANGED <<buckets, taken>> /\ clock' = clock + 1
      <3>1. clock \in Nat /\ clock' \in Nat /\ clock <= clock'
        BY <1>2, <2>2 DEF RateInv
      <3>2. ASSUME NEW s \in Sessions PROVE Sound(buckets[s], taken[s], clock')
        BY <1>2, <3>1, SoundLater DEF RateInv
      <3> QED
        BY <1>2, <2>2, <3>1, <3>2 DEF RateInv
    <2>3. ASSUME NEW u, TryTake(u), UNCHANGED clock PROVE RateInv'
      <3> DEFINE full == Refilled(Held(buckets[u]))
      <3>1. /\ buckets' = [buckets EXCEPT ![u] =
                  [tokens |-> IF full >= Minute THEN full - Minute ELSE full, last |-> clock]]
            /\ taken' = IF full >= Minute THEN [taken EXCEPT ![u] = Append(@, clock)] ELSE taken
        BY <2>3 DEF TryTake, MayTake, Held
      <3>2. clock \in Nat /\ DOMAIN buckets = Sessions /\ DOMAIN taken = Sessions
        BY <1>2 DEF RateInv
      <3>3. DOMAIN buckets' = Sessions /\ DOMAIN taken' = Sessions
        BY <3>1, <3>2
      <3>4. ASSUME NEW s \in Sessions PROVE Sound(buckets'[s], taken'[s], clock)
        <4>1. Sound(buckets[s], taken[s], clock)
          BY <1>2 DEF RateInv
        <4>2. CASE s # u
          <5>1. buckets'[s] = buckets[s] /\ taken'[s] = taken[s]
            BY <3>1, <3>2, <4>2
          <5> QED
            BY <4>1, <5>1
        <4>3. CASE s = u /\ full >= Minute
          <5>1. /\ buckets'[s] = [tokens |-> full - Minute, last |-> clock]
                /\ taken'[s] = Append(taken[s], clock)
            BY <3>1, <3>2, <4>3
          <5> QED
            BY <3>2, <4>1, <4>3, <5>1, SoundTaken
        <4>4. CASE s = u /\ ~(full >= Minute)
          <5>1. buckets'[s] = [tokens |-> full, last |-> clock] /\ taken'[s] = taken[s]
            BY <3>1, <3>2, <4>4
          <5> QED
            BY <3>2, <4>1, <4>4, <5>1, SoundRefused
        <4> QED
          BY <4>2, <4>3, <4>4
      <3> QED
        BY <2>3, <3>2, <3>3, <3>4 DEF RateInv
    <2> QED
      BY <1>2, <2>1, <2>2, <2>3, QuotaSteps
  <1> QED
    BY <1>1, <1>2

\* A session never starts more subscriptions in any stretch of time than a full
\* bucket and what it gains meanwhile allow (try_acquire, TokenBucket::try_take).
THEOREM RateHolds == Spec => []RateIsBounded
  <1>1. RateInv => RateIsBounded
    <2> SUFFICES ASSUME RateInv, NEW s \in Sessions, NEW i \in DOMAIN taken[s],
                        NEW j \in DOMAIN taken[s], i <= j
                 PROVE  (j - i + 1) * Minute
                          <= Capacity + (taken[s][j] - taken[s][i]) * MaxSessionSubscriptionsPerMinute
      BY DEF RateIsBounded
    <2>1. taken[s] \in Seq(Nat) /\ Bounded(taken[s])
      BY DEF RateInv, Sound
    <2>2. DOMAIN taken[s] = 1 .. Len(taken[s])
      BY <2>1
    <2> QED
      BY <2>1, <2>2, Zenon DEF Bounded, Rate
  <1> QED
    BY <1>1, RateInductive, PTL DEF Spec

------------------------------------------------------------------------------
(* The places on connections.                                              *)

\* Where a task holds a place, and the tasks that do on a connection.
Holding == Streaming \cup {"counted"}
Holders(tasks, at, c) == {t \in tasks : t.connection = c /\ at[t].pc \in Holding}

\* The inductive invariant.
SlotInv ==
  /\ IsFiniteSet(cast.tasks)
  /\ DOMAIN task = cast.tasks
  /\ \A t \in cast.tasks : "pc" \in DOMAIN task[t]
  /\ counter \in [Connections -> Nat]
  /\ \A c \in Connections :
       /\ counter[c] = Cardinality(Holders(cast.tasks, task, c))
       /\ counter[c] <= MaxConcurrentPerConnection

\* A step moves one task, which keeps what it holds, takes a place or gives it back.
Moves(t) ==
  /\ cast' = cast /\ DOMAIN task' = cast.tasks
  /\ "pc" \in DOMAIN task'[t]
  /\ \A u \in cast.tasks : u # t => task'[u] = task[u]
Keeps(t) == Moves(t) /\ counter' = counter /\ (task'[t].pc \in Holding <=> task[t].pc \in Holding)
Takes(t) ==
  /\ Moves(t) /\ MayCount(t.connection) /\ Count(t.connection)
  /\ task[t].pc \notin Holding /\ task'[t].pc \in Holding
Gives(t) ==
  /\ Moves(t) /\ GiveBack(t.connection)
  /\ task[t].pc \in Holding /\ task'[t].pc \notin Holding

\* A task that takes a place is one holder more, of its connection only.
LEMMA OneHolderMore ==
  ASSUME NEW tasks, IsFiniteSet(tasks), NEW f, NEW g, NEW t \in tasks, NEW c,
         \A u \in tasks : u # t => g[u] = f[u],
         f[t].pc \notin Holding, g[t].pc \in Holding
  PROVE  /\ Cardinality(Holders(tasks, f, c)) \in Nat
         /\ Cardinality(Holders(tasks, g, c))
              = Cardinality(Holders(tasks, f, c)) + (IF t.connection = c THEN 1 ELSE 0)
  <1>1. IsFiniteSet(Holders(tasks, f, c))
    BY FS_Subset DEF Holders
  <1>2. Cardinality(Holders(tasks, f, c)) \in Nat
    BY <1>1, FS_CardinalityType
  <1>3. CASE t.connection = c
    <2>1. Holders(tasks, g, c) = Holders(tasks, f, c) \cup {t} /\ t \notin Holders(tasks, f, c)
      BY <1>3 DEF Holders
    <2>2. Cardinality(Holders(tasks, f, c) \cup {t}) = Cardinality(Holders(tasks, f, c)) + 1
      BY <1>1, <2>1, FS_AddElement, Zenon
    <2> QED
      BY <1>2, <1>3, <2>1, <2>2
  <1>4. CASE t.connection # c
    <2>1. Holders(tasks, g, c) = Holders(tasks, f, c)
      BY <1>4 DEF Holders
    <2> QED
      BY <1>2, <1>4, <2>1
  <1> QED
    BY <1>3, <1>4

\* A step that keeps, takes or gives back a place keeps the invariant.
LEMMA PlacesAreCounted ==
  ASSUME SlotInv, NEW t \in cast.tasks, Keeps(t) \/ Takes(t) \/ Gives(t)
  PROVE  SlotInv'
  <1>1. /\ IsFiniteSet(cast.tasks) /\ DOMAIN task = cast.tasks /\ counter \in [Connections -> Nat]
        /\ \A u \in cast.tasks : "pc" \in DOMAIN task[u]
    BY DEF SlotInv
  <1>2. Moves(t)
    BY DEF Keeps, Takes, Gives
  <1>3. /\ IsFiniteSet(cast'.tasks) /\ DOMAIN task' = cast'.tasks
        /\ \A u \in cast'.tasks : "pc" \in DOMAIN task'[u]
    BY <1>1, <1>2 DEF Moves
  <1>4. MaxConcurrentPerConnection \in Nat
    BY QuotaConfig
  <1>5. ASSUME NEW c \in Connections
        PROVE  /\ counter[c] \in Nat
               /\ counter[c] = Cardinality(Holders(cast.tasks, task, c))
               /\ counter[c] <= MaxConcurrentPerConnection
    BY DEF SlotInv
  <1>6. CASE Keeps(t)
    <2>1. ASSUME NEW c \in Connections
          PROVE  Holders(cast'.tasks, task', c) = Holders(cast.tasks, task, c)
      BY <1>6 DEF Keeps, Moves, Holders
    <2> QED
      BY <1>1, <1>3, <1>5, <1>6, <2>1 DEF Keeps, SlotInv
  <1>7. CASE Takes(t)
    <2>1. ASSUME NEW c \in Connections
          PROVE  Cardinality(Holders(cast'.tasks, task', c))
                   = Cardinality(Holders(cast.tasks, task, c)) + (IF t.connection = c THEN 1 ELSE 0)
      BY <1>1, <1>7, OneHolderMore DEF Takes, Moves
    <2>2. counter' = [counter EXCEPT ![t.connection] = @ + 1]
      BY <1>7 DEF Takes, Count
    <2>3. ASSUME NEW c \in Connections
          PROVE  /\ counter'[c] = Cardinality(Holders(cast'.tasks, task', c))
                 /\ counter'[c] \in Nat
                 /\ counter'[c] <= MaxConcurrentPerConnection
      <3>1. CASE t.connection = c
        <4>1. counter'[c] = counter[c] + 1 /\ counter[c] < MaxConcurrentPerConnection
          BY <1>1, <1>7, <2>2, <3>1 DEF Takes, MayCount
        <4> QED
          BY <1>4, <1>5, <2>1, <3>1, <4>1
      <3>2. CASE t.connection # c
        <4>1. counter'[c] = counter[c]
          BY <1>1, <2>2, <3>2
        <4> QED
          BY <1>5, <2>1, <3>2, <4>1
      <3> QED
        BY <3>1, <3>2
    <2>4. counter' \in [Connections -> Nat]
      BY <1>1, <2>2, <2>3, Zenon
    <2> QED
      BY <1>3, <2>3, <2>4 DEF SlotInv
  <1>8. CASE Gives(t)
    <2>1. ASSUME NEW c \in Connections
          PROVE  /\ Cardinality(Holders(cast'.tasks, task', c)) \in Nat
                 /\ Cardinality(Holders(cast.tasks, task, c))
                      = Cardinality(Holders(cast'.tasks, task', c)) + (IF t.connection = c THEN 1 ELSE 0)
      BY <1>1, <1>8, OneHolderMore DEF Gives, Moves
    <2>2. counter' = [counter EXCEPT ![t.connection] = @ - 1]
      BY <1>8 DEF Gives, GiveBack
    <2>3. ASSUME NEW c \in Connections
          PROVE  /\ counter'[c] = Cardinality(Holders(cast'.tasks, task', c))
                 /\ counter'[c] \in Nat
                 /\ counter'[c] <= MaxConcurrentPerConnection
      <3>1. CASE t.connection = c
        <4>1. counter'[c] = counter[c] - 1
          BY <1>1, <2>2, <3>1
        <4> QED
          BY <1>4, <1>5, <2>1, <3>1, <4>1
      <3>2. CASE t.connection # c
        <4>1. counter'[c] = counter[c]
          BY <1>1, <2>2, <3>2
        <4> QED
          BY <1>5, <2>1, <3>2, <4>1
      <3> QED
        BY <3>1, <3>2
    <2>4. counter' \in [Connections -> Nat]
      BY <1>1, <2>2, <2>3, Zenon
    <2> QED
      BY <1>3, <2>3, <2>4 DEF SlotInv
  <1> QED
    BY <1>6, <1>7, <1>8
\* The two shapes of a subscription's step.
LEMMA StepKeeps ==
  ASSUME SlotInv, NEW t \in cast.tasks, NEW next, Step(t, next), "pc" \in DOMAIN next,
         next.pc \in Holding <=> task[t].pc \in Holding
  PROVE  Keeps(t)
  BY DEF SlotInv, Step, Rest, Keeps, Moves, quotas
LEMMA EndsGives ==
  ASSUME SlotInv, NEW t \in cast.tasks, NEW items, Ends(t, items), task[t].pc \in Holding
  PROVE  Gives(t)
  <1>1. task' = [task EXCEPT ![t].pc = "done", ![t].got = @ \o items]
    BY DEF Ends
  <1>2. "pc" \in DOMAIN task[t] /\ DOMAIN task = cast.tasks
    BY DEF SlotInv
  <1>3. /\ DOMAIN task' = cast.tasks /\ task'[t].pc = "done" /\ "pc" \in DOMAIN task'[t]
        /\ \A u \in cast.tasks : u # t => task'[u] = task[u]
    BY <1>1, <1>2, Zenon
  <1> QED
    BY <1>3 DEF Ends, Rest, Gives, Moves, Holding, Streaming

\* Every step of a task is one of the three.
LEMMA TasksMove ==
  ASSUME SlotInv, NEW t \in cast.tasks,
         \/ Ask(t) \/ Acquire(t) \/ AcquireToken(t) \/ Disconnect(t)
         \/ FindBlock(t) \/ CheckAge(t) \/ CheckLoadable(t) \/ LoadSnapshot(t) \/ FindCutoff(t)
         \/ StreamDtimes(t) \/ FetchEntries(t) \/ YieldEntry(t) \/ Complete(t)
         \/ AskVersion(t) \/ CachedUpdate(t)
  PROVE  Keeps(t) \/ Takes(t) \/ Gives(t)
  <1>0. "pc" \in DOMAIN task[t] /\ DOMAIN task = cast.tasks
    BY DEF SlotInv
  <1>1. CASE Ask(t)
    <2>1. task[t].pc = "idle" \/ task[t].pc = "done"
      BY <1>1, Zenon DEF Ask, At
    <2> DEFINE New(args) ==
          [pc |-> IF t.kind = "update" THEN "ask" ELSE "acquire", args |-> args, began |-> Highest,
           snapshot |-> None, cutoff |-> 0, cursor |-> 0, after |-> 0, buffer |-> <<>>, got |-> <<>>]
    <2>2. \A args : "pc" \in DOMAIN New(args) /\ New(args).pc \in {"ask", "acquire"}
      OBVIOUS
    <2>3. PICK args : Step(t, New(args))
      BY <1>1, Zenon DEF Ask, Step
    <2> HIDE DEF New
    <2>4. New(args).pc \in Holding <=> task[t].pc \in Holding
      BY <2>1, <2>2 DEF Holding, Streaming
    <2> QED
      BY <2>2, <2>3, <2>4, StepKeeps, Zenon
  <1>2. CASE Acquire(t)
    BY <1>0, <1>2 DEF Acquire, At, Goes, Rest, Keeps, Takes, Moves, Holding, Streaming
  <1>3. CASE AcquireToken(t)
    BY <1>0, <1>3 DEF AcquireToken, At, Goes, Rest, Keeps, Gives, Moves, Holding, Streaming
  <1>4. CASE Disconnect(t)
    BY <1>4, EndsGives DEF Disconnect, Holding
  <1>5. CASE FindBlock(t)
    <2>1. task[t].pc \in Holding
      BY <1>5 DEF FindBlock, Is, At, Holding, Streaming
    <2>2. CASE Step(t, [task[t] EXCEPT !.pc = "age", !.snapshot = task[t].args.block])
      BY <1>0, <2>1, <2>2, StepKeeps, Zenon DEF Holding, Streaming
    <2> QED
      BY <1>5, <2>1, <2>2, EndsGives DEF FindBlock
  <1>6. CASE CheckAge(t)
    <2>1. task[t].pc \in Holding
      BY <1>6 DEF CheckAge, Is, At, Holding, Streaming
    <2>2. CASE Step(t, [task[t] EXCEPT !.pc = "loadable", !.began = Highest])
      BY <1>0, <2>1, <2>2, StepKeeps, Zenon DEF Holding, Streaming
    <2> QED
      BY <1>6, <2>1, <2>2, EndsGives DEF CheckAge
  <1>7. CASE CheckLoadable(t)
    <2>1. task[t].pc \in Holding
      BY <1>7 DEF CheckLoadable, Is, At, Holding, Streaming
    <2>2. CASE Step(t, [task[t] EXCEPT !.pc = "load"])
      BY <1>0, <2>1, <2>2, StepKeeps DEF Holding, Streaming
    <2> QED
      BY <1>7, <2>1, <2>2, EndsGives DEF CheckLoadable
  <1>8. CASE LoadSnapshot(t)
    <2>1. task[t].pc \in Holding
      BY <1>8 DEF LoadSnapshot, Is, At, Holding, Streaming
    <2>2. CASE Step(t, [task[t] EXCEPT !.pc = "cutoff"])
      BY <1>0, <2>1, <2>2, StepKeeps DEF Holding, Streaming
    <2> QED
      BY <1>8, <2>1, <2>2, EndsGives DEF LoadSnapshot, Reads
  <1>9. CASE FindCutoff(t)
    <2>1. task[t].pc \in Holding
      BY <1>9 DEF FindCutoff, Is, At, Holding, Streaming
    <2>2. Step(t, [task[t] EXCEPT !.pc = "dtimes", !.cutoff = CutoffBlockId(task[t].args.cutoff)])
      BY <1>9 DEF FindCutoff
    <2> QED
      BY <1>0, <2>1, <2>2, StepKeeps, Zenon DEF Holding, Streaming
  <1>10. CASE StreamDtimes(t)
    <2>1. task[t].pc = "dtimes"
      BY <1>10, Zenon DEF StreamDtimes, Is, At
    <2>2. CASE Step(t, [task[t] EXCEPT !.pc = "entries"])
      BY <1>0, <2>1, <2>2, StepKeeps DEF Holding, Streaming
    <2>3. ASSUME NEW after, NEW more,
                 Step(t, [task[t] EXCEPT !.after = after, !.got = @ \o more])
          PROVE  Keeps(t)
      BY <1>0, <2>1, <2>3, StepKeeps, Zenon DEF Holding, Streaming
    <2> QED
      BY <1>10, <2>2, <2>3, Zenon DEF StreamDtimes
  <1>11. CASE FetchEntries(t)
    <2>1. task[t].pc = "entries"
      BY <1>11 DEF FetchEntries, Is, At
    <2>2. ASSUME Step(t, [task[t] EXCEPT !.pc = "final"])
          PROVE  Keeps(t)
      BY <1>0, <2>1, <2>2, StepKeeps DEF Holding, Streaming
    <2>3. ASSUME NEW rows, Step(t, [task[t] EXCEPT !.buffer = rows])
          PROVE  Keeps(t)
      BY <1>0, <2>1, <2>3, StepKeeps DEF Holding, Streaming
    <2> QED
      BY <1>11, <2>2, <2>3 DEF FetchEntries
  <1>12. CASE YieldEntry(t)
    <2>1. task[t].pc \in Holding
      BY <1>12 DEF YieldEntry, Is, At, Holding, Streaming
    <2>2. ASSUME NEW cursor, NEW pc \in {"final", "entries"}, NEW item,
                 Step(t, [task[t] EXCEPT !.buffer = Tail(@), !.cursor = cursor, !.pc = pc,
                                         !.got = Append(@, item)])
          PROVE  Keeps(t)
      BY <1>0, <2>1, <2>2, StepKeeps, Zenon DEF Holding, Streaming
    <2> QED
      BY <1>12, <2>1, <2>2, EndsGives, Zenon DEF YieldEntry, Reads
  <1>13. CASE Complete(t)
    <2>1. task[t].pc = "final"
      BY <1>13, Zenon DEF Complete, Is, At
    <2>2. task[t].pc \in Holding
      BY <2>1 DEF Holding, Streaming
    <2> QED
      BY <1>13, <2>2, EndsGives, Zenon DEF Complete, Reads
  <1>14. CASE AskVersion(t)
    <2>1. task[t].pc = "ask"
      BY <1>14 DEF AskVersion, At
    <2>2. ASSUME Step(t, [task[t] EXCEPT !.pc = "done", !.got = <<Err>>])
          PROVE  Keeps(t)
      BY <1>0, <2>1, <2>2, StepKeeps, Zenon DEF Holding, Streaming
    <2>3. ASSUME Step(t, [task[t] EXCEPT !.pc = "check"])
          PROVE  Keeps(t)
      BY <1>0, <2>1, <2>3, StepKeeps DEF Holding, Streaming
    <2> QED
      BY <1>14, <2>2, <2>3 DEF AskVersion
  <1>15. CASE CachedUpdate(t)
    <2>1. task[t].pc \in {"check", "lock", "key", "loading"}
      BY <1>15 DEF CachedUpdate, CheckCache, LockCache, ReadKey, LoadState, At
    <2>2. ASSUME NEW n, Answers(t, n) \/ Panics(t, n)
          PROVE  Keeps(t)
      BY <1>0, <2>1, <2>2 DEF Answers, Panics, Keeps, Moves, Holding, Streaming, quotas
    <2>3. CASE CheckCache(t)
      <3>1. ASSUME Step(t, [task[t] EXCEPT !.pc = "lock"])
            PROVE  Keeps(t)
        BY <1>0, <2>1, <3>1, StepKeeps DEF Holding, Streaming
      <3> QED
        BY <2>2, <2>3, <3>1 DEF CheckCache
    <2>4. CASE LockCache(t)
      <3>1. ASSUME Goes(t, "key"), UNCHANGED <<quotas, cast>>
            PROVE  Keeps(t)
        BY <1>0, <2>1, <3>1 DEF Goes, Keeps, Moves, Holding, Streaming, quotas
      <3> QED
        BY <2>2, <2>4, <3>1, Zenon DEF LockCache
    <2>5. CASE ReadKey(t)
      <3>1. Step(t, [task[t] EXCEPT !.pc = "loading", !.snapshot = Highest])
        BY <2>5 DEF ReadKey
      <3> QED
        BY <1>0, <2>1, <3>1, StepKeeps, Zenon DEF Holding, Streaming
    <2>6. CASE LoadState(t)
      BY <2>2, <2>6, Zenon DEF LoadState
    <2> QED
      BY <1>15, <2>3, <2>4, <2>5, <2>6, Zenon DEF CachedUpdate
  <1> QED
    BY <1>1, <1>2, <1>3, <1>4, <1>5, <1>6, <1>7, <1>8, <1>9, <1>10, <1>11, <1>12, <1>13,
       <1>14, <1>15, Zenon

\* The invariant is inductive.
THEOREM SlotInductive == (Init => SlotInv) /\ (SlotInv /\ [Next]_vars => SlotInv')
  <1>1. ASSUME Init PROVE SlotInv
    <2>1. /\ IsFiniteSet(cast.tasks) /\ DOMAIN task = cast.tasks
          /\ \A t \in cast.tasks : task[t].pc = "idle" /\ "pc" \in DOMAIN task[t]
      BY <1>1, CastsAreFinite DEF Init, IdleTask
    <2>2. counter = [c \in Connections |-> 0]
      BY <1>1 DEF Init, QuotaInit
    <2>3. ASSUME NEW c \in Connections
          PROVE  Cardinality(Holders(cast.tasks, task, c)) = 0
      <3>1. Holders(cast.tasks, task, c) = {}
        BY <2>1 DEF Holders, Holding, Streaming
      <3> QED
        BY <3>1, FS_EmptySet
    <2>4. MaxConcurrentPerConnection \in Nat
      BY QuotaConfig
    <2> QED
      BY <2>1, <2>2, <2>3, <2>4 DEF SlotInv
  <1>2. ASSUME SlotInv, [Next]_vars PROVE SlotInv'
    <2>1. ASSUME UNCHANGED <<cast, task, counter>>
          PROVE  SlotInv'
      BY <1>2, <2>1 DEF SlotInv, Holders
    <2>2. CASE SaveBlock \/ Collect \/ PassTime \/ UNCHANGED vars
      BY <2>1, <2>2 DEF SaveBlock, Collect, PassTime, vars, quotas, readVars
    <2> QED
      BY <1>2, <2>2, TasksMove, PlacesAreCounted DEF Next
  <1> QED
    BY <1>1, <1>2

\* The places taken on a connection are those of its running subscriptions, never
\* more than it has (try_acquire, and the drop of the guard at every end).
THEOREM SlotsHold == Spec => []SlotsAreGivenBack
  <1>1. SlotInv => SlotsAreGivenBack
    BY DEF SlotInv, SlotsAreGivenBack, Holders, Holding
  <1> QED
    BY <1>1, SlotInductive, PTL DEF Spec

------------------------------------------------------------------------------
(* The trees of the chain.                                                 *)

LEMMA Rewrites ==
  /\ \A tree, x : Rewritten(tree, x, x)
  /\ \A tree, x, y, z : Rewritten(tree, x, y) /\ Rewritten(tree, y, z) => Rewritten(tree, x, z)
  BY DEF Rewritten

LEMMA OutgrowsIsOrder ==
  ASSUME NEW tree, NEW S, NEW x \in Seq(S), NEW y \in Seq(S), NEW z \in Seq(S)
  PROVE  /\ Outgrows(tree, x, x)
         /\ Outgrows(tree, y, x) /\ Outgrows(tree, z, y) => Outgrows(tree, z, x)
  <1>1. Len(x) \in Nat /\ Len(y) \in Nat /\ Len(z) \in Nat
    OBVIOUS
  <1>2. Outgrows(tree, x, x)
    BY <1>1, Rewrites DEF Outgrows
  <1>3. ASSUME Outgrows(tree, y, x), Outgrows(tree, z, y) PROVE Outgrows(tree, z, x)
    <2>1. Len(x) <= Len(y) /\ Len(y) <= Len(z)
      BY <1>3 DEF Outgrows
    <2>2. ASSUME NEW k \in 1 .. Len(x) PROVE Rewritten(tree, x[k], z[k])
      <3>1. k \in 1 .. Len(y)
        BY <1>1, <2>1
      <3>2. Rewritten(tree, x[k], y[k]) /\ Rewritten(tree, y[k], z[k])
        BY <1>3, <3>1 DEF Outgrows
      <3> QED
        BY <3>2, Rewrites
    <2> QED
      BY <1>1, <2>1, <2>2 DEF Outgrows
  <1> QED
    BY <1>2, <1>3

LEMMA Appended ==
  ASSUME NEW tree, NEW S, NEW x \in Seq(S), NEW leaf \in S
  PROVE  Append(x, leaf) \in Seq(S) /\ Outgrows(tree, Append(x, leaf), x)
  <1>1. /\ Append(x, leaf) \in Seq(S) /\ Len(x) \in Nat /\ Len(Append(x, leaf)) = Len(x) + 1
        /\ \A k \in 1 .. Len(x) : Append(x, leaf)[k] = x[k]
    OBVIOUS
  <1> QED
    BY <1>1, Rewrites DEF Outgrows

BlockType == [trees : AllTrees, ended : Seq(Nat)]

LEMMA TreeTypes ==
  ASSUME NEW trees
  PROVE  trees \in AllTrees
           <=> /\ trees = [tree \in Trees |-> trees[tree]]
               /\ trees["zswap"] \in Seq(Nat) /\ trees["commitments"] \in Seq(Nat)
               /\ trees["generations"] \in Seq(Generation)
  BY DEF AllTrees, Trees

\* A block's trees outgrow the ones before it.
LEMMA ChangesGrow ==
  ASSUME Highest \in Nat, NEW trees \in AllTrees, NEW b \in Changes(trees)
  PROVE  /\ b \in BlockType
         /\ \A tree \in Trees : Outgrows(tree, b.trees[tree], trees[tree])
  <1>1. /\ trees = [tree \in Trees |-> trees[tree]] /\ DOMAIN trees = Trees
        /\ trees["zswap"] \in Seq(Nat) /\ trees["commitments"] \in Seq(Nat)
        /\ trees["generations"] \in Seq(Generation)
    BY TreeTypes
  <1>2. \A tree \in Trees : Outgrows(tree, trees[tree], trees[tree])
    BY <1>1, OutgrowsIsOrder DEF Trees
  <1>3. <<>> \in Seq(Nat)
    OBVIOUS
  <1>4. CASE b = [trees |-> trees, ended |-> <<>>]
    BY <1>2, <1>3, <1>4 DEF BlockType
  <1>5. CASE b = [trees |-> Grown(trees, "zswap", Highest), ended |-> <<>>]
    <2> DEFINE new == Grown(trees, "zswap", Highest)
    <2>1. /\ DOMAIN new = Trees /\ new = [tree \in Trees |-> new[tree]]
          /\ new["zswap"] = Append(trees["zswap"], Highest)
          /\ new["commitments"] = trees["commitments"] /\ new["generations"] = trees["generations"]
      BY <1>1, Zenon DEF Grown, Trees
    <2>2. new["zswap"] \in Seq(Nat) /\ Outgrows("zswap", new["zswap"], trees["zswap"])
      BY <1>1, <2>1, Appended, ZenonT(30)
    <2> HIDE DEF new
    <2>3. new \in AllTrees
      BY <1>1, <2>1, <2>2, TreeTypes
    <2>4. \A tree \in Trees : Outgrows(tree, new[tree], trees[tree])
      BY <1>2, <2>1, <2>2 DEF Trees
    <2>5. b.trees = new /\ b = [trees |-> new, ended |-> <<>>]
      BY <1>5 DEF new
    <2> QED
      BY <1>3, <2>3, <2>4, <2>5 DEF BlockType
  <1>6. ASSUME NEW owner \in {"mine", "other"},
               b = [trees |-> Grown(Grown(trees, "commitments", Highest), "generations",
                                    [owner |-> owner, ended |-> FALSE]), ended |-> <<>>]
        PROVE  /\ b \in BlockType
               /\ \A tree \in Trees : Outgrows(tree, b.trees[tree], trees[tree])
    <2> DEFINE leaf == [owner |-> owner, ended |-> FALSE]
               new == Grown(Grown(trees, "commitments", Highest), "generations", leaf)
    <2>1. /\ DOMAIN new = Trees /\ new = [tree \in Trees |-> new[tree]]
          /\ new["zswap"] = trees["zswap"]
          /\ new["commitments"] = Append(trees["commitments"], Highest)
          /\ new["generations"] = Append(trees["generations"], leaf)
      BY <1>1, Zenon DEF Grown, Trees
    <2>2. leaf \in Generation
      BY DEF Generation
    <2> HIDE DEF leaf
    <2>3. /\ new["commitments"] \in Seq(Nat)
          /\ Outgrows("commitments", new["commitments"], trees["commitments"])
      BY <1>1, <2>1, Appended, Zenon
    <2>4. /\ new["generations"] \in Seq(Generation)
          /\ Outgrows("generations", new["generations"], trees["generations"])
      BY <1>1, <2>1, <2>2, Appended, Zenon
    <2> HIDE DEF new
    <2>5. new \in AllTrees
      BY <1>1, <2>1, <2>3, <2>4, TreeTypes, Zenon
    <2>6. \A tree \in Trees : Outgrows(tree, new[tree], trees[tree])
      BY <1>2, <2>1, <2>3, <2>4 DEF Trees
    <2>7. b.trees = new /\ b = [trees |-> new, ended |-> <<>>]
      BY <1>6 DEF new, leaf
    <2> QED
      BY <1>3, <2>5, <2>6, <2>7 DEF BlockType
  <1>7. ASSUME NEW i \in DOMAIN trees["generations"],
               b = [trees |-> [trees EXCEPT !["generations"][i].ended = TRUE], ended |-> <<i - 1>>]
        PROVE  /\ b \in BlockType
               /\ \A tree \in Trees : Outgrows(tree, b.trees[tree], trees[tree])
    <2> DEFINE new  == [trees EXCEPT !["generations"][i].ended = TRUE]
               gens == trees["generations"]
               leaf == [gens[i] EXCEPT !.ended = TRUE]
    <2>1. /\ DOMAIN new = Trees /\ new = [tree \in Trees |-> new[tree]]
          /\ new["zswap"] = trees["zswap"] /\ new["commitments"] = trees["commitments"]
          /\ new["generations"] = [gens EXCEPT ![i] = leaf]
      BY <1>1, Zenon DEF Trees
    <2>2. /\ gens \in Seq(Generation) /\ Len(gens) \in Nat /\ i \in 1 .. Len(gens)
          /\ DOMAIN gens = 1 .. Len(gens) /\ gens[i] \in Generation
      BY <1>1
    <2>3. leaf \in Generation /\ leaf.owner = gens[i].owner /\ leaf.ended = TRUE
      BY <2>2, Zenon DEF Generation
    <2> DEFINE more == [gens EXCEPT ![i] = leaf]
    <2> HIDE DEF leaf, gens, new
    <2>4. /\ more \in Seq(Generation) /\ Len(more) = Len(gens)
          /\ \A k \in 1 .. Len(gens) : more[k] = IF k = i THEN leaf ELSE gens[k]
      <3>1. more = [k \in 1 .. Len(gens) |-> IF k = i THEN leaf ELSE gens[k]]
        BY <2>2, Zenon
      <3>2. \A k \in 1 .. Len(gens) : gens[k] \in Generation
        BY <2>2
      <3> HIDE DEF more
      <3>3. \A k \in 1 .. Len(gens) : more[k] \in Generation
        BY <2>3, <3>1, <3>2
      <3>4. more \in Seq(Generation)
        BY <2>2, <3>1, <3>3
      <3> QED
        BY <2>2, <3>1, <3>4
    <2> HIDE DEF more
    <2>5. Outgrows("generations", more, gens)
      <3>1. ASSUME NEW k \in 1 .. Len(gens)
            PROVE  Rewritten("generations", gens[k], more[k])
        BY <2>3, <2>4 DEF Rewritten
      <3> QED
        BY <2>2, <2>4, <3>1 DEF Outgrows
    <2>6. <<i - 1>> \in Seq(Nat)
      <3>1. i - 1 \in Nat
        BY <2>2
      <3> QED
        BY <3>1
    <2>7. new \in AllTrees
      BY <1>1, <2>1, <2>4, TreeTypes, Zenon DEF more
    <2>8. \A tree \in Trees : Outgrows(tree, new[tree], trees[tree])
      BY <1>2, <2>1, <2>5 DEF Trees, gens, more
    <2>9. b.trees = new /\ b = [trees |-> new, ended |-> <<i - 1>>]
      BY <1>7 DEF new
    <2> QED
      BY <2>6, <2>7, <2>8, <2>9 DEF BlockType
  <1> QED
    BY <1>4, <1>5, <1>6, <1>7, Zenon DEF Changes

\* The trees of the saved blocks.
ChainFacts ==
  /\ Highest \in Nat
  /\ \A n \in 1 .. Highest : \A tree \in Trees :
       /\ n # None
       /\ TreeAt(n, tree) = blocks[n].trees[tree]
       /\ TreeAt(n, tree) \in Seq(Leaf(tree))
       /\ FirstFree(n, tree) = Len(blocks[n].trees[tree])
       /\ FirstFree(n, tree) \in Nat
  /\ \A n, m \in 1 .. Highest : n <= m => \A tree \in Trees :
       Outgrows(tree, TreeAt(m, tree), TreeAt(n, tree)) /\ FirstFree(n, tree) <= FirstFree(m, tree)

LEMMA ChainTrees ==
  ASSUME ChainInv
  PROVE  ChainFacts
  <1>1. blocks \in Seq(BlockType) /\ Highest \in Nat
    BY DEF ChainInv, BlockType, Highest
  <1>2. ASSUME NEW n \in 1 .. Highest, NEW tree \in Trees
        PROVE  /\ n # None
               /\ TreeAt(n, tree) = blocks[n].trees[tree]
               /\ TreeAt(n, tree) \in Seq(Leaf(tree))
               /\ FirstFree(n, tree) = Len(blocks[n].trees[tree])
               /\ FirstFree(n, tree) \in Nat
    <2>1. n # None
      BY <1>1, ResultsAreDistinct
    <2>2. blocks[n] \in BlockType
      BY <1>1 DEF Highest
    <2>3. blocks[n].trees \in AllTrees
      BY <2>2 DEF BlockType
    <2>4. blocks[n].trees[tree] \in Seq(Leaf(tree))
      BY <2>3, TreeTypes DEF Leaf, Trees
    <2> QED
      BY <2>1, <2>4 DEF TreeAt, FirstFree
  <1>3. ASSUME NEW n \in 1 .. Highest, NEW m \in 1 .. Highest, n <= m, NEW tree \in Trees
        PROVE  Outgrows(tree, TreeAt(m, tree), TreeAt(n, tree)) /\ FirstFree(n, tree) <= FirstFree(m, tree)
    <2>1. Outgrows(tree, blocks[m].trees[tree], blocks[n].trees[tree])
      BY <1>3 DEF ChainInv
    <2>2. /\ TreeAt(n, tree) = blocks[n].trees[tree] /\ FirstFree(n, tree) = Len(blocks[n].trees[tree])
          /\ TreeAt(m, tree) = blocks[m].trees[tree] /\ FirstFree(m, tree) = Len(blocks[m].trees[tree])
      BY <1>2
    <2> QED
      BY <2>1, <2>2, Zenon DEF Outgrows
  <1> QED
    BY <1>1, <1>2, <1>3 DEF ChainFacts

LEMMA ChainTreesNext == ChainInv' => ChainFacts'
  <1>1. ChainInv => ChainFacts
    BY ChainTrees
  <1> QED
    BY <1>1, PTL

\* The chain after a block is saved: the trees of the new block outgrow all.
LEMMA SaveChain ==
  ASSUME ChainInv, SaveBlock
  PROVE  /\ ChainInv' /\ Highest' = Highest + 1
         /\ \A n \in 1 .. Highest : blocks'[n] = blocks[n]
  <1>1. blocks \in Seq(BlockType) /\ Highest \in Nat
    BY DEF ChainInv, BlockType, Highest
  <1> DEFINE last == IF Highest = 0 THEN NoTrees ELSE blocks[Highest].trees
  <1>2. PICK b \in Changes(last) : blocks' = Append(blocks, b)
    BY DEF SaveBlock
  <1>3. last \in AllTrees
    <2>1. CASE Highest = 0
      <3>1. NoTrees \in AllTrees
        <4>1. \A S : <<>> \in Seq(S)
          OBVIOUS
        <4> QED
          BY <4>1, TreeTypes, Zenon DEF NoTrees, Trees
      <3> QED
        BY <2>1, <3>1
    <2>2. CASE Highest # 0
      <3>1. blocks[Highest] \in BlockType
        BY <1>1, <2>2 DEF Highest
      <3> QED
        BY <2>2, <3>1 DEF BlockType
    <2> QED
      BY <2>1, <2>2
  <1> HIDE DEF last
  <1>4. b \in BlockType /\ \A tree \in Trees : Outgrows(tree, b.trees[tree], last[tree])
    BY <1>1, <1>3, ChangesGrow
  <1>5. /\ blocks' \in Seq(BlockType) /\ Highest' = Highest + 1
        /\ \A n \in 1 .. Highest : blocks'[n] = blocks[n]
        /\ blocks'[Highest + 1] = b
    BY <1>1, <1>2, <1>4 DEF Highest
  <1>6. ASSUME NEW n \in 1 .. Highest', NEW m \in 1 .. Highest', n <= m, NEW tree \in Trees
        PROVE  Outgrows(tree, blocks'[m].trees[tree], blocks'[n].trees[tree])
    <2>1. \A k \in 1 .. Highest' : blocks'[k].trees \in AllTrees
      <3>1. \A k \in 1 .. Highest' : blocks'[k] \in BlockType
        BY <1>5 DEF Highest
      <3> QED
        BY <3>1 DEF BlockType
    <2>2. \A k \in 1 .. Highest' : blocks'[k].trees[tree] \in Seq(Leaf(tree))
      BY <2>1, TreeTypes DEF Leaf, Trees
    <2>3. CASE m <= Highest
      <3>1. n \in 1 .. Highest /\ m \in 1 .. Highest
        BY <1>1, <1>5, <1>6, <2>3
      <3> QED
        BY <1>5, <1>6, <3>1, Zenon DEF ChainInv
    <2>4. CASE m = n
      BY <2>2, <2>4, OutgrowsIsOrder
    <2>5. CASE n <= Highest /\ m = Highest + 1
      <3>1. /\ n \in 1 .. Highest /\ Highest \in 1 .. Highest /\ n <= Highest /\ Highest # 0
            /\ n \in 1 .. Highest' /\ m \in 1 .. Highest' /\ Highest \in 1 .. Highest'
        BY <1>1, <1>5, <1>6, <2>5
      <3>2. Outgrows(tree, blocks[Highest].trees[tree], blocks[n].trees[tree])
        BY <3>1 DEF ChainInv
      <3>3. Outgrows(tree, b.trees[tree], blocks[Highest].trees[tree])
        BY <1>4, <3>1 DEF last
      <3>4. /\ blocks'[n] = blocks[n] /\ blocks'[m] = b /\ blocks'[Highest] = blocks[Highest]
        BY <1>5, <2>5, <3>1
      <3>5. /\ blocks[n].trees[tree] \in Seq(Leaf(tree)) /\ b.trees[tree] \in Seq(Leaf(tree))
            /\ blocks[Highest].trees[tree] \in Seq(Leaf(tree))
        BY <2>2, <3>1, <3>4
      <3>6. Outgrows(tree, b.trees[tree], blocks[n].trees[tree])
        <4> DEFINE x == blocks[n].trees[tree]
                   y == blocks[Highest].trees[tree]
                   z == b.trees[tree]
        <4>1. x \in Seq(Leaf(tree)) /\ y \in Seq(Leaf(tree)) /\ z \in Seq(Leaf(tree))
          BY <3>5
        <4>2. Outgrows(tree, y, x) /\ Outgrows(tree, z, y)
          BY <3>2, <3>3
        <4> HIDE DEF x, y, z
        <4>3. Outgrows(tree, z, x)
          BY <4>1, <4>2, OutgrowsIsOrder, Zenon
        <4> QED
          BY <4>3 DEF x, z
      <3> QED
        BY <3>4, <3>6
    <2> QED
      BY <1>1, <1>5, <1>6, <2>3, <2>4, <2>5
  <1>7. culled' \in Nat /\ (culled' > 0 => culled' <= Highest' - Retention)
    BY <1>1, <1>5, RetentionExceedsAge DEF ChainInv, SaveBlock
  <1> QED
    BY <1>5, <1>6, <1>7 DEF ChainInv, BlockType

------------------------------------------------------------------------------
(* What is read from the chain.                                            *)

\* A request's arguments.
LEMMA Requests ==
  ASSUME cast \in Casts, NEW t \in cast.tasks
  PROVE  /\ t.kind = "dust" => \A a \in t.args : a.block \in Nat \ {0}
         /\ t.kind = "update" => \A a \in t.args : a.tree \in Trees /\ a.start \in Nat /\ a.end \in Nat
  BY CastsAreRequests

\* The trees after a block is saved, beside those before.
LEMMA SaveTrees ==
  ASSUME ChainInv, SaveBlock
  PROVE  /\ Highest \in Nat /\ Highest' = Highest + 1
         /\ \A n \in 1 .. Highest : \A tree \in Trees :
              /\ n # None
              /\ TreeAt(n, tree) \in Seq(Leaf(tree)) /\ FirstFree(n, tree) \in Nat
              /\ TreeAt(n, tree)' = TreeAt(n, tree) /\ FirstFree(n, tree)' = FirstFree(n, tree)
         /\ \A tree \in Trees :
              /\ FirstFree(Highest, tree)' \in Nat
              /\ \A n \in 1 .. Highest :
                   /\ FirstFree(n, tree) <= FirstFree(Highest, tree)'
                   /\ \A k \in 1 .. FirstFree(n, tree) :
                        Rewritten(tree, TreeAt(n, tree)[k], TreeAt(Highest, tree)'[k])
  <1>1. /\ ChainInv' /\ Highest' = Highest + 1
        /\ \A n \in 1 .. Highest : blocks'[n] = blocks[n]
    BY SaveChain
  <1>2. ChainFacts /\ ChainFacts'
    BY <1>1, ChainTrees, ChainTreesNext
  <1>3. Highest \in Nat /\ \A n \in 1 .. Highest : n \in 1 .. Highest' /\ n <= Highest'
    BY <1>1, <1>2 DEF ChainFacts
  <1>4. Highest' \in 1 .. Highest'
    BY <1>1, <1>3
  <1>5. ASSUME NEW n \in 1 .. Highest, NEW tree \in Trees
        PROVE  /\ n # None
               /\ TreeAt(n, tree) \in Seq(Leaf(tree)) /\ FirstFree(n, tree) \in Nat
               /\ TreeAt(n, tree)' = TreeAt(n, tree) /\ FirstFree(n, tree)' = FirstFree(n, tree)
    BY <1>1, <1>2, Zenon DEF ChainFacts, TreeAt, FirstFree
  <1>6. ASSUME NEW tree \in Trees
        PROVE  FirstFree(Highest, tree)' \in Nat
    BY <1>2, <1>4 DEF ChainFacts
  <1>7. ASSUME NEW tree \in Trees, NEW n \in 1 .. Highest
        PROVE  /\ FirstFree(n, tree) <= FirstFree(Highest, tree)'
               /\ \A k \in 1 .. FirstFree(n, tree) :
                    Rewritten(tree, TreeAt(n, tree)[k], TreeAt(Highest, tree)'[k])
    <2>1. Outgrows(tree, TreeAt(Highest, tree)', TreeAt(n, tree)')
      BY <1>2, <1>3, <1>4, ZenonT(30) DEF ChainFacts
    <2>2. Outgrows(tree, TreeAt(Highest, tree)', TreeAt(n, tree))
      BY <1>5, <2>1, Zenon
    <2> QED
      BY <2>2 DEF Outgrows, FirstFree
  <1> QED
    BY <1>1, <1>3, <1>5, <1>6, <1>7

\* An answer still fits when a block is saved.
LEMMA SaveFits ==
  ASSUME ChainInv, SaveBlock, NEW r, FitsInv(r),
         r.args.tree \in Trees, r.args.start \in Nat, r.args.end \in Nat, r.began \in 0 .. Highest
  PROVE  FitsInv(r)'
  <1> DEFINE tree == r.args.tree
             a == r.args.start
             e == r.args.end
             got == r.got[1]
  <1>1. /\ Highest \in Nat /\ Highest' = Highest + 1
        /\ \A n \in 1 .. Highest :
             /\ n # None
             /\ TreeAt(n, tree) \in Seq(Leaf(tree)) /\ FirstFree(n, tree) \in Nat
             /\ TreeAt(n, tree)' = TreeAt(n, tree) /\ FirstFree(n, tree)' = FirstFree(n, tree)
        /\ FirstFree(Highest, tree)' \in Nat
        /\ \A n \in 1 .. Highest :
             /\ FirstFree(n, tree) <= FirstFree(Highest, tree)'
             /\ \A k \in 1 .. FirstFree(n, tree) :
                  Rewritten(tree, TreeAt(n, tree)[k], TreeAt(Highest, tree)'[k])
    BY SaveTrees
  <1>2. ChainFacts
    BY ChainTrees
  <1>3. Retention \in Nat /\ Retention > 0
    BY RetentionExceedsAge
  <1> HIDE DEF tree, a, e, got
  <1>4. /\ r.began \in 0 .. Highest /\ a \in Nat /\ e \in Nat /\ tree \in Trees
    BY Zenon DEF a, e, tree
  <1>5. got = Err => ~(r.began > 0 /\ a <= e /\ e < FirstFree(r.began, tree)')
    <2> SUFFICES ASSUME got = Err, r.began > 0 PROVE ~(a <= e /\ e < FirstFree(r.began, tree)')
      BY Zenon
    <2>1. ~(a <= e /\ e < FirstFree(r.began, tree))
      BY DEF FitsInv, a, e, tree, got
    <2>2. r.began \in 1 .. Highest
      BY <1>1, <1>4
    <2> QED
      BY <1>1, <2>1, <2>2, Zenon
  <1>6. got = Panic => /\ Highest' - Retention > 0
                       /\ e < FirstFree(Highest - Retention, tree)' \/ r.began <= Highest' - Retention
    <2> SUFFICES ASSUME got = Panic
                 PROVE  /\ Highest' - Retention > 0
                        /\ e < FirstFree(Highest - Retention, tree)' \/ r.began <= Highest' - Retention
      OBVIOUS
    <2> DEFINE old == Highest - Retention
               new == Highest' - Retention
    <2>1. old > 0 /\ (e < FirstFree(old, tree) \/ r.began <= old)
      BY DEF FitsInv, a, e, tree, got
    <2>2. /\ old \in 1 .. Highest /\ new \in 1 .. Highest /\ old <= new /\ new = old + 1 /\ new > 0
      BY <1>1, <1>3, <2>1
    <2> HIDE DEF old, new
    <2>3. FirstFree(old, tree) <= FirstFree(new, tree) /\ FirstFree(old, tree) \in Nat /\ FirstFree(new, tree) \in Nat
      BY <1>2, <1>4, <2>2 DEF ChainFacts
    <2>4. FirstFree(Highest - Retention, tree)' = FirstFree(new, tree)
      <3>1. blocks'[new] = blocks[new]
        BY <2>2, SaveChain
      <3>2. FirstFree(Highest - Retention, tree)' = IF new = None THEN 0 ELSE Len(blocks'[new].trees[tree])
        BY DEF FirstFree, TreeAt, new
      <3> QED
        BY <3>1, <3>2 DEF FirstFree, TreeAt
    <2>5. CASE r.began <= old
      <3>1. r.began <= new
        BY <1>4, <2>2, <2>5
      <3> QED
        BY <2>2, <3>1, Zenon DEF new
    <2>6. CASE e < FirstFree(old, tree)
      <3>1. e < FirstFree(new, tree)
        BY <1>4, <2>3, <2>6
      <3> QED
        BY <2>2, <2>4, <3>1, Zenon DEF new
    <2> QED
      BY <2>1, <2>5, <2>6
  <1>7. got \notin {Err, Panic} =>
          /\ got.leaves \in Seq(Leaf(tree)) /\ Len(got.leaves) = e - a + 1
          /\ a <= e /\ e < FirstFree(Highest, tree)'
          /\ \A k \in 1 .. (e - a + 1) : Rewritten(tree, got.leaves[k], TreeAt(Highest, tree)'[a + k])
    <2> SUFFICES ASSUME got \notin {Err, Panic}
                 PROVE  /\ got.leaves \in Seq(Leaf(tree)) /\ Len(got.leaves) = e - a + 1
                        /\ a <= e /\ e < FirstFree(Highest, tree)'
                        /\ \A k \in 1 .. (e - a + 1) :
                             Rewritten(tree, got.leaves[k], TreeAt(Highest, tree)'[a + k])
      BY Zenon
    <2>1. /\ got.leaves \in Seq(Leaf(tree)) /\ Len(got.leaves) = e - a + 1
          /\ a <= e /\ Highest > 0 /\ e < FirstFree(Highest, tree)
          /\ \A k \in 1 .. (e - a + 1) : Rewritten(tree, got.leaves[k], TreeAt(Highest, tree)[a + k])
      BY DEF FitsInv, a, e, tree, got
    <2>2. Highest \in 1 .. Highest
      BY <1>1, <2>1
    <2>3. /\ FirstFree(Highest, tree) \in Nat /\ FirstFree(Highest, tree)' \in Nat
          /\ FirstFree(Highest, tree) <= FirstFree(Highest, tree)'
      BY <1>1, <2>2, Zenon
    <2>4. ASSUME NEW k \in 1 .. (e - a + 1)
          PROVE  Rewritten(tree, got.leaves[k], TreeAt(Highest, tree)'[a + k])
      <3>1. a + k \in 1 .. FirstFree(Highest, tree)
        BY <1>4, <2>1, <2>3
      <3>2. Rewritten(tree, TreeAt(Highest, tree)[a + k], TreeAt(Highest, tree)'[a + k])
        BY <1>1, <2>2, <3>1, Zenon
      <3>3. Rewritten(tree, got.leaves[k], TreeAt(Highest, tree)[a + k])
        BY <2>1
      <3> QED
        BY <3>2, <3>3, Rewrites
    <2> QED
      BY <1>4, <2>1, <2>3, <2>4
  <1>8. Highest' > 0
    BY <1>1
  <1> QED
    BY <1>5, <1>6, <1>7, <1>8, Zenon DEF FitsInv, a, e, tree, got

\* Growing by a block leaves every task within the invariant.
LEMMA SaveRead ==
  ASSUME ReadInv, SaveBlock
  PROVE  ReadInv'
  <1>1. /\ ChainInv /\ ChainInv' /\ Highest \in Nat /\ Highest' = Highest + 1
        /\ cast' = cast /\ cache' = cache /\ task' = task
    BY SaveChain, ChainTrees DEF ReadInv, ChainFacts, SaveBlock
  <1>2. Retention \in Nat /\ MaxSnapshotAge \in Nat
    BY RetentionExceedsAge
  <1>3. cache' = None \/ cache' \in 1 .. Highest'
    BY <1>1 DEF ReadInv
  <1>4. ASSUME NEW t \in cast.tasks PROVE TaskInv(t, task[t])'
    <2> DEFINE r == task[t]
    <2>1. TaskInv(t, r) /\ cast \in Casts
      BY DEF ReadInv
    <2>2. IF task'[t].pc = "idle" THEN task'[t] = IdleTask ELSE DOMAIN task'[t] = Fields
      BY <1>1, <2>1, Zenon DEF TaskInv
    <2>3. t.kind = "update" => QueryInv(t, task[t])'
      <3> SUFFICES ASSUME t.kind = "update" PROVE QueryInv(t, task[t])'
        OBVIOUS
      <3>1. QueryInv(t, r)
        BY <2>1, Zenon DEF TaskInv
      <3>2. r.got # <<>> => FitsInv(task[t])'
        <4> SUFFICES ASSUME r.got # <<>> PROVE FitsInv(task[t])'
          OBVIOUS
        <4>1. FitsInv(r) /\ r.args \in t.args /\ r.began \in 0 .. Highest
          BY <3>1 DEF QueryInv
        <4>2. r.args.tree \in Trees /\ r.args.start \in Nat /\ r.args.end \in Nat
          BY <2>1, <4>1, Requests
        <4>3. PICK x : x = r
          OBVIOUS
        <4>4. FitsInv(x)'
          BY <1>1, <4>1, <4>2, <4>3, SaveFits
        <4>5. x = task'[t]
          BY <1>1, <4>3
        <4> QED
          BY <4>4, <4>5, Zenon DEF FitsInv
      <3>3. \A n \in 0 .. Highest : n \in 0 .. Highest' /\ (n \in 1 .. Highest => n \in 1 .. Highest')
        BY <1>1
      <3>4. r.pc # "idle" => r.began \in 0 .. Highest'
        BY <3>1, <3>3, Zenon DEF QueryInv
      <3>5. \A n \in 1 .. Highest : n \in 0 .. Highest
        OBVIOUS
      <3>6. r.pc = "loading" => r.snapshot \in 1 .. Highest' /\ r.began <= r.snapshot
        BY <3>1, <3>3, <3>5, Zenon DEF QueryInv
      <3> QED
        BY <1>1, <3>1, <3>2, <3>4, <3>6 DEF QueryInv
    <2>4. t.kind = "dust" => SnapshotInv(t, task[t])'
      <3> SUFFICES ASSUME t.kind = "dust" PROVE SnapshotInv(t, task[t])'
        OBVIOUS
      <3>1. SnapshotInv(t, r)
        BY <2>1 DEF TaskInv
      <3>2. Served(task[t])'
        <4> SUFFICES ASSUME r.got # <<>>, r.got[Len(r.got)] = Panic
                     PROVE  Highest' - r.began >= Retention - MaxSnapshotAge
          BY <1>1, Zenon DEF Served
        <4>1. Highest - r.began >= Retention - MaxSnapshotAge
          BY <3>1 DEF SnapshotInv, Served
        <4>2. r.pc # "idle"
          BY <2>1 DEF TaskInv, IdleTask
        <4>3. r.began \in Nat
          BY <1>1, <3>1, <4>2 DEF SnapshotInv
        <4> QED
          BY <1>1, <1>2, <4>1, <4>3
      <3>3. r.pc # "idle" => r.began \in 0 .. Highest'
        BY <1>1, <3>1 DEF SnapshotInv
      <3>4. r.pc \in {"age"} \cup Accepted => r.snapshot \in 1 .. Highest'
        BY <1>1, <3>1 DEF SnapshotInv
      <3>5. r.pc \in Accepted => r.began \in 1 .. Highest'
        BY <1>1, <3>1 DEF SnapshotInv
      <3>6. r.pc = "entries" => FirstFree(r.snapshot, "generations")' = FirstFree(r.snapshot, "generations")
        <4> SUFFICES ASSUME r.pc = "entries"
                     PROVE  FirstFree(r.snapshot, "generations")' = FirstFree(r.snapshot, "generations")
          OBVIOUS
        <4>1. PICK n : n = r.snapshot
          OBVIOUS
        <4>2. n \in 1 .. Highest
          BY <3>1, <4>1 DEF SnapshotInv, Accepted
        <4>3. FirstFree(n, "generations")' = FirstFree(n, "generations")
          BY <1>1, <4>2, SaveTrees, Zenon DEF Trees
        <4> QED
          BY <1>1, <4>1, <4>3
      <3> QED
        BY <1>1, <3>1, <3>2, <3>3, <3>4, <3>5, <3>6 DEF SnapshotInv
    <2>5. t.kind # "update" => task'[t].pc \in {"idle", "acquire", "counted", "done"} \cup Streaming
      BY <1>1, <2>1 DEF TaskInv
    <2> QED
      BY <2>2, <2>3, <2>4, <2>5, Zenon DEF TaskInv
  <1> QED
    BY <1>1, <1>3, <1>4 DEF ReadInv

LEMMA CollectRead ==
  ASSUME ReadInv, Collect
  PROVE  ReadInv'
  <1>1. /\ culled < Highest - Retention /\ culled' = culled + 1
        /\ UNCHANGED <<cast, blocks, cache, task>>
    BY DEF Collect
  <1>2. Highest \in Nat /\ Retention \in Nat /\ culled \in Nat
    BY ChainTrees, RetentionExceedsAge DEF ReadInv, ChainFacts, ChainInv
  <1>3. culled' \in Nat /\ (culled' > 0 => culled' <= Highest - Retention)
    BY <1>1, <1>2
  <1>4. ChainInv'
    BY <1>1, <1>3, Zenon DEF ReadInv, ChainInv, Highest
  <1>5. ASSUME NEW t \in cast.tasks PROVE TaskInv(t, task[t])'
    BY <1>1, ZenonT(30) DEF ReadInv, TaskInv, QueryInv, SnapshotInv, FitsInv, Served, Highest, FirstFree, TreeAt
  <1> QED
    BY <1>1, <1>4, <1>5 DEF ReadInv, Highest

\* An answer depends on the blocks only.
LEMMA SameFits ==
  ASSUME NEW r, FitsInv(r), blocks' = blocks
  PROVE  FitsInv(r)'
  <1> DEFINE tree == r.args.tree
             a == r.args.start
             e == r.args.end
             got == r.got[1]
  <1>1. Highest' = Highest
    BY DEF Highest
  <1>2. \A n : TreeAt(n, tree)' = TreeAt(n, tree) /\ FirstFree(n, tree)' = FirstFree(n, tree)
    BY DEF TreeAt, FirstFree
  <1>3. TreeAt(Highest, tree)' = TreeAt(Highest, tree) /\ FirstFree(Highest, tree)' = FirstFree(Highest, tree)
    BY <1>1 DEF TreeAt, FirstFree
  <1>4. FirstFree(Highest - Retention, tree)' = FirstFree(Highest - Retention, tree)
    BY <1>1, Zenon DEF TreeAt, FirstFree
  <1> HIDE DEF tree, a, e, got
  <1>5. got = Err => ~(r.began > 0 /\ a <= e /\ e < FirstFree(r.began, tree)')
    BY <1>2, Zenon DEF FitsInv, a, e, tree, got
  <1>6. got = Panic => /\ Highest' - Retention > 0
                       /\ e < FirstFree(Highest - Retention, tree)' \/ r.began <= Highest' - Retention
    BY <1>1, <1>4, Zenon DEF FitsInv, a, e, tree, got
  <1>7. got \notin {Err, Panic} =>
          /\ got.leaves \in Seq(Leaf(tree)) /\ Len(got.leaves) = e - a + 1
          /\ a <= e /\ Highest' > 0 /\ e < FirstFree(Highest, tree)'
          /\ \A k \in 1 .. (e - a + 1) : Rewritten(tree, got.leaves[k], TreeAt(Highest, tree)'[a + k])
    BY <1>1, <1>3, Zenon DEF FitsInv, a, e, tree, got
  <1> QED
    BY <1>5, <1>6, <1>7, Zenon DEF FitsInv, a, e, tree, got

\* One task goes on, and possibly the cache is replaced.
LEMMA OneTask ==
  ASSUME ReadInv, NEW t \in cast.tasks, UNCHANGED <<cast, blocks, culled>>,
         cache' = None \/ cache' \in 1 .. Highest,
         NEW r, TaskInv(t, r), task' = [task EXCEPT ![t] = r]
  PROVE  ReadInv'
  <1>1. DOMAIN task = cast.tasks /\ Highest' = Highest
    BY DEF ReadInv, Highest
  <1>2. ChainInv'
    BY Zenon DEF ReadInv, ChainInv, Highest
  <1>3. ASSUME NEW u \in cast.tasks PROVE TaskInv(u, task[u])'
    <2>1. TaskInv(u, task'[u])
      <3>1. CASE u = t
        BY <1>1, <3>1
      <3>2. CASE u # t
        BY <1>1, <3>2 DEF ReadInv
      <3> QED
        BY <3>1, <3>2, Zenon
    <2>2. FitsInv(task'[u]) => FitsInv(task[u])'
      <3>1. PICK x : x = task'[u]
        OBVIOUS
      <3>2. FitsInv(x) => FitsInv(x)'
        BY SameFits
      <3> QED
        BY <3>1, <3>2, Zenon DEF FitsInv
    <2>3. Served(task'[u]) => Served(task[u])'
      BY Zenon DEF Served, Highest
    <2>4. QueryInv(u, task'[u]) => QueryInv(u, task[u])'
      BY <1>1, <2>2, Zenon DEF QueryInv
    <2>5. SnapshotInv(u, task'[u]) => SnapshotInv(u, task[u])'
      BY <1>1, <2>3, Zenon DEF SnapshotInv, FirstFree, TreeAt
    <2> QED
      BY <2>1, <2>4, <2>5, Zenon DEF TaskInv
  <1> QED
    BY <1>1, <1>2, <1>3, Zenon DEF ReadInv
==============================================================================
