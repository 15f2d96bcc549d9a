---------------------------- MODULE LiveFeedProofs ----------------------------
(***************************************************************************)
(* LiveFeed for every subscription, transport, batch size and chain.       *)
(***************************************************************************)
EXTENDS LiveFeed, FiniteSetTheorems, TLAPS

-----------------------------------------------------------------------------
(* The rows a subscription selects.                                        *)

\* The selected keys are finitely many natural numbers before the next key.
LEMMA MatchingType ==
  ASSUME TypeOK
  PROVE  /\ NextKey \in Nat
         /\ Matching \subseteq Nat
         /\ IsFiniteSet(Matching)
         /\ \A k \in Matching : k < NextKey
  <1>1. tip \in Nat /\ Len(rows) \in Nat /\ DOMAIN rows = 1 .. Len(rows)
    BY DEF TypeOK
  <1>2. CASE feed = "blocks"
    <2>1. Matching = 0 .. tip - 1 /\ NextKey = tip
      BY <1>2 DEF Matching, NextKey
    <2>2. IsFiniteSet(0 .. tip - 1)
      BY <1>1, FS_Interval
    <2> QED
      BY <1>1, <2>1, <2>2
  <1>3. CASE feed # "blocks"
    <2>1. Matching \in SUBSET (1 .. Len(rows)) /\ NextKey = Len(rows) + 1
      BY <1>1, <1>3 DEF Matching, NextKey
    <2>2. IsFiniteSet(1 .. Len(rows))
      BY <1>1, FS_Interval
    <2>3. IsFiniteSet(Matching)
      BY <2>1, <2>2, FS_Subset, Zenon
    <2> QED
      BY <1>1, <2>1, <2>3
  <1> QED
    BY <1>2, <1>3

\* A sequence over a set is one over any larger set.
LEMMA SeqOfLarger ==
  ASSUME NEW S, NEW T, S \subseteq T, NEW x \in Seq(S)
  PROVE  x \in Seq(T)
  OBVIOUS

\* A query returns the selected rows from its key up to the last one returned,
\* in ascending order, and none only if there is none.
LEMMA BatchIsNext ==
  ASSUME TypeOK, NEW k \in Nat, NEW B \in Batches(k)
  PROVE  /\ B \in Seq(Nat)
         /\ B = <<>> => \A m \in Matching : m < k
         /\ \A i, j \in DOMAIN B : i < j => B[i] < B[j]
         /\ B # <<>> => /\ After(B) \in Nat
                        /\ {B[i] : i \in DOMAIN B} = {m \in Matching : k <= m /\ m < After(B)}
  <1> DEFINE S == {m \in Matching : m >= k}
  <1>1. Matching \subseteq Nat /\ IsFiniteSet(Matching)
    BY MatchingType
  <1>2. S \subseteq Nat /\ S \in SUBSET Matching
    BY <1>1, Zenon
  <1>3. IsFiniteSet(S)
    BY <1>1, <1>2, FS_Subset
  <1>4. /\ B \in [1 .. Least(BatchSize, Cardinality(S)) -> S]
        /\ \A i, j \in DOMAIN B : i < j => B[i] < B[j]
        /\ \A m \in S : (\E i \in DOMAIN B : B[i] = m) \/ (\A i \in DOMAIN B : B[i] < m)
    BY Zenon DEF Batches, Pages, Listings
  <1> HIDE DEF S
  <1>5. /\ B \in Seq(Nat)
        /\ B = <<>> <=> S = {}
        /\ \A i \in DOMAIN B : B[i] \in S
        /\ B # <<>> => \A m \in S : m <= B[Len(B)] => \E i \in DOMAIN B : B[i] = m
    <2>1. /\ Cardinality(S) \in Nat /\ (Cardinality(S) = 0 <=> S = {})
          /\ BatchSize \in Nat \ {0}
      BY <1>3, FS_CardinalityType, FS_EmptySet, FeedBatchAssumption
    <2>2. /\ Least(BatchSize, Cardinality(S)) \in Nat
          /\ Least(BatchSize, Cardinality(S)) = 0 <=> S = {}
      BY <2>1 DEF Least
    <2>3. /\ B \in Seq(S) /\ DOMAIN B = 1 .. Len(B) /\ Len(B) = Least(BatchSize, Cardinality(S))
          /\ B \in Seq(Nat) /\ Len(B) \in Nat /\ (B = <<>> <=> Len(B) = 0)
      <3>1. PICK n \in Nat : n = Least(BatchSize, Cardinality(S)) /\ B \in [1 .. n -> S]
        BY <1>4, <2>2
      <3>2. B \in Seq(S) /\ DOMAIN B = 1 .. Len(B) /\ Len(B) = n
        BY <3>1
      <3>3. B = <<>> <=> Len(B) = 0
        BY <3>2
      <3>4. B \in Seq(Nat)
        BY <1>2, <3>2, SeqOfLarger, Zenon
      <3> QED
        BY <3>1, <3>2, <3>3, <3>4
    <2>4. ASSUME B # <<>>, NEW m \in S, m <= B[Len(B)] PROVE \E i \in DOMAIN B : B[i] = m
      <3>1. Len(B) \in DOMAIN B /\ B[Len(B)] \in Nat /\ m \in Nat
        BY <1>2, <2>3, <2>4
      <3>2. ~(B[Len(B)] < m)
        BY <2>4, <3>1
      <3> QED
        BY <1>4, <3>1, <3>2, Zenon
    <2>5. \A i \in DOMAIN B : B[i] \in S
      BY <2>3
    <2>6. B = <<>> <=> S = {}
      BY <2>2, <2>3
    <2> QED
      BY <2>3, <2>4, <2>5, <2>6, Zenon
  <1>6. ASSUME B = <<>>, NEW m \in Matching PROVE m < k
    <2>1. m \in Nat /\ m \notin S
      BY <1>1, <1>5, <1>6
    <2> QED
      BY <2>1 DEF S
  <1>7. ASSUME B # <<>>
        PROVE  /\ After(B) \in Nat
               /\ {B[i] : i \in DOMAIN B} = {m \in Matching : k <= m /\ m < After(B)}
    <2>1. Len(B) \in Nat /\ Len(B) > 0 /\ DOMAIN B = 1 .. Len(B) /\ B[Len(B)] \in Nat
      BY <1>5, <1>7
    <2>2. After(B) = B[Len(B)] + 1 /\ After(B) \in Nat
      BY <2>1 DEF After
    <2>3. ASSUME NEW i \in DOMAIN B
          PROVE  B[i] \in Matching /\ k <= B[i] /\ B[i] < After(B)
      <3>1. B[i] \in S /\ B[i] \in Nat
        BY <1>2, <1>5
      <3>2. i = Len(B) \/ B[i] < B[Len(B)]
        BY <1>4, <1>5, <2>1
      <3> QED
        BY <2>1, <2>2, <3>1, <3>2 DEF S
    <2>4. ASSUME NEW m \in Matching, k <= m, m < After(B)
          PROVE  \E i \in DOMAIN B : B[i] = m
      <3>1. m \in S /\ m \in Nat
        BY <1>1, <2>4 DEF S
      <3>2. m <= B[Len(B)]
        BY <2>1, <2>2, <2>4, <3>1
      <3> QED
        BY <3>1, <3>2, <1>5, <1>7
    <2> QED
      BY <2>2, <2>3, <2>4
  <1> QED
    BY <1>4, <1>5, <1>6, <1>7

-----------------------------------------------------------------------------
(* Types.                                                                  *)

\* What the proofs need of a longer sequence.
LEMMA AppendIsSeq ==
  ASSUME NEW S, NEW x \in Seq(S), NEW e \in S
  PROVE  /\ Append(x, e) \in Seq(S) /\ Append(x, e) # <<>>
         /\ Len(Append(x, e)) = Len(x) + 1
         /\ \A k \in 1 .. Len(x) : Append(x, e)[k] = x[k]
         /\ Append(x, e)[Len(x) + 1] = e
  OBVIOUS

\* What the proofs need of two sequences put together.
LEMMA ConcatIsSeq ==
  ASSUME NEW S, NEW x \in Seq(S), NEW y \in Seq(S)
  PROVE  /\ x \o y \in Seq(S)
         /\ Len(x \o y) = Len(x) + Len(y)
         /\ \A k \in 1 .. (Len(x) + Len(y)) :
              (x \o y)[k] = IF k <= Len(x) THEN x[k] ELSE y[k - Len(x)]
  OBVIOUS

\* One or two elements make a sequence.
LEMMA ShortSeq == \A S : \A a, b \in S : <<a>> \in Seq(S) /\ <<a, b>> \in Seq(S)
  OBVIOUS

\* save_block adds rows of the new block, with its height, after the others, and
\* leaves messages about the new block to be sent.
LEMMA SaveBlockType ==
  ASSUME TypeOK, NEW n \in Nat, NEW block \in [1 .. n -> BOOLEAN], SaveBlock(block)
  PROVE  /\ TypeOK'
         /\ Len(rows') = Len(rows) + n
         /\ \A k \in 1 .. Len(rows) : rows'[k] = rows[k]
         /\ \A k \in (Len(rows) + 1) .. Len(rows') : rows'[k].height = tip
  <1> DEFINE added == [i \in DOMAIN block |-> [height |-> tip, mine |-> block[i]]]
  <1>1. tip \in Nat /\ tip' = tip + 1
    BY DEF TypeOK, SaveBlock
  <1>2. Saved \subseteq Saved'
    BY <1>1 DEF Saved
  <1>3. \A b \in BOOLEAN : [height |-> tip, mine |-> b] \in Saved'
    BY <1>1 DEF Saved
  <1>4. rows \in Seq(Saved') /\ queue \in Seq(Saved')
    BY <1>2, SeqOfLarger DEF TypeOK
  <1>5. DOMAIN block = 1 .. n /\ \A i \in 1 .. n : block[i] \in BOOLEAN
    OBVIOUS
  <1>6. added = [i \in 1 .. n |-> [height |-> tip, mine |-> block[i]]]
    BY <1>5
  <1>7. added \in Seq(Saved') /\ Len(added) = n /\ \A i \in 1 .. n : added[i].height = tip
    BY <1>3, <1>5, <1>6
  <1>8. rows' = rows \o added
    BY DEF SaveBlock
  <1> HIDE DEF added
  <1>9. /\ rows' \in Seq(Saved') /\ Len(rows') = Len(rows) + n
        /\ \A k \in 1 .. Len(rows) : rows'[k] = rows[k]
        /\ \A k \in (Len(rows) + 1) .. Len(rows') : rows'[k] = added[k - Len(rows)]
    <2>1. \A k \in 1 .. (Len(rows) + n) :
            rows'[k] = IF k <= Len(rows) THEN rows[k] ELSE added[k - Len(rows)]
      BY <1>4, <1>7, <1>8, ConcatIsSeq
    <2>2. rows' \in Seq(Saved') /\ Len(rows') = Len(rows) + n
      BY <1>4, <1>7, <1>8, ConcatIsSeq, Zenon
    <2>3. Len(rows) \in Nat
      BY DEF TypeOK
    <2> QED
      BY <2>1, <2>2, <2>3
  <1>10. \A k \in (Len(rows) + 1) .. Len(rows') : rows'[k].height = tip
    BY <1>7, <1>9 DEF TypeOK
  <1>11. Messages(block) \in Seq(Saved')
    <2>1. CASE feed = "bridge_events"
      BY <2>1, <1>7 DEF Messages, added
    <2>2. CASE feed = "unshielded" /\ block = <<>>
      BY <2>2 DEF Messages
    <2>3. CASE feed = "unshielded" /\ block # <<>>
      <3>1. block[1] \in BOOLEAN
        BY <2>3, <1>5
      <3>2. \/ Messages(block) = <<[height |-> tip, mine |-> block[1]]>>
            \/ Messages(block) = <<[height |-> tip, mine |-> FALSE], [height |-> tip, mine |-> TRUE]>>
        BY <2>3, Zenon DEF Messages
      <3> QED
        BY <3>1, <3>2, <1>3, ShortSeq, Zenon
    <2>4. CASE feed # "bridge_events" /\ feed # "unshielded"
      <3>1. Messages(block) = <<[height |-> tip, mine |-> TRUE]>>
        BY <2>4, Zenon DEF Messages
      <3> QED
        BY <3>1, <1>3, ShortSeq, Zenon
    <2> QED
      BY <2>1, <2>2, <2>3, <2>4
  <1>12. TypeOK'
    BY <1>1, <1>4, <1>9, <1>11 DEF TypeOK, SaveBlock, request, channel
  <1> QED
    BY <1>9, <1>10, <1>12

\* The other steps keep the types.
LEMMA AnnounceType ==
  ASSUME TypeOK, Announce
  PROVE  TypeOK'
  <1>1. unsent' = Tail(unsent) /\ tip' = tip /\ unsent \in Seq(Saved) /\ unsent # <<>>
        /\ queue \in Seq(Saved) /\ Saved' = Saved
    BY DEF Announce, TypeOK, Saved
  <1>2. Head(unsent) \in Saved /\ Tail(unsent) \in Seq(Saved)
    BY <1>1
  <1>3. \/ queue' = queue
        \/ queue' = Append(queue, Head(unsent))
        \/ Len(queue) = Capacity /\ queue' = Append(Tail(queue), Head(unsent))
    BY DEF Announce, Publish
  <1>4. queue' \in Seq(Saved)
    <2>1. Len(queue) = Capacity => Append(Tail(queue), Head(unsent)) \in Seq(Saved)
      <3> HAVE Len(queue) = Capacity
      <3>1. queue # <<>>
        BY <1>1, CapacityAssumption
      <3>2. Tail(queue) \in Seq(Saved)
        BY <3>1, <1>1
      <3> QED
        BY <1>2, <3>2, AppendIsSeq
    <2>2. Append(queue, Head(unsent)) \in Seq(Saved)
      BY <1>1, <1>2, AppendIsSeq
    <2> QED
      BY <1>1, <1>3, <2>1, <2>2, Zenon
  <1> QED
    BY <1>1, <1>2, <1>4 DEF TypeOK, Announce, request

LEMMA SubscriptionType ==
  ASSUME TypeOK, StopIndexer \/ Subscribe \/ ResolveHeight \/ LocateContractAction \/ CheckToBlock
  PROVE  TypeOK'
  <1> USE DEF TypeOK, Saved, Phase, None
  <1>1. CASE StopIndexer
    BY <1>1 DEF StopIndexer, request, channel
  <1>2. CASE Subscribe
    <2>1. queue' = queue
      BY <1>2 DEF Subscribe, Open, channel
    <2>2. phase' \in Phase
      BY <1>2 DEF Subscribe
    <2>3. from' \in Nat /\ cursor' \in Nat /\ next' \in Nat
      <3> DEFINE k == IF offset # None /\ feed # "nullifiers"
                      THEN IF feed = "bridge_events" THEN offset + 1 ELSE offset
                      ELSE IF feed \in {"ledger_events", "bridge_events", "nullifiers"} THEN 1 ELSE 0
      <3>1. k \in Nat
        OBVIOUS
      <3> HIDE DEF k
      <3>2. UNCHANGED <<from, cursor, next>> \/ Begin(k)
        BY <1>2, Zenon DEF Subscribe, k
      <3> QED
        BY <3>1, <3>2 DEF Begin
    <2> QED
      BY <1>2, <2>1, <2>2, <2>3 DEF Subscribe, table, request
  <1>3. CASE ResolveHeight
    <2> DEFINE height == IF offset # None THEN offset ELSE IF tip = 0 THEN 0 ELSE tip - 1
    <2>1. height \in Nat
      OBVIOUS
    <2> HIDE DEF height
    <2>2. phase' \in Phase /\ UNCHANGED <<table, request, lastRound, buffer, yielded, channel>>
      BY <1>3 DEF ResolveHeight
    <2>3. start' \in Nat /\ from' \in Nat /\ cursor' \in Nat /\ next' \in Nat
      BY <1>3, <2>1, SMTT(30) DEF ResolveHeight, Begin, height
    <2> QED
      BY <2>2, <2>3 DEF table, request, channel
  <1>4. CASE LocateContractAction
    <2>1. PICK k \in FirstFrom(start) : Begin(k)
      BY <1>4 DEF LocateContractAction
    <2>2. k \in Nat
      BY DEF FirstFrom
    <2> QED
      BY <1>4, <2>1, <2>2 DEF LocateContractAction, Begin, table, request, channel
  <1>5. CASE CheckToBlock
    BY <1>5 DEF CheckToBlock, ReachedToBlock, table, request, channel
  <1> QED
    BY <1>1, <1>2, <1>3, <1>4, <1>5

LEMMA StreamType ==
  ASSUME TypeOK,
         Fetch \/ ReachToBlock \/ Yield \/ Poll \/ Wake \/ Fail \/ Drop \/ UNCHANGED vars
  PROVE  TypeOK'
  <1> USE DEF TypeOK, Saved, Phase, None, table, request
  <1>1. CASE Fetch
    <2>1. buffer' \in Seq(Nat) /\ (buffer' # <<>> => After(buffer') \in Nat)
      BY <1>1, BatchIsNext DEF Fetch
    <2>2. queue' = queue
      BY <1>1 DEF Fetch, Open, channel
    <2>3. next' \in Nat /\ phase' \in Phase /\ buffer' \in Seq(Nat)
      BY <1>1, <2>1 DEF Fetch, RoundOver
    <2> QED
      BY <1>1, <2>2, <2>3 DEF Fetch
  <1>2. CASE ReachToBlock
    BY <1>2 DEF ReachToBlock, channel
  <1>3. CASE Yield
    <2>1. Head(buffer) \in Nat /\ Tail(buffer) \in Seq(Nat) /\ Append(yielded, Head(buffer)) \in Seq(Nat)
      BY <1>3, SMTT(30) DEF Yield
    <2> QED
      BY <1>3, <2>1, SMTT(30) DEF Yield, channel
  <1>4. CASE Poll
    BY <1>4 DEF Poll, Connect
  <1>5. CASE Wake
    <2>1. queue' = Tail(queue) /\ queue # <<>>
      BY <1>5 DEF Wake, Receive
    <2>2. queue' \in Seq(Saved)
      BY <2>1
    <2>3. next' \in Nat /\ phase' \in Phase /\ lastRound' \in BOOLEAN
      BY <1>5, Zenon DEF Wake, Resume
    <2> QED
      BY <1>5, <2>2, <2>3 DEF Wake
  <1>6. CASE Fail
    BY <1>6 DEF Fail, ReceiveLagged
  <1>7. CASE Drop
    BY <1>7 DEF Drop, Disconnect
  <1>8. CASE UNCHANGED vars
    BY <1>8 DEF vars, channel
  <1> QED
    BY <1>1, <1>2, <1>3, <1>4, <1>5, <1>6, <1>7, <1>8, SMTT(30)

-----------------------------------------------------------------------------
(* The stream.                                                             *)

\* MatchingType for the state after a step.
LEMMA MatchingTypeNext == TypeOK' => (NextKey \in Nat /\ Matching \subseteq Nat)'
  <1>1. TypeOK => NextKey \in Nat /\ Matching \subseteq Nat
    BY MatchingType
  <1> QED
    BY <1>1, PTL

\* Nothing but save_block changes what is selected.
LEMMA MatchingStays ==
  ASSUME UNCHANGED <<tip, rows, request>>
  PROVE  Matching' = Matching /\ NextKey' = NextKey /\ ReachedToBlock' = ReachedToBlock
  BY DEF request, Matching, NextKey, ReachedToBlock

\* save_block selects no key behind the next one anew, drops none, and selects
\* nothing once the chain has reached toBlock.
LEMMA MatchingGrows ==
  ASSUME TypeOK, NEW n \in Nat, NEW block \in [1 .. n -> BOOLEAN], SaveBlock(block)
  PROVE  /\ NextKey <= NextKey'
         /\ \A k \in Nat : k < NextKey => (k \in Matching' <=> k \in Matching)
         /\ ReachedToBlock => ReachedToBlock'
         /\ feed # "blocks" /\ ReachedToBlock => \A k \in Matching' : k < NextKey
  <1>1. /\ Len(rows') = Len(rows) + n
        /\ \A k \in 1 .. Len(rows) : rows'[k] = rows[k]
        /\ \A k \in (Len(rows) + 1) .. Len(rows') : rows'[k].height = tip
        /\ rows' \in Seq(Saved')
    BY SaveBlockType, Zenon DEF TypeOK
  <1>2. /\ tip \in Nat /\ tip' = tip + 1 /\ Len(rows) \in Nat /\ until \in Int
        /\ DOMAIN rows = 1 .. Len(rows) /\ DOMAIN rows' = 1 .. Len(rows')
        /\ feed' = feed /\ until' = until /\ offset' = offset
    BY <1>1 DEF TypeOK, SaveBlock, request, None
  <1>3. NextKey <= NextKey' /\ (ReachedToBlock => ReachedToBlock')
    BY <1>1, <1>2 DEF NextKey, ReachedToBlock
  <1>4. ASSUME NEW k \in Nat, k < NextKey PROVE k \in Matching' <=> k \in Matching
    <2>1. CASE feed = "blocks"
      BY <1>2, <1>4, <2>1, SMTT(30) DEF Matching, NextKey
    <2>2. CASE feed # "blocks"
      <3>1. (k \in DOMAIN rows' <=> k \in DOMAIN rows) /\ (k \in DOMAIN rows => rows'[k] = rows[k])
        BY <1>1, <1>2, <1>4, <2>2 DEF NextKey
      <3> QED
        BY <1>2, <2>2, <3>1 DEF Matching
    <2> QED
      BY <2>1, <2>2
  <1>5. ASSUME feed # "blocks", ReachedToBlock, NEW k \in Matching' PROVE k < NextKey
    <2>1. k \in 1 .. Len(rows') /\ rows'[k].height <= until
      BY <1>2, <1>5 DEF Matching, ReachedToBlock
    <2>2. k \notin (Len(rows) + 1) .. Len(rows')
      BY <1>1, <1>2, <1>5, <2>1 DEF ReachedToBlock
    <2> QED
      BY <1>1, <1>2, <1>5, <2>1, <2>2 DEF NextKey
  <1> QED
    BY <1>3, <1>4, <1>5

\* Whatever is saved between two queries, or between a query and the client
\* taking its rows, what was yielded and what is buffered stay exact.
LEMMA SaveBlockStream ==
  ASSUME IndInv, NEW n \in Nat, NEW block \in [1 .. n -> BOOLEAN], SaveBlock(block)
  PROVE  StreamInv'
  <1> SUFFICES ASSUME feed # "nullifiers" PROVE StreamInv'
    BY DEF StreamInv, SaveBlock, request
  <1>1. /\ feed' = feed /\ phase' = phase /\ from' = from /\ cursor' = cursor /\ next' = next
        /\ lastRound' = lastRound /\ buffer' = buffer /\ yielded' = yielded
    BY DEF SaveBlock, request
  <1>2. /\ NextKey <= NextKey'
        /\ \A k \in Nat : k < NextKey => (k \in Matching' <=> k \in Matching)
        /\ ReachedToBlock => ReachedToBlock'
        /\ feed # "blocks" /\ ReachedToBlock => \A k \in Matching' : k < NextKey
    BY MatchingGrows DEF IndInv
  <1>3. NextKey \in Nat /\ Matching \subseteq Nat /\ \A k \in Matching : k < NextKey
    BY MatchingType DEF IndInv
  <1>4. TypeOK'
    BY SaveBlockType DEF IndInv
  <1>5. NextKey' \in Nat /\ Matching' \subseteq Nat
    BY <1>4, MatchingTypeNext
  <1>6. from \in Nat /\ cursor \in Nat /\ next \in Nat
    BY DEF IndInv, TypeOK
  <1>7. EachOnceInOrder /\ CursorIsBehind
    BY DEF IndInv, StreamInv
  <1>8. EachOnceInOrder'
    <2>1. {k \in Matching' : from <= k /\ k < cursor} = {k \in Matching : from <= k /\ k < cursor}
      <3>1. \A k \in Nat : from <= k /\ k < cursor => k < NextKey
        BY <1>3, <1>6, <1>7 DEF CursorIsBehind
      <3>2. \A k \in Nat : from <= k /\ k < cursor => (k \in Matching' <=> k \in Matching)
        BY <3>1, <1>2
      <3> QED
        BY <3>2, <1>3, <1>5, Zenon
    <2> QED
      BY <1>1, <1>7, <2>1 DEF EachOnceInOrder, Yielded
  <1>9. CursorIsBehind'
    BY <1>1, <1>2, <1>3, <1>5, <1>6, <1>7 DEF CursorIsBehind
  <1>10. StartsAtFrom'
    BY <1>1 DEF IndInv, StreamInv, StartsAtFrom, Starting
  <1>11. IF phase' = "fetching" THEN BufferIsNext' ELSE buffer' = <<>>
    <2>1. CASE phase = "fetching"
      <3>1. BufferIsNext
        BY <2>1 DEF IndInv, StreamInv
      <3>2. next = cursor \/ next <= NextKey
        <4>1. CASE buffer = <<>>
          BY <3>1, <4>1 DEF BufferIsNext
        <4>2. CASE buffer # <<>>
          <5>1. Len(buffer) \in DOMAIN buffer /\ buffer[Len(buffer)] \in Nat
            BY <4>2 DEF IndInv, TypeOK
          <5>2. buffer[Len(buffer)] \in Matching
            BY <5>1, <3>1 DEF BufferIsNext, Buffered
          <5> QED
            BY <4>2, <5>1, <5>2, <3>1, <1>3 DEF BufferIsNext, After
        <4> QED
          BY <4>1, <4>2
      <3>3. {k \in Matching' : cursor <= k /\ k < next} = {k \in Matching : cursor <= k /\ k < next}
        <4>1. \A k \in Nat : cursor <= k /\ k < next => k < NextKey
          BY <1>3, <1>6, <3>2
        <4>2. \A k \in Nat : cursor <= k /\ k < next => (k \in Matching' <=> k \in Matching)
          BY <4>1, <1>2
        <4> QED
          BY <4>2, <1>3, <1>5, Zenon
      <3> QED
        BY <1>1, <2>1, <3>1, <3>3 DEF BufferIsNext, Buffered, After
    <2>2. CASE phase # "fetching"
      BY <1>1, <2>2 DEF IndInv, StreamInv
    <2> QED
      BY <2>1, <2>2
  <1>12. LastRoundIsLast'
    <2>1. phase = "completed" => ReachedToBlock /\ feed # "blocks"
      BY DEF IndInv, StreamInv, LastRoundIsLast, ReachedToBlock, TypeOK
    <2>2. ASSUME phase = "completed", NEW k \in Matching' PROVE k < cursor
      <3>1. k \in Nat /\ k < NextKey
        BY <1>2, <1>5, <2>1, <2>2
      <3>2. k \in Matching
        BY <3>1, <1>2
      <3> QED
        BY <2>2, <3>2 DEF IndInv, StreamInv, LastRoundIsLast
    <2> QED
      BY <1>1, <1>2, <2>1, <2>2 DEF IndInv, StreamInv, LastRoundIsLast
  <1> QED
    BY <1>1, <1>8, <1>9, <1>10, <1>11, <1>12, SMTT(30) DEF IndInv, StreamInv

\* Messages on their way and the state of the connection do not matter.
LEMMA QuietStream ==
  ASSUME StreamInv,
         UNCHANGED <<tip, rows, request, phase, from, cursor, next, lastRound, buffer, yielded>>
  PROVE  StreamInv'
  <1>1. Matching' = Matching /\ NextKey' = NextKey /\ ReachedToBlock' = ReachedToBlock
    BY MatchingStays
  <1>2. Yielded' = Yielded /\ Buffered' = Buffered /\ feed' = feed
    BY DEF Yielded, Buffered, request
  <1> QED
    BY <1>1, <1>2 DEF StreamInv, EachOnceInOrder, CursorIsBehind, StartsAtFrom, Starting,
       BufferIsNext, LastRoundIsLast, After

\* Until the first query nothing is yielded, and the stream may begin anywhere.
LEMMA StartStream ==
  ASSUME IndInv, Starting, TypeOK', UNCHANGED <<tip, rows, request, buffer, yielded>>,
         cursor' = from', next' = from',
         (Starting' /\ ~lastRound') \/ (phase' = "fetching" /\ (lastRound' => ReachedToBlock))
  PROVE  StreamInv'
  <1> SUFFICES ASSUME feed # "nullifiers" PROVE StreamInv'
    BY DEF StreamInv, request
  <1>1. Matching' = Matching /\ ReachedToBlock' = ReachedToBlock
    BY MatchingStays
  <1>2. Matching \subseteq Nat
    BY MatchingType DEF IndInv
  <1>3. from \in Nat /\ from' \in Nat
    BY DEF IndInv, TypeOK
  <1>4. \A k \in Matching : ~(from <= k /\ k < from) /\ ~(from' <= k /\ k < from')
    BY <1>2, <1>3
  <1>5. EachOnceInOrder /\ cursor = from /\ buffer = <<>>
    BY DEF IndInv, StreamInv, StartsAtFrom, Starting
  <1>6. Yielded = {} /\ Yielded' = Yielded
    BY <1>4, <1>5 DEF EachOnceInOrder, Yielded
  <1>7. EachOnceInOrder'
    BY <1>1, <1>4, <1>5, <1>6 DEF EachOnceInOrder
  <1>8. BufferIsNext' /\ buffer' = <<>>
    BY <1>1, <1>4, <1>5 DEF BufferIsNext, Buffered
  <1>9. CursorIsBehind' /\ StartsAtFrom'
    BY <1>3 DEF CursorIsBehind, StartsAtFrom, Starting
  <1>10. LastRoundIsLast' /\ phase' # "reaching"
    BY <1>1 DEF LastRoundIsLast, Starting
  <1> QED
    BY <1>7, <1>8, <1>9, <1>10 DEF StreamInv

\* A query is made only when everything fetched before is yielded; what it
\* returns follows without gap.
LEMMA FetchStream ==
  ASSUME IndInv, Fetch
  PROVE  StreamInv'
  <1> SUFFICES ASSUME feed # "nullifiers" PROVE StreamInv'
    BY DEF StreamInv, Fetch, request
  <1>1. /\ phase = "fetching" /\ buffer = <<>> /\ buffer' \in Batches(next)
        /\ UNCHANGED <<tip, rows, request, from, cursor, lastRound, yielded>>
    BY DEF Fetch, table
  <1>2. Matching' = Matching /\ NextKey' = NextKey /\ ReachedToBlock' = ReachedToBlock
    BY <1>1, MatchingStays
  <1>3. next = cursor /\ next \in Nat
    BY <1>1 DEF IndInv, TypeOK, StreamInv, BufferIsNext
  <1>4. /\ buffer' = <<>> => \A m \in Matching : m < next
        /\ \A i, j \in DOMAIN buffer' : i < j => buffer'[i] < buffer'[j]
        /\ buffer' # <<>> => {buffer'[i] : i \in DOMAIN buffer'}
                                  = {m \in Matching : next <= m /\ m < After(buffer')}
    BY <1>1, <1>3, BatchIsNext, Zenon DEF IndInv
  <1>5. EachOnceInOrder' /\ CursorIsBehind' /\ feed' = feed
    BY <1>1, <1>2 DEF IndInv, StreamInv, EachOnceInOrder, Yielded, CursorIsBehind, request
  <1>6. CASE buffer' = <<>>
    <2>1. phase' = IF lastRound THEN "completed" ELSE "waiting"
      BY <1>6 DEF Fetch, RoundOver
    <2>2. lastRound => ReachedToBlock
      BY <1>1 DEF IndInv, StreamInv, LastRoundIsLast
    <2>3. LastRoundIsLast' /\ StartsAtFrom' /\ phase' # "fetching" /\ phase' # "reaching"
      BY <1>1, <1>2, <1>3, <1>4, <1>6, <2>1, <2>2, SMTT(30) DEF LastRoundIsLast, StartsAtFrom, Starting
    <2> QED
      BY <1>1, <1>5, <1>6, <2>3 DEF StreamInv
  <1>7. CASE buffer' # <<>>
    <2>1. phase' = phase /\ next' = After(buffer')
      BY <1>7 DEF Fetch
    <2>2. BufferIsNext'
      BY <1>1, <1>2, <1>3, <1>4, <1>7, <2>1 DEF BufferIsNext, Buffered, After
    <2>3. LastRoundIsLast' /\ StartsAtFrom'
      BY <1>1, <1>2, <2>1 DEF IndInv, StreamInv, LastRoundIsLast, StartsAtFrom, Starting
    <2> QED
      BY <1>1, <1>5, <2>1, <2>2, <2>3 DEF StreamInv
  <1> QED
    BY <1>6, <1>7

\* The client takes the lowest row of the buffer: the only selected one between
\* the cursor and the new cursor.
LEMMA YieldStream ==
  ASSUME IndInv, Yield
  PROVE  StreamInv'
  <1> SUFFICES ASSUME feed # "nullifiers" PROVE StreamInv'
    BY DEF StreamInv, Yield, request
  <1> DEFINE h == Head(buffer)
  <1>1. /\ buffer # <<>> /\ yielded' = Append(yielded, h) /\ cursor' = h + 1
        /\ buffer' = Tail(buffer)
        /\ UNCHANGED <<tip, rows, request, from, next, lastRound>>
    BY DEF Yield, table
  <1>2. Matching' = Matching /\ NextKey' = NextKey /\ ReachedToBlock' = ReachedToBlock
    BY <1>1, MatchingStays
  <1>3. NextKey \in Nat /\ Matching \subseteq Nat /\ \A k \in Matching : k < NextKey
    BY MatchingType DEF IndInv
  <1>4. phase = "fetching" /\ BufferIsNext /\ EachOnceInOrder /\ CursorIsBehind /\ LastRoundIsLast
    BY <1>1 DEF IndInv, StreamInv
  <1>5. /\ buffer \in Seq(Nat) /\ yielded \in Seq(Nat)
        /\ from \in Nat /\ cursor \in Nat /\ next \in Nat
    BY DEF IndInv, TypeOK
  <1>6. /\ Len(buffer) \in Nat /\ Len(buffer) >= 1 /\ DOMAIN buffer = 1 .. Len(buffer)
        /\ h = buffer[1] /\ h \in Nat /\ Len(Tail(buffer)) = Len(buffer) - 1
        /\ DOMAIN Tail(buffer) = 1 .. (Len(buffer) - 1)
        /\ \A i \in 1 .. (Len(buffer) - 1) : Tail(buffer)[i] = buffer[i + 1]
    BY <1>1, <1>5
  <1>7. /\ Buffered = {k \in Matching : cursor <= k /\ k < next}
        /\ \A i, j \in DOMAIN buffer : i < j => buffer[i] < buffer[j]
        /\ next = After(buffer)
    BY <1>1, <1>4 DEF BufferIsNext
  <1> HIDE DEF h
  <1>8. h \in Matching /\ cursor <= h /\ h < next
    BY <1>6, <1>7 DEF Buffered
  <1>9. ASSUME NEW k \in Matching, cursor <= k, k < next
        PROVE  k = h \/ (h < k /\ \E i \in 1 .. (Len(buffer) - 1) : Tail(buffer)[i] = k)
    <2>1. PICK j \in 1 .. Len(buffer) : k = buffer[j]
      BY <1>6, <1>7, <1>9 DEF Buffered
    <2>2. CASE j = 1
      <3>1. k = h
        BY <2>1, <2>2, <1>6
      <3> QED
        BY <3>1
    <2>3. CASE j # 1
      <3>1. j - 1 \in 1 .. (Len(buffer) - 1) /\ Tail(buffer)[j - 1] = buffer[j]
        BY <2>3, <1>6
      <3>2. h < k
        BY <2>1, <2>3, <1>6, <1>7
      <3> QED
        BY <2>1, <3>1, <3>2
    <2> QED
      BY <2>2, <2>3
  <1>10. ASSUME NEW i \in 1 .. (Len(buffer) - 1)
         PROVE  Tail(buffer)[i] \in Matching /\ h < Tail(buffer)[i] /\ Tail(buffer)[i] < next
    <2>1. i + 1 \in 1 .. Len(buffer) /\ Tail(buffer)[i] = buffer[i + 1]
      BY <1>6
    <2>2. buffer[i + 1] \in Buffered /\ buffer[1] < buffer[i + 1]
      BY <2>1, <1>6, <1>7 DEF Buffered
    <2> QED
      BY <2>1, <2>2, <1>6, <1>7
  <1>11. EachOnceInOrder'
    <2>1. /\ Len(yielded) \in Nat /\ DOMAIN yielded = 1 .. Len(yielded)
          /\ DOMAIN yielded' = 1 .. (Len(yielded) + 1) /\ yielded'[Len(yielded) + 1] = h
          /\ \A i \in 1 .. Len(yielded) : yielded'[i] = yielded[i] /\ yielded[i] \in Nat
      BY <1>1, <1>5, <1>6, SMTT(30)
    <2>2. Yielded = {k \in Matching : from <= k /\ k < cursor}
          /\ \A i, j \in DOMAIN yielded : i < j => yielded[i] < yielded[j]
      BY <1>4 DEF EachOnceInOrder
    <2>3. Yielded' = Yielded \cup {h}
      BY <2>1 DEF Yielded
    <2>4. ASSUME NEW k \in Matching
          PROVE  ((from <= k /\ k < cursor) \/ k = h) <=> (from <= k /\ k < h + 1)
      <3>1. k \in Nat
        BY <1>3
      <3>2. cursor <= k /\ k < h + 1 => k = h
        BY <3>1, <1>5, <1>6, <1>8, <1>9
      <3> QED
        BY <3>1, <3>2, <1>4, <1>5, <1>6, <1>8 DEF CursorIsBehind
    <2>5. Yielded' = {k \in Matching : from <= k /\ k < h + 1}
      BY <2>2, <2>3, <2>4, <1>8
    <2>6. ASSUME NEW i \in DOMAIN yielded', NEW j \in DOMAIN yielded', i < j
          PROVE  yielded'[i] < yielded'[j]
      <3>1. i \in 1 .. Len(yielded) /\ yielded'[i] = yielded[i]
        BY <2>1, <2>6
      <3>2. CASE j = Len(yielded) + 1
        <4>1. yielded[i] \in Yielded
          BY <3>1, <2>1 DEF Yielded
        <4>2. yielded[i] < cursor
          BY <4>1, <2>2
        <4> QED
          BY <3>1, <3>2, <4>2, <2>1, <1>5, <1>6, <1>8, SMTT(30)
      <3>3. CASE j # Len(yielded) + 1
        BY <3>1, <3>3, <2>1, <2>2, <2>6, SMTT(30)
      <3> QED
        BY <3>2, <3>3
    <2> QED
      BY <1>1, <1>2, <2>5, <2>6 DEF EachOnceInOrder
  <1>12. CursorIsBehind'
    <2>1. h < NextKey
      BY <1>3, <1>8
    <2> QED
      BY <2>1, <1>1, <1>2, <1>3, <1>4, <1>5, <1>6, <1>8, SMTT(30) DEF CursorIsBehind
  <1>13. BufferIsNext'
    <2>1. Buffered' = {k \in Matching : h + 1 <= k /\ k < next}
      <3>1. \A k \in Matching : h + 1 <= k /\ k < next
                                => \E i \in 1 .. (Len(buffer) - 1) : Tail(buffer)[i] = k
        BY <1>3, <1>5, <1>6, <1>8, <1>9, SMTT(30)
      <3>2. \A i \in 1 .. (Len(buffer) - 1) :
              Tail(buffer)[i] \in Matching /\ h + 1 <= Tail(buffer)[i] /\ Tail(buffer)[i] < next
        BY <1>3, <1>5, <1>6, <1>10
      <3> QED
        BY <3>1, <3>2, <1>1, <1>6, Zenon DEF Buffered
    <2>2. \A i, j \in DOMAIN buffer' : i < j => buffer'[i] < buffer'[j]
      BY <1>1, <1>6, <1>7
    <2>3. next = IF Tail(buffer) = <<>> THEN h + 1 ELSE After(Tail(buffer))
      <3>1. CASE Len(buffer) = 1
        <4>1. Tail(buffer) = <<>>
          BY <3>1, <1>5, <1>6
        <4> QED
          BY <4>1, <3>1, <1>6, <1>7 DEF After
      <3>2. CASE Len(buffer) # 1
        <4>1. Tail(buffer) # <<>>
          <5>1. Len(Tail(buffer)) # 0
            BY <3>2, <1>6
          <5>2. Len(<<>>) = 0
            OBVIOUS
          <5> QED
            BY <5>1, <5>2, Zenon
        <4>2. Tail(buffer)[Len(buffer) - 1] = buffer[Len(buffer)]
          BY <3>2, <1>6
        <4> QED
          BY <4>1, <4>2, <1>6, <1>7 DEF After
      <3> QED
        BY <3>1, <3>2
    <2> QED
      BY <1>1, <1>2, <2>1, <2>2, <2>3, SMTT(30) DEF BufferIsNext, After
  <1>14. phase' = "fetching" \/ (phase' = "waiting" /\ buffer' = <<>>)
    <2>1. Len(buffer) = 1 => Tail(buffer) = <<>>
      BY <1>5, <1>6
    <2>2. phase' = IF OneBatch /\ Len(buffer) = 1 THEN "waiting" ELSE phase
      BY DEF Yield
    <2> QED
      BY <2>1, <2>2, <1>1, <1>4, Zenon
  <1>15. LastRoundIsLast' /\ StartsAtFrom' /\ phase' # "reaching"
    BY <1>1, <1>2, <1>4, <1>14 DEF LastRoundIsLast, StartsAtFrom, Starting
  <1> QED
    BY <1>11, <1>12, <1>13, <1>14, <1>15 DEF StreamInv

\* A message is about a saved block: one at toBlock or above shows that the chain
\* has reached it.
LEMMA WakeStream ==
  ASSUME IndInv, Wake
  PROVE  StreamInv'
  <1> SUFFICES ASSUME feed # "nullifiers" PROVE StreamInv'
    BY DEF StreamInv, Wake, request
  <1>1. /\ phase = "waiting" /\ buffer = <<>> /\ CursorIsBehind /\ EachOnceInOrder
        /\ UNCHANGED <<tip, rows, request, from, cursor, buffer, yielded>>
    BY DEF IndInv, StreamInv, Wake, table
  <1>2. PICK message \in Message :
          /\ Receive(message)
          /\ IF message.mine
             THEN /\ phase' = "fetching"
                  /\ next' = Resume
                  /\ lastRound' = (feed # "nullifiers" /\ until # None /\ message.height >= until)
             ELSE UNCHANGED <<phase, next, lastRound>>
    BY DEF Wake
  <1>3. Matching' = Matching /\ NextKey' = NextKey /\ ReachedToBlock' = ReachedToBlock
        /\ feed' = feed /\ Yielded' = Yielded
    BY <1>1, MatchingStays DEF request, Yielded
  <1>4. CASE ~message.mine
    BY <1>1, <1>2, <1>4, QuietStream DEF IndInv
  <1>5. CASE message.mine
    <2>1. message \in Saved
      BY <1>2 DEF IndInv, TypeOK, Receive
    <2>2. message.height \in 0 .. tip - 1
      BY <2>1 DEF Saved
    <2>3. lastRound' => ReachedToBlock
      <3>1. tip \in Nat /\ until \in Int
        BY DEF IndInv, TypeOK, None
      <3>2. lastRound' => until # None /\ message.height >= until
        BY <1>2, <1>5, Zenon
      <3> QED
        BY <2>2, <3>1, <3>2 DEF ReachedToBlock
    <2>4. next' = cursor /\ phase' = "fetching"
      BY <1>2, <1>5 DEF Resume
    <2>5. \A k \in Matching : ~(cursor <= k /\ k < cursor)
      BY MatchingType DEF IndInv, TypeOK
    <2>6. BufferIsNext'
      BY <1>1, <1>3, <2>4, <2>5 DEF BufferIsNext, Buffered
    <2>7. LastRoundIsLast' /\ StartsAtFrom'
      BY <1>3, <2>3, <2>4 DEF LastRoundIsLast, StartsAtFrom, Starting
    <2>8. CursorIsBehind' /\ EachOnceInOrder'
      BY <1>1, <1>3 DEF CursorIsBehind, EachOnceInOrder
    <2> QED
      BY <2>4, <2>6, <2>7, <2>8 DEF StreamInv
  <1> QED
    BY <1>4, <1>5

\* Other steps of the subscription.
LEMMA StreamStep ==
  ASSUME IndInv, [Next]_vars, TypeOK'
  PROVE  StreamInv'
  <1> USE DEF table, request
  <1>1. ASSUME NEW n \in 0 .. (IF feed = "blocks" THEN 0 ELSE MaxRows),
               NEW block \in [1 .. n -> BOOLEAN], SaveBlock(block)
        PROVE  StreamInv'
    <2>1. n \in Nat
      BY FeedBoundsAssumption, SMTT(30)
    <2> QED
      BY <1>1, <2>1, SaveBlockStream
  <1>2. CASE Announce \/ StopIndexer \/ Poll \/ Drop \/ UNCHANGED vars
    BY <1>2, QuietStream DEF IndInv, Announce, StopIndexer, Poll, Drop, vars
  <1>3. CASE Subscribe
    <2>1. /\ Starting /\ UNCHANGED <<tip, rows, request, buffer, yielded, lastRound>>
          /\ phase' \in {"resolving", "checking", "rejected", "fetching"}
      BY <1>3 DEF Subscribe, Starting
    <2>2. feed # "nullifiers" => cursor = from /\ next = from /\ ~lastRound
      BY <2>1 DEF IndInv, StreamInv, StartsAtFrom
    <2>3. feed # "nullifiers" => cursor' = from' /\ next' = from'
      BY <1>3, <2>2 DEF Subscribe, Begin
    <2>4. CASE feed = "nullifiers"
      BY <2>1, <2>4 DEF StreamInv
    <2> QED
      BY <2>1, <2>2, <2>3, <2>4, StartStream DEF Starting
  <1>4. CASE ResolveHeight \/ LocateContractAction \/ CheckToBlock
    <2>1. Starting /\ UNCHANGED <<tip, rows, request, buffer, yielded>>
      BY <1>4 DEF ResolveHeight, LocateContractAction, CheckToBlock, Starting
    <2>2. CASE feed = "nullifiers"
      BY <2>1, <2>2 DEF StreamInv
    <2>3. CASE feed # "nullifiers"
      <3>1. cursor = from /\ next = from /\ ~lastRound
        BY <2>1, <2>3, SMTT(30) DEF IndInv, StreamInv, StartsAtFrom
      <3>2. cursor' = from' /\ next' = from'
        BY <1>4, <3>1 DEF ResolveHeight, LocateContractAction, CheckToBlock, Begin
      <3>3. (Starting' /\ ~lastRound') \/ (phase' = "fetching" /\ (lastRound' => ReachedToBlock))
        BY <1>4, <3>1 DEF ResolveHeight, LocateContractAction, CheckToBlock, Starting
      <3> QED
        BY <2>1, <3>2, <3>3, StartStream
    <2> QED
      BY <2>2, <2>3
  <1>5. CASE Fetch
    BY <1>5, FetchStream
  <1>6. CASE Yield
    BY <1>6, YieldStream
  <1>7. CASE Wake
    BY <1>7, WakeStream
  <1>8. CASE ReachToBlock
    BY <1>8 DEF ReachToBlock, IndInv, StreamInv
  <1>9. CASE Fail
    <2>1. /\ phase = "waiting" /\ phase' = "failed"
          /\ UNCHANGED <<tip, rows, request, from, cursor, next, lastRound, buffer, yielded>>
      BY <1>9 DEF Fail
    <2>2. Matching' = Matching /\ NextKey' = NextKey /\ Yielded' = Yielded
      BY <2>1, MatchingStays DEF Yielded
    <2> QED
      BY <2>1, <2>2 DEF IndInv, StreamInv, EachOnceInOrder, CursorIsBehind, StartsAtFrom, Starting,
         LastRoundIsLast
  <1> QED
    BY <1>1, <1>2, <1>3, <1>4, <1>5, <1>6, <1>7, <1>8, <1>9, SMTT(30) DEF Next

-----------------------------------------------------------------------------
(* The theorems.                                                           *)

\* The invariant holds in every reachable state of a subscription.
THEOREM Inductive == Spec => []IndInv
  <1>1. Init => IndInv
    <2> SUFFICES ASSUME Init PROVE IndInv
      OBVIOUS
    <2>1. TypeOK
      <3>1. Height \subseteq Nat
        BY FeedBoundsAssumption DEF Height
      <3>2. feed \in AllFeeds /\ offset \in Nat \cup {None}
        BY <3>1, FeedsAssumption DEF Init
      <3>3. until \in IF feed \in {"contract_events", "nullifiers"} THEN Nat \cup {None} ELSE {None}
        BY <3>1 DEF Init
      <3>4. \A S : <<>> \in Seq(S)
        OBVIOUS
      <3> QED
        BY <3>2, <3>3, <3>4, Zenon DEF Init, TypeOK, ChannelInit, Phase
    <2>2. \A k \in Matching : ~(0 <= k /\ k < 0)
      BY <2>1, MatchingType
    <2>3. Yielded = {}
      BY DEF Init, Yielded
    <2>4. NextKey \in Nat
      BY <2>1, MatchingType
    <2>5. StreamInv
      BY <2>2, <2>3, <2>4 DEF Init, StreamInv, EachOnceInOrder, CursorIsBehind, StartsAtFrom,
         Starting, LastRoundIsLast
    <2> QED
      BY <2>1, <2>5 DEF IndInv
  <1>2. TypeOK /\ [Next]_vars => TypeOK'
    <2> SUFFICES ASSUME TypeOK, [Next]_vars PROVE TypeOK'
      OBVIOUS
    <2>1. ASSUME NEW n \in 0 .. (IF feed = "blocks" THEN 0 ELSE MaxRows),
                 NEW block \in [1 .. n -> BOOLEAN], SaveBlock(block)
          PROVE  TypeOK'
      <3>1. n \in Nat
        BY FeedBoundsAssumption
      <3> QED
        BY <2>1, <3>1, SaveBlockType
    <2> QED
      BY <2>1, AnnounceType, SubscriptionType, StreamType DEF Next
  <1>3. IndInv /\ [Next]_vars => IndInv'
    BY <1>2, StreamStep DEF IndInv
  <1> QED
    BY <1>1, <1>3, PTL DEF Spec

\* Whatever is saved, published, lost or duplicated in between, a client gets
\* every selected row between where it started and where it is, in ascending
\* order and once: for every subscription but nullifiers, over NATS and within
\* one process, for every batch size.
THEOREM ClientGetsEachOnce == Spec => []EachOnceInOrder
  <1>1. IndInv => EachOnceInOrder
    BY DEF IndInv, StreamInv, EachOnceInOrder
  <1> QED
    BY Inductive, <1>1, PTL

\* A contract-events subscription that completes has yielded all events up to
\* toBlock, those committed while it was completing included.
THEOREM CompletionIsComplete == Spec => []CompletedIsComplete
  <1>1. IndInv => CompletedIsComplete
    <2> SUFFICES ASSUME IndInv, phase = "completed", feed = "contract_events"
                 PROVE  tip > until /\ {k \in Matching : k >= from} \subseteq Yielded
      BY DEF CompletedIsComplete
    <2>1. ReachedToBlock /\ \A k \in Matching : k < cursor
      BY DEF IndInv, StreamInv, LastRoundIsLast
    <2>2. Yielded = {k \in Matching : from <= k /\ k < cursor}
      BY DEF IndInv, StreamInv, EachOnceInOrder
    <2>3. \A k \in Matching : k \in Nat
      BY MatchingType DEF IndInv
    <2>4. from \in Nat
      BY DEF IndInv, TypeOK
    <2> QED
      BY <2>1, <2>2, <2>3, <2>4 DEF ReachedToBlock
  <1> QED
    BY Inductive, <1>1, PTL
=============================================================================
