-------------------------- MODULE ShieldedFeedProofs --------------------------
(***************************************************************************)
(* ShieldedFeed for every chain, wallet, transport and batch size.         *)
(***************************************************************************)
EXTENDS ShieldedFeed, FiniteSetTheorems, TLAPS

-----------------------------------------------------------------------------
(* The end indexes of the transactions.                                    *)

\* What the proofs need of a longer sequence.
LEMMA AppendIsSeq ==
  ASSUME NEW S, NEW x \in Seq(S), NEW e \in S
  PROVE  /\ Append(x, e) \in Seq(S) /\ Append(x, e) # <<>>
         /\ Len(Append(x, e)) = Len(x) + 1
         /\ \A k \in 1 .. Len(x) : Append(x, e)[k] = x[k]
         /\ Append(x, e)[Len(x) + 1] = e
  OBVIOUS

\* A set of natural numbers that is not empty has a least element.
LEMMA LeastOfNaturals ==
  ASSUME NEW T, T \subseteq Nat, T # {}
  PROVE  \E m \in T : \A n \in T : m <= n
  <1>1. PICK m \in T : \A n \in T : ~(<<n, m>> \in OpToRel(<, Nat))
    BY NatLessThanWellFounded, WFMin, Zenon
  <1>2. \A n \in T : ~(n < m)
    BY <1>1, Zenon DEF OpToRel
  <1> QED
    BY <1>2

\* g holds the running sums of the first N sizes.
Sums(size, N, g) == g = [t \in 0 .. N |-> IF t = 0 THEN 0 ELSE g[t - 1] + size[t]]

\* Running sums over any number of sizes exist: were there a least number for
\* which they do not, the sums up to the one before could be continued.
LEMMA SumsExist ==
  ASSUME NEW N \in Nat, NEW size \in [1 .. N -> Nat]
  PROVE  \E g \in [0 .. N -> Nat] : Sums(size, N, g)
  <1> DEFINE Has(n) == \E g \in [0 .. n -> Nat] : Sums(size, n, g)
             T == {n \in 0 .. N : ~Has(n)}
  <1>1. Has(0)
    <2> DEFINE z == [t \in 0 .. 0 |-> 0]
    <2>1. z \in [0 .. 0 -> Nat] /\ Sums(size, 0, z)
      BY DEF Sums
    <2> QED
      BY <2>1
  <1>2. ASSUME NEW n \in 1 .. N, Has(n - 1) PROVE Has(n)
    <2>1. PICK g \in [0 .. n - 1 -> Nat] : Sums(size, n - 1, g)
      BY <1>2
    <2> DEFINE h == [t \in 0 .. n |-> IF t = n THEN g[n - 1] + size[n] ELSE g[t]]
    <2>2. h \in [0 .. n -> Nat]
      OBVIOUS
    <2>3. \A t \in 0 .. n - 1 : g[t] = IF t = 0 THEN 0 ELSE g[t - 1] + size[t]
      BY <2>1 DEF Sums
    <2>4. \A t \in 0 .. n : h[t] = IF t = 0 THEN 0 ELSE h[t - 1] + size[t]
      <3>1. \A t \in 0 .. n - 1 : h[t] = g[t] /\ (t # 0 => h[t - 1] = g[t - 1])
        OBVIOUS
      <3>2. n # 0 /\ h[n] = g[n - 1] + size[n] /\ h[n - 1] = g[n - 1]
        OBVIOUS
      <3> HIDE DEF h
      <3> QED
        BY <2>3, <3>1, <3>2
    <2>5. Sums(size, n, h)
      BY <2>2, <2>4, Zenon DEF Sums
    <2> QED
      BY <2>2, <2>5, Zenon
  <1> HIDE DEF Has
  <1>3. ASSUME T # {} PROVE FALSE
    <2>1. T \subseteq Nat
      OBVIOUS
    <2>2. PICK n \in T : \A m \in T : n <= m
      BY <1>3, <2>1, LeastOfNaturals, Zenon
    <2>3. n \in 0 .. N /\ ~Has(n)
      OBVIOUS
    <2>4. n \in 1 .. N /\ n - 1 \in 0 .. N
      BY <2>3, <1>1
    <2>5. n - 1 \notin T
      BY <2>2, <2>4
    <2> QED
      BY <2>3, <2>4, <2>5, <1>2
  <1>4. Has(N)
    BY <1>3
  <1> QED
    BY <1>4 DEF Has

\* They are natural numbers that never fall.
LEMMA SumsGrow ==
  ASSUME NEW N \in Nat, NEW size \in [1 .. N -> Nat], NEW g, Sums(size, N, g)
  PROVE  /\ g \in [0 .. N -> Nat]
         /\ \A t, u \in 0 .. N : t <= u => g[t] <= g[u]
  <1>1. \A t \in 0 .. N : g[t] = IF t = 0 THEN 0 ELSE g[t - 1] + size[t]
    BY DEF Sums
  <1>2. \A t \in 0 .. N : g[t] \in Nat
    <2> DEFINE T == {t \in 0 .. N : g[t] \notin Nat}
    <2>1. ASSUME T # {} PROVE FALSE
      <3>1. T \subseteq Nat
        OBVIOUS
      <3>2. PICK n \in T : \A m \in T : n <= m
        BY <2>1, <3>1, LeastOfNaturals, Zenon
      <3>3. n \in 0 .. N /\ n # 0
        BY <1>1
      <3>4. n - 1 \in 0 .. N /\ n - 1 \notin T
        BY <3>2, <3>3
      <3> QED
        BY <3>3, <3>4, <1>1
    <2> QED
      BY <2>1
  <1>3. \A t \in 0 .. N : \A u \in 0 .. N : t <= u => g[t] <= g[u]
    <2> TAKE t \in 0 .. N
    <2> DEFINE T == {u \in t .. N : ~(g[t] <= g[u])}
    <2>1. ASSUME T # {} PROVE FALSE
      <3>1. T \subseteq Nat
        OBVIOUS
      <3>2. PICK n \in T : \A m \in T : n <= m
        BY <2>1, <3>1, LeastOfNaturals, Zenon
      <3>3. n \in t .. N /\ n # t
        BY <1>2
      <3>4. n - 1 \in t .. N /\ n - 1 \notin T
        BY <3>2, <3>3
      <3>5. g[n - 1] \in Nat /\ g[n] \in Nat /\ g[t] \in Nat /\ g[n] = g[n - 1] + size[n]
            /\ size[n] \in Nat
        BY <3>3, <1>1, <1>2
      <3> QED
        BY <3>3, <3>4, <3>5
    <2> QED
      BY <2>1
  <1>4. g \in [0 .. N -> Nat]
    BY <1>2 DEF Sums
  <1> QED
    BY <1>3, <1>4

\* Each transaction starts where the one before it ended.
LEMMA HiGrows ==
  ASSUME scenario \in Scenarios
  PROVE  /\ Hi \in [0 .. MaxTx -> Nat] /\ Hi[0] = 0
         /\ \A t, u \in 0 .. MaxTx : t <= u => Hi[t] <= Hi[u]
  <1>1. scenario.size \in [1 .. MaxTx -> Nat]
    BY ScenarioAssumption
  <1>2. \E g \in [0 .. MaxTx -> Nat] : Sums(scenario.size, MaxTx, g)
    BY <1>1, MaxTxAssumption, SumsExist
  <1>3. Sums(scenario.size, MaxTx, Hi)
    BY <1>2, Zenon DEF Hi, Sums
  <1>4. Hi[0] = 0
    BY <1>3, MaxTxAssumption DEF Sums
  <1> QED
    BY <1>1, <1>3, <1>4, MaxTxAssumption, SumsGrow

\* A transaction's range starts where the ones before it have ended.
LEMMA RangesFollow ==
  ASSUME scenario \in Scenarios
  PROVE  /\ \A t \in Tx : Lo(t) \in Nat /\ Hi[t] \in Nat /\ Lo(t) <= Hi[t]
         /\ \A t, u \in Tx : t < u => Hi[t] <= Lo(u)
  <1>1. /\ Hi \in [0 .. MaxTx -> Nat]
        /\ \A t, u \in 0 .. MaxTx : t <= u => Hi[t] <= Hi[u]
    BY HiGrows
  <1>2. \A t \in Tx : t \in 0 .. MaxTx /\ t - 1 \in 0 .. MaxTx /\ t - 1 <= t
    BY MaxTxAssumption DEF Tx
  <1>3. \A t, u \in Tx : t < u => t <= u - 1
    BY MaxTxAssumption DEF Tx
  <1> QED
    BY <1>1, <1>2, <1>3 DEF Lo

\* The chain stays the same.
LEMMA HiStays ==
  ASSUME scenario' = scenario
  PROVE  Hi' = Hi
  BY DEF Hi

-----------------------------------------------------------------------------
(* The stream of transactions.                                             *)

\* A query returns transactions of the chain that start at the index or later,
\* in the order of the chain.
LEMMA BatchFollows ==
  ASSUME TypeOK, NEW B \in Batches(next)
  PROVE  /\ B \in Seq(Tx)
         /\ \A i, j \in DOMAIN B : i < j => B[i] < B[j]
         /\ \A i \in DOMAIN B : next <= Lo(B[i])
  <1> DEFINE S == IF session THEN {t \in recorded : Lo(t) >= next} ELSE {}
  <1>1. S \subseteq Tx /\ S \subseteq Nat
    <2>1. S \subseteq Tx
      <3>1. S \subseteq recorded
        OBVIOUS
      <3> HIDE DEF S
      <3>2. recorded \subseteq 1 .. tip /\ tip \in 0 .. MaxTx
        BY DEF TypeOK
      <3>3. recorded \subseteq Tx
        BY <3>2, MaxTxAssumption DEF Tx
      <3> QED
        BY <3>1, <3>3
    <2>2. Tx \subseteq Nat
      BY MaxTxAssumption DEF Tx
    <2> HIDE DEF S
    <2> QED
      BY <2>1, <2>2
  <1>2. IsFiniteSet(S)
    <2>1. IsFiniteSet(Tx)
      BY MaxTxAssumption, FS_Interval DEF Tx
    <2> HIDE DEF S
    <2> QED
      BY <1>1, <2>1, FS_Subset, Zenon
  <1>3. \A t \in S : Lo(t) \in Nat /\ next \in Nat /\ next <= Lo(t)
    <2>1. \A t \in S : t \in Tx /\ Lo(t) >= next
      BY <1>1
    <2> QED
      BY <2>1, RangesFollow DEF TypeOK
  <1>4. /\ B \in [1 .. Least(BatchSize, Cardinality(S)) -> S]
        /\ \A i, j \in DOMAIN B : i < j => B[i] < B[j]
    BY Zenon DEF Batches, Pages, Listings
  <1> HIDE DEF S
  <1>5. B \in Seq(S) /\ \A i \in DOMAIN B : B[i] \in S
    <2>1. Least(BatchSize, Cardinality(S)) \in Nat
      BY <1>2, FS_CardinalityType, BatchAssumption DEF Least
    <2> QED
      BY <1>4, <2>1
  <1>6. B \in Seq(Tx)
    <2>1. S \subseteq Tx
      BY <1>1
    <2>2. B \in Seq(S)
      BY <1>5
    <2> QED
      BY <2>1, <2>2
  <1> QED
    BY <1>3, <1>4, <1>5, <1>6

\* Steps of the wallet, of the messages and of the progress leave the stream as
\* it is.
LEMMA QuietStream ==
  ASSUME IndInv, TypeOK', UNCHANGED <<scenario, phase, origin, cursor, next, buffer, sent>>
  PROVE  IndInv'
  <1>1. Hi' = Hi
    BY HiStays
  <1> QED
    BY <1>1 DEF IndInv, CursorIsEnd, BufferFollows, SentFitsTogether, Lo

LEMMA SubscribeStream ==
  ASSUME IndInv, TypeOK', NEW i \in scenario.indexes, Subscribe(i)
  PROVE  IndInv'
  <1>1. /\ phase = "idle" /\ phase' = "fetching" /\ origin' = i /\ cursor' = i /\ next' = i
        /\ UNCHANGED <<scenario, buffer, sent>>
    BY DEF Subscribe
  <1>2. sent = <<>> /\ buffer = <<>>
    BY <1>1 DEF IndInv, CursorIsEnd, BufferFollows
  <1> QED
    BY <1>1, <1>2 DEF IndInv, CursorIsEnd, BufferFollows, SentFitsTogether

\* A query is made when everything fetched before is sent: it goes on from the
\* end of what was sent last.
LEMMA FetchStream ==
  ASSUME IndInv, TypeOK', Fetch
  PROVE  IndInv'
  <1>1. /\ phase = "fetching" /\ buffer = <<>> /\ buffer' \in Batches(next)
        /\ UNCHANGED <<scenario, origin, cursor, sent>>
    BY DEF Fetch
  <1>2. Hi' = Hi
    BY <1>1, HiStays
  <1>3. next = cursor
    BY <1>1 DEF IndInv, BufferFollows
  <1>4. /\ buffer' \in Seq(Tx)
        /\ \A i, j \in DOMAIN buffer' : i < j => buffer'[i] < buffer'[j]
        /\ \A i \in DOMAIN buffer' : next <= Lo(buffer'[i])
    BY <1>1, BatchFollows DEF IndInv
  <1>5. CursorIsEnd' /\ SentFitsTogether'
    BY <1>1, <1>2 DEF IndInv, CursorIsEnd, SentFitsTogether, Lo, Fetch
  <1>6. CASE buffer' = <<>>
    BY <1>1, <1>5, <1>6 DEF Fetch, IndInv, BufferFollows
  <1>7. CASE buffer' # <<>>
    <2>1. next' = Hi[buffer'[Len(buffer')]] /\ phase' = phase
      BY <1>7 DEF Fetch
    <2>2. 1 \in DOMAIN buffer'
      BY <1>4, <1>7
    <2>3. cursor <= Lo(buffer'[1])
      BY <1>3, <1>4, <2>2
    <2>4. BufferFollows'
      BY <1>1, <1>2, <1>4, <1>7, <2>1, <2>3 DEF BufferFollows, Lo
    <2> QED
      BY <1>5, <2>4 DEF IndInv
  <1> QED
    BY <1>6, <1>7

\* The client gets the indexes between the cursor and the transaction, and then
\* the transaction; the rest of the buffer starts after it.
LEMMA YieldStream ==
  ASSUME IndInv, TypeOK', Yield
  PROVE  IndInv'
  <1> DEFINE t == Head(buffer)
             item == [tx |-> t, gap |-> Gap(t)]
  <1>1. /\ buffer # <<>> /\ sent' = Append(sent, item) /\ cursor' = Hi[t] /\ buffer' = Tail(buffer)
        /\ UNCHANGED <<scenario, phase, origin, next>>
    BY DEF Yield, GoOn
  <1>2. Hi' = Hi
    BY <1>1, HiStays
  <1>3. /\ buffer \in Seq(Tx) /\ cursor \in Nat /\ next \in Nat
        /\ sent \in Seq([tx : Tx, gap : {NoGap} \cup (Nat \X Nat)])
        /\ scenario \in Scenarios
    BY DEF IndInv, TypeOK
  <1>4. /\ Len(buffer) \in Nat /\ Len(buffer) >= 1 /\ DOMAIN buffer = 1 .. Len(buffer)
        /\ t = buffer[1] /\ t \in Tx
        /\ Tail(buffer) \in Seq(Tx)
        /\ Len(Tail(buffer)) = Len(buffer) - 1 /\ DOMAIN Tail(buffer) = 1 .. (Len(buffer) - 1)
        /\ \A i \in 1 .. (Len(buffer) - 1) : Tail(buffer)[i] = buffer[i + 1] /\ buffer[i + 1] \in Tx
    BY <1>1, <1>3
  <1> HIDE DEF t
  <1>5. /\ Len(sent) \in Nat /\ DOMAIN sent = 1 .. Len(sent) /\ sent' # <<>>
        /\ Len(sent') = Len(sent) + 1 /\ DOMAIN sent' = 1 .. (Len(sent) + 1)
        /\ \A n \in 1 .. Len(sent) : sent'[n] = sent[n]
        /\ sent'[Len(sent) + 1] = item
    <2> HIDE DEF item
    <2>1. sent' = Append(sent, item) /\ \E S : sent \in Seq(S)
      BY <1>1, <1>3, Zenon
    <2> QED
      BY <2>1
  <1>6. Lo(t) \in Nat /\ cursor <= Lo(t) /\ phase = "fetching"
    BY <1>1, <1>3, <1>4, RangesFollow DEF IndInv, BufferFollows
  <1>7. cursor = IF sent = <<>> THEN origin ELSE Hi[sent[Len(sent)].tx]
    BY DEF IndInv, CursorIsEnd
  <1>8. SentFitsTogether'
    <2> SUFFICES ASSUME NEW n \in 1 .. (Len(sent) + 1)
                 PROVE  LET before == IF n = 1 THEN origin ELSE Hi[sent'[n - 1].tx]
                            it     == sent'[n]
                        IN  IF it.gap = NoGap THEN Lo(it.tx) = before
                            ELSE /\ it.gap[1] = before /\ it.gap[2] = Lo(it.tx) - 1
                                 /\ before < Lo(it.tx)
      BY <1>1, <1>2, <1>5 DEF SentFitsTogether, Lo
    <2>1. CASE n \in 1 .. Len(sent)
      <3>1. sent'[n] = sent[n] /\ (n # 1 => sent'[n - 1] = sent[n - 1])
        BY <2>1, <1>5
      <3> QED
        BY <2>1, <3>1, <1>5 DEF IndInv, SentFitsTogether
    <2>2. CASE n = Len(sent) + 1
      <3>1. sent'[n].tx = t /\ sent'[n].gap = Gap(t)
        BY <2>2, <1>5
      <3>2. cursor = IF n = 1 THEN origin ELSE Hi[sent'[n - 1].tx]
        <4>1. CASE Len(sent) = 0
          BY <4>1, <2>2, <1>3, <1>7
        <4>2. CASE Len(sent) # 0
          BY <4>2, <2>2, <1>3, <1>5, <1>7
        <4> QED
          BY <4>1, <4>2
      <3>3. CASE cursor < Lo(t)
        BY <3>1, <3>2, <3>3 DEF Gap, NoGap
      <3>4. CASE ~(cursor < Lo(t))
        BY <3>1, <3>2, <3>4, <1>3, <1>6 DEF Gap, NoGap
      <3> QED
        BY <3>3, <3>4
    <2> QED
      BY <2>1, <2>2, <1>5
  <1>9. CursorIsEnd'
    BY <1>1, <1>2, <1>5, <1>6 DEF CursorIsEnd
  <1>10. BufferFollows'
    <2>1. \A i, j \in DOMAIN buffer' : i < j => buffer'[i] < buffer'[j]
      BY <1>1, <1>4 DEF IndInv, BufferFollows
    <2>2. next = Hi[buffer[Len(buffer)]]
      BY <1>1, <1>6 DEF IndInv, BufferFollows
    <2>3. CASE Len(buffer) = 1
      <3>1. Tail(buffer) = <<>>
        BY <2>3, <1>4
      <3> QED
        BY <3>1, <2>2, <2>3, <1>1, <1>2, <1>4, <1>6 DEF BufferFollows
    <2>4. CASE Len(buffer) # 1
      <3>1. Tail(buffer) # <<>>
        <4>1. 1 \in 1 .. (Len(buffer) - 1)
          BY <2>4, <1>4
        <4>2. DOMAIN Tail(buffer) # {}
          BY <1>4, <4>1, Zenon
        <4> QED
          BY <4>2
      <3>2. Tail(buffer)[Len(buffer) - 1] = buffer[Len(buffer)] /\ Tail(buffer)[1] = buffer[2]
            /\ buffer[2] \in Tx
        BY <2>4, <1>4
      <3>3. buffer[1] < buffer[2]
        BY <2>4, <1>4 DEF IndInv, BufferFollows
      <3>4. Hi[t] <= Lo(buffer[2])
        BY <3>2, <3>3, <1>3, <1>4, RangesFollow
      <3> QED
        BY <3>1, <3>2, <3>4, <2>1, <2>2, <1>1, <1>2, <1>4, <1>6 DEF BufferFollows, Lo
    <2> QED
      BY <2>3, <2>4
  <1> QED
    BY <1>8, <1>9, <1>10 DEF IndInv

\* A message makes the stream start again from the cursor.
LEMMA WakeStream ==
  ASSUME IndInv, TypeOK', Wake
  PROVE  IndInv'
  <1>1. /\ phase = "waiting" /\ phase' = "fetching" /\ next' = cursor
        /\ UNCHANGED <<scenario, origin, cursor, buffer, sent>>
    BY DEF Wake
  <1>2. Hi' = Hi /\ buffer = <<>>
    BY <1>1, HiStays, SMTT(30) DEF IndInv, BufferFollows
  <1> QED
    BY <1>1, <1>2 DEF IndInv, CursorIsEnd, BufferFollows, SentFitsTogether, Lo

LEMMA FailStream ==
  ASSUME IndInv, TypeOK', Fail
  PROVE  IndInv'
  <1>1. /\ phase = "waiting" /\ phase' = "failed"
        /\ UNCHANGED <<scenario, origin, cursor, next, buffer, sent>>
    BY DEF Fail
  <1>2. Hi' = Hi /\ buffer = <<>>
    BY <1>1, HiStays DEF IndInv, BufferFollows
  <1> QED
    BY <1>1, <1>2 DEF IndInv, CursorIsEnd, BufferFollows, SentFitsTogether, Lo

-----------------------------------------------------------------------------
(* Types.                                                                  *)

LEMMA InitType == Init => TypeOK
  <1> SUFFICES ASSUME Init PROVE TypeOK
    OBVIOUS
  <1>1. PICK s \in scenario.starts : wallet = [wanted |-> s, first |-> s, last |-> s, start |-> s]
    BY DEF Init
  <1>2. s \in Nat /\ s \in Int /\ tip \in 0 .. MaxTx /\ others \in Nat
    BY ScenarioAssumption DEF Init
  <1>3. wallet \in [wanted : Int, first : Int, last : Nat, start : Int] /\ wallet.first <= wallet.last
    BY <1>1, <1>2
  <1> QED
    BY <1>2, <1>3 DEF Init, TypeOK

\* The steps that write the tables.
TableStep ==
  \/ SaveTransaction \/ (\E i \in scenario.others : IndexOther(i))
  \/ ScanForward \/ ScanBackward \/ (\E s \in scenario.starts : ConnectWallet(s))

\* Tables grow, and cursors stay apart.
LEMMA TableType ==
  ASSUME TypeOK, TableStep
  PROVE  /\ TypeOK' /\ tip <= tip' /\ others <= others' /\ wallet.last <= wallet'.last
         /\ recorded \subseteq recorded'
  <1>1. UNCHANGED <<scenario, phase, origin, cursor, next, buffer, sent>>
    BY DEF TableStep, SaveTransaction, IndexOther, ScanForward, ScanBackward, ConnectWallet
  <1>2. /\ wallet \in [wanted : Int, first : Int, last : Nat, start : Int]
        /\ tip \in 0 .. MaxTx /\ tip \in Nat /\ others \in Nat /\ MaxTx \in Nat
        /\ wallet.first <= wallet.last /\ recorded \subseteq {t \in 1 .. tip : t <= wallet.last}
        /\ scenario.starts \subseteq Nat /\ scenario.others \subseteq Nat
    BY ScenarioAssumption, MaxTxAssumption DEF TypeOK
  <1> DEFINE Tables ==
        /\ wallet' \in [wanted : Int, first : Int, last : Nat, start : Int]
        /\ tip' \in 0 .. MaxTx /\ others' \in Nat
        /\ wallet'.first <= wallet'.last /\ recorded' \subseteq {t \in 1 .. tip' : t <= wallet'.last}
        /\ tip <= tip' /\ others <= others' /\ wallet.last <= wallet'.last /\ recorded \subseteq recorded'
  <1>3. ASSUME SaveTransaction PROVE Tables
    BY <1>2, <1>3 DEF SaveTransaction
  <1>4. ASSUME \E i \in scenario.others : IndexOther(i) PROVE Tables
    BY <1>2, <1>4 DEF IndexOther
  <1>5. ASSUME ScanForward PROVE Tables
    <2>1. /\ wallet' = [wallet EXCEPT !.last = wallet.last + 1] /\ wallet.last < tip
          /\ tip' = tip /\ others' = others
          /\ recorded' \subseteq recorded \cup {wallet.last + 1} /\ recorded \subseteq recorded'
      BY <1>5 DEF ScanForward, Record
    <2> QED
      BY <1>2, <2>1
  <1>6. ASSUME ScanBackward PROVE Tables
    <2>1. PICK f \in Int : /\ wallet' = [wallet EXCEPT !.first = f] /\ f < wallet.first
                           /\ recorded' = recorded \/ (f \in 1 .. tip /\ recorded' \subseteq recorded \cup {f})
                           /\ recorded \subseteq recorded' /\ tip' = tip /\ others' = others
      BY <1>2, <1>6 DEF ScanBackward, Record
    <2> QED
      BY <1>2, <2>1
  <1>7. ASSUME \E s \in scenario.starts : ConnectWallet(s) PROVE Tables
    BY <1>2, <1>7 DEF ConnectWallet
  <1>8. Tables
    BY <1>3, <1>4, <1>5, <1>6, <1>7 DEF TableStep
  <1> QED
    BY <1>1, <1>8, SMTT(30) DEF TypeOK

LEMMA StreamType ==
  ASSUME IndInv, (\E i \in scenario.indexes : Subscribe(i)) \/ Fetch \/ Yield \/ Wake \/ Fail
  PROVE  TypeOK'
  <1>1. TypeOK /\ scenario \in Scenarios /\ UNCHANGED <<scenario, tip, others, wallet, recorded>>
    BY DEF IndInv, TypeOK, Subscribe, Fetch, Yield, Wake, Fail, index
  <1>2. Hi \in [0 .. MaxTx -> Nat] /\ Tx \subseteq 0 .. MaxTx
    BY <1>1, HiGrows, MaxTxAssumption DEF Tx
  <1>3. CASE \E i \in scenario.indexes : Subscribe(i)
    <2>1. PICK i \in scenario.indexes : Subscribe(i)
      BY <1>3
    <2>2. i \in Nat
      BY <1>1, ScenarioAssumption, SMTT(30)
    <2> QED
      BY <1>1, <2>1, <2>2 DEF TypeOK, Subscribe
  <1>4. CASE Fetch
    <2>1. buffer' \in Seq(Tx)
      BY <1>1, <1>4, BatchFollows DEF Fetch
    <2>2. next' \in Nat
      <3>1. CASE buffer' = <<>>
        BY <1>1, <1>4, <3>1 DEF Fetch, TypeOK
      <3>2. CASE buffer' # <<>>
        <4>1. buffer'[Len(buffer')] \in Tx
          BY <2>1, <3>2
        <4> QED
          BY <1>2, <1>4, <3>2, <4>1, Zenon DEF Fetch
      <3> QED
        BY <3>1, <3>2
    <2> QED
      BY <1>1, <1>4, <2>1, <2>2 DEF TypeOK, Fetch
  <1>5. CASE Yield
    <2>1. /\ buffer # <<>> /\ buffer \in Seq(Tx) /\ cursor \in Nat
          /\ sent \in Seq([tx : Tx, gap : {NoGap} \cup (Nat \X Nat)])
      BY <1>1, <1>5 DEF TypeOK, Yield
    <2>2. Head(buffer) \in Tx /\ Tail(buffer) \in Seq(Tx)
      BY <2>1
    <2>3. Hi[Head(buffer)] \in Nat /\ Lo(Head(buffer)) \in Nat
      BY <1>1, <2>2, RangesFollow
    <2>4. Gap(Head(buffer)) \in {NoGap} \cup (Nat \X Nat)
      BY <2>1, <2>3 DEF Gap
    <2>5. sent' \in Seq([tx : Tx, gap : {NoGap} \cup (Nat \X Nat)])
      <3>1. [tx |-> Head(buffer), gap |-> Gap(Head(buffer))] \in [tx : Tx, gap : {NoGap} \cup (Nat \X Nat)]
        BY <2>2, <2>4, SMTT(30)
      <3>2. sent' = Append(sent, [tx |-> Head(buffer), gap |-> Gap(Head(buffer))])
        BY <1>5 DEF Yield
      <3> QED
        BY <2>1, <3>1, <3>2, AppendIsSeq, Zenon
    <2> QED
      BY <1>1, <1>5, <2>2, <2>3, <2>5 DEF TypeOK, Yield, GoOn
  <1>6. CASE Wake \/ Fail
    BY <1>1, <1>6 DEF TypeOK, Wake, Fail
  <1> QED
    BY <1>3, <1>4, <1>5, <1>6

\* The steps of the table, of the messages and of the progress.
Outside ==
  \/ TableStep
  \/ DisconnectWallet \/ Announce \/ StopIndexer \/ Poll \/ Drop
  \/ (\E p \in scenario.pollers : MakeProgress(p) \/ EndProgress(p)) \/ ExpireProgress

LEMMA StreamStep ==
  ASSUME IndInv, [Next]_vars
  PROVE  IndInv'
  <1>1. TypeOK
    BY DEF IndInv
  <1>2. ASSUME Outside PROVE IndInv'
    <2>1. UNCHANGED <<scenario, phase, origin, cursor, next, buffer, sent>>
      BY <1>2 DEF Outside, TableStep, SaveTransaction, IndexOther, ScanForward, ScanBackward, ConnectWallet, DisconnectWallet, Announce, StopIndexer,
                  Poll, Drop, MakeProgress, EndProgress, ExpireProgress
    <2>2. TypeOK'
      <3>1. CASE TableStep
        BY <1>1, <3>1, TableType
      <3>2. CASE ~TableStep
        <4>1. UNCHANGED <<tip, others, wallet, recorded>>
          BY <1>2, <3>2 DEF Outside, DisconnectWallet, Announce, StopIndexer, Poll, Drop, MakeProgress, EndProgress,
                            ExpireProgress, index
        <4> QED
          BY <1>1, <2>1, <4>1, SMTT(30) DEF TypeOK
      <3> QED
        BY <3>1, <3>2
    <2> QED
      BY <2>1, <2>2, QuietStream
  <1>3. CASE (\E i \in scenario.indexes : Subscribe(i)) \/ Fetch \/ Yield \/ Wake \/ Fail
    <2>1. TypeOK'
      BY <1>3, StreamType
    <2> QED
      BY <1>3, <2>1, SubscribeStream, FetchStream, YieldStream, WakeStream, FailStream
  <1>4. CASE UNCHANGED vars
    <2>1. UNCHANGED <<scenario, tip, others, wallet, recorded, phase, origin, cursor, next, buffer, sent>>
      BY <1>4 DEF vars, index
    <2>2. TypeOK'
      BY <1>1, <2>1 DEF TypeOK
    <2> QED
      BY <2>1, <2>2, QuietStream
  <1> QED
    BY <1>2, <1>3, <1>4 DEF Next, Outside, TableStep

\* The subscription's cursor is always the end of what it sent last, and what it
\* has fetched goes on from there in the order of the chain.
THEOREM StreamIsContinuous == Spec => []IndInv
  <1>1. ASSUME Init PROVE IndInv
    <2>1. sent = <<>> /\ buffer = <<>> /\ origin = 0 /\ cursor = 0 /\ phase = "idle"
      BY <1>1 DEF Init
    <2>2. CursorIsEnd /\ BufferFollows /\ SentFitsTogether
      BY <2>1 DEF CursorIsEnd, BufferFollows, SentFitsTogether
    <2> QED
      BY <1>1, <2>2, InitType DEF IndInv
  <1>2. IndInv /\ [Next]_vars => IndInv'
    BY StreamStep
  <1> QED
    BY <1>1, <1>2, PTL DEF Spec

\* SentFitsTogether for every chain, wallet, transport and batch size: the ranges
\* and collapsed updates of the shielded transactions subscription fit together
\* without a hole or an index twice.
THEOREM SentAlwaysFits == Spec => []SentFitsTogether
  <1>1. IndInv => SentFitsTogether
    BY DEF IndInv
  <1> QED
    BY <1>1, StreamIsContinuous, PTL

-----------------------------------------------------------------------------
(* The progress of the wallet.                                             *)

LEMMA GreatestOfTx ==
  ASSUME NEW S \in SUBSET Tx, S # {}
  PROVE  \E t \in S : \A u \in S : u <= t
  <1> DEFINE B == {n \in Nat : \A u \in S : u <= n}
  <1>1. S \subseteq Nat /\ MaxTx \in B
    BY MaxTxAssumption DEF Tx
  <1>2. PICK b \in B : \A n \in B : b <= n
    BY <1>1, LeastOfNaturals, Zenon
  <1>3. b \in S
    <2> SUFFICES ASSUME b \notin S PROVE FALSE
      OBVIOUS
    <2>1. \A u \in S : u \in Nat /\ u >= 1 /\ u <= b /\ u # b
      BY <1>1, <1>2 DEF Tx
    <2>2. b \in Nat /\ b >= 1
      BY <2>1, <1>2
    <2>3. \A u \in S : u <= b - 1
      BY <2>1, <2>2
    <2>4. b - 1 \in B
      BY <2>2, <2>3
    <2> QED
      BY <2>2, <2>4, <1>2
  <1> QED
    BY <1>2, <1>3

\* What the query reads is what the tables have reached, and ahead of everything
\* that was read before.
LEMMA QueryIsAhead ==
  ASSUME TypeOK
  PROVE  /\ IsReached(HighestZswapEndIndices)
         /\ \A v : IsReached(v) => GoesForward(v, HighestZswapEndIndices)
  <1> DEFINE H == HighestZswapEndIndices
             m == CHOOSE t \in recorded : \A u \in recorded : u <= t
             l == LastIndexed
  <1>1. /\ Hi \in [0 .. MaxTx -> Nat] /\ Hi[0] = 0
        /\ \A t, u \in 0 .. MaxTx : t <= u => Hi[t] <= Hi[u]
    BY HiGrows DEF TypeOK
  <1>2. /\ recorded \subseteq Tx /\ Tx \subseteq 0 .. MaxTx /\ 1 .. tip \subseteq 0 .. MaxTx
        /\ tip \in 0 .. MaxTx /\ tip \in Nat /\ Hi[tip] \in Nat
        /\ \A t \in recorded : t \in 0 .. MaxTx /\ t <= l
        /\ l \in Nat
    <2>1. /\ wallet.last \in Nat /\ others \in Nat /\ tip \in 0 .. MaxTx
          /\ recorded \subseteq {t \in 1 .. tip : t <= wallet.last}
      BY DEF TypeOK
    <2> QED
      BY <2>1, <1>1, MaxTxAssumption DEF Tx, LastIndexed
  <1>3. recorded # {} => m \in recorded /\ \A u \in recorded : u <= m
    BY <1>2, GreatestOfTx, Zenon
  <1>4. /\ H.highest = IF tip > 0 THEN Hi[tip] ELSE None
        /\ H.checked = IF l \in 1 .. tip THEN Hi[l] ELSE None
        /\ H.relevant = IF session /\ recorded # {} THEN Hi[m] ELSE None
        /\ H = [highest |-> H.highest, checked |-> H.checked, relevant |-> H.relevant]
    BY DEF HighestZswapEndIndices
  <1> HIDE DEF H, m, l
  <1>5. /\ l \in 1 .. tip => Hi[l] \in Nat /\ Hi[l] <= Hi[tip]
        /\ recorded # {} => m \in 0 .. MaxTx /\ Hi[m] \in Nat
        /\ l \in 1 .. tip /\ recorded # {} => Hi[m] <= Hi[l]
    <2>1. l \in 1 .. tip => l \in 0 .. MaxTx /\ l <= tip
      BY <1>2
    <2> QED
      BY <1>1, <1>2, <1>3, <2>1
  <1>6. H \in Indices
    <2>1. H.highest \in Nat \cup {None} /\ H.checked \in Nat \cup {None} /\ H.relevant \in Nat \cup {None}
      BY <1>2, <1>4, <1>5
    <2> QED
      BY <1>4, <2>1 DEF Indices
  <1>7. AsShown(H.highest) = Hi[tip]
    <2>1. CASE tip > 0
      BY <2>1, <1>2, <1>4, NoneIsNoIndex DEF AsShown
    <2>2. CASE ~(tip > 0)
      BY <2>2, <1>1, <1>2, <1>4 DEF AsShown
    <2> QED
      BY <2>1, <2>2
  <1>8. InOrder(H)
    <2>1. AsShown(H.checked) <= Hi[tip]
      BY <1>2, <1>4, <1>5, NoneIsNoIndex DEF AsShown
    <2>2. H.checked # None => AsShown(H.relevant) <= H.checked
      BY <1>4, <1>5, NoneIsNoIndex DEF AsShown
    <2> QED
      BY <1>7, <2>1, <2>2 DEF InOrder
  <1>9. IsReached(H)
    <2>1. H.checked # None => \E t \in 1 .. tip : t <= l /\ H.checked <= Hi[t]
      BY <1>2, <1>4, <1>5
    <2>2. H.relevant # None => \E t \in recorded : H.relevant <= Hi[t]
      BY <1>3, <1>4, <1>5
    <2>3. AsShown(H.highest) <= Hi[tip]
      BY <1>2, <1>7
    <2> QED
      BY <1>6, <1>8, <2>1, <2>2, <2>3 DEF IsReached, l
  <1>10. ASSUME NEW v, IsReached(v) PROVE GoesForward(v, H)
    <2>1. AsShown(v.highest) <= AsShown(H.highest)
      BY <1>7, <1>10 DEF IsReached
    <2>2. v.checked \in Nat \cup {None} /\ v.relevant \in Nat \cup {None}
      BY <1>10 DEF IsReached, Indices
    <2>3. AsShown(H.checked) \in Nat /\ AsShown(H.relevant) \in Nat
      BY <1>4, <1>5 DEF AsShown
    <2>4. AsShown(v.checked) <= AsShown(H.checked) \/ H.checked = None
      <3>1. CASE v.checked = None
        BY <3>1, <2>3 DEF AsShown
      <3>2. CASE v.checked # None /\ H.checked # None
        <4>1. PICK t \in 1 .. tip : t <= l /\ v.checked <= Hi[t]
          BY <3>2, <1>10 DEF IsReached, l
        <4>2. l \in 1 .. tip /\ H.checked = Hi[l]
          BY <3>2, <1>4
        <4>3. t \in 0 .. MaxTx /\ l \in 0 .. MaxTx /\ v.checked \in Nat
          BY <4>1, <4>2, <3>2, <2>2, <1>2
        <4>4. Hi[t] <= Hi[l] /\ Hi[t] \in Nat /\ Hi[l] \in Nat
          BY <4>1, <4>3, <1>1
        <4> QED
          BY <3>2, <4>1, <4>2, <4>3, <4>4 DEF AsShown
      <3> QED
        BY <3>1, <3>2
    <2>5. AsShown(v.relevant) <= AsShown(H.relevant) \/ H.relevant = None
      <3>1. CASE v.relevant = None
        BY <3>1, <2>3 DEF AsShown
      <3>2. CASE v.relevant # None /\ H.relevant # None
        <4>1. PICK t \in recorded : v.relevant <= Hi[t]
          BY <3>2, <1>10 DEF IsReached
        <4>2. H.relevant = Hi[m] /\ t <= m
          BY <4>1, <3>2, <1>3, <1>4
        <4>3. /\ t \in 0 .. MaxTx /\ Hi[t] <= Hi[m] /\ Hi[t] \in Nat /\ Hi[m] \in Nat /\ v.relevant \in Nat
          BY <4>1, <4>2, <3>2, <2>2, <1>1, <1>2, <1>5, SMTT(30)
        <4> QED
          BY <3>2, <4>1, <4>2, <4>3 DEF AsShown
      <3> QED
        BY <3>1, <3>2
    <2> QED
      BY <2>1, <2>4, <2>5 DEF GoesForward
  <1> QED
    BY <1>9, <1>10 DEF H

LEMMA NotBack ==
  ASSUME NEW v \in Indices
  PROVE  GoesForward(v, v)
  <1>1. /\ v.highest \in Nat \cup {None} /\ v.checked \in Nat \cup {None}
        /\ v.relevant \in Nat \cup {None}
    BY DEF Indices
  <1>2. AsShown(v.highest) \in Nat /\ AsShown(v.checked) \in Nat /\ AsShown(v.relevant) \in Nat
    BY <1>1 DEF AsShown
  <1> QED
    BY <1>2 DEF GoesForward

ReachedNext(v) ==
  /\ v \in Indices
  /\ InOrder(v)
  /\ AsShown(v.highest) <= Hi'[tip']
  /\ v.checked # None => \E t \in 1 .. tip' : t <= LastIndexed' /\ v.checked <= Hi'[t]
  /\ v.relevant # None => \E t \in recorded' : v.relevant <= Hi'[t]

\* The tables only grow, so what they have reached stays reached.
LEMMA ReachedStays ==
  ASSUME TypeOK, TypeOK', [Next]_vars
  PROVE  scenario' = scenario /\ \A v : IsReached(v) => ReachedNext(v)
  <1>1. scenario' = scenario
    BY SMTT(30) DEF Next, vars, SaveTransaction, IndexOther, ScanForward, ScanBackward, ConnectWallet,
           DisconnectWallet, Announce, StopIndexer, Subscribe, Fetch, Yield, Poll, Wake, Fail, Drop, MakeProgress,
           EndProgress, ExpireProgress
  <1>2. tip <= tip' /\ others <= others' /\ wallet.last <= wallet'.last /\ recorded \subseteq recorded'
    <2>1. CASE TableStep
      BY <2>1, TableType
    <2>2. CASE ~TableStep
      <3>1. UNCHANGED <<tip, others, wallet, recorded>>
        BY <2>2, Zenon DEF TableStep, Next, vars, index, DisconnectWallet, Announce, StopIndexer, Subscribe,
                    Fetch, Yield, Poll, Wake, Fail, Drop, MakeProgress, EndProgress, ExpireProgress
      <3>2. tip \in Nat /\ others \in Nat /\ wallet.last \in Nat
        BY MaxTxAssumption DEF TypeOK
      <3> QED
        BY <3>1, <3>2
    <2> QED
      BY <2>1, <2>2
  <1>3. /\ tip \in 0 .. MaxTx /\ tip' \in 0 .. MaxTx /\ wallet.last \in Nat /\ wallet'.last \in Nat
        /\ others \in Nat /\ others' \in Nat
    BY DEF TypeOK
  <1>4. Hi' = Hi
    BY <1>1, HiStays
  <1>5. /\ Hi \in [0 .. MaxTx -> Nat]
        /\ \A t, u \in 0 .. MaxTx : t <= u => Hi[t] <= Hi[u]
    BY HiGrows DEF TypeOK
  <1>6. LastIndexed <= LastIndexed' /\ LastIndexed \in Nat /\ LastIndexed' \in Nat
    BY <1>2, <1>3 DEF LastIndexed
  <1>7. ASSUME NEW v, IsReached(v) PROVE ReachedNext(v)
    <2>1. AsShown(v.highest) <= Hi[tip']
      <3>1. AsShown(v.highest) \in Nat /\ AsShown(v.highest) <= Hi[tip]
        BY <1>7 DEF IsReached, Indices, AsShown
      <3>2. Hi[tip] <= Hi[tip'] /\ Hi[tip] \in Nat /\ Hi[tip'] \in Nat
        BY <1>2, <1>3, <1>5
      <3> QED
        BY <3>1, <3>2
    <2>2. v.checked # None => \E t \in 1 .. tip' : t <= LastIndexed' /\ v.checked <= Hi[t]
      <3> SUFFICES ASSUME v.checked # None
                   PROVE  \E t \in 1 .. tip' : t <= LastIndexed' /\ v.checked <= Hi[t]
        OBVIOUS
      <3>1. PICK t \in 1 .. tip : t <= LastIndexed /\ v.checked <= Hi[t]
        BY <1>7 DEF IsReached
      <3>2. t \in 1 .. tip' /\ t <= LastIndexed'
        BY <3>1, <1>2, <1>3, <1>6
      <3> QED
        BY <3>1, <3>2
    <2> QED
      BY <1>2, <1>4, <1>7, <2>1, <2>2 DEF IsReached, ReachedNext
  <1> QED
    BY <1>1, <1>7, SMTT(30)

PollerStates == [pc : {"sleeping", "waiting", "loading", "gone"},
                 read : Indices \cup {None}, last : Indices \cup {None}]

\* What a step on the progress may do to a subscription: show the entry or what
\* was read, or leave what it shows.
Forwards ==
  \A p \in Pollers : Shown(p)' # Shown(p) =>
    InOrder(Shown(p)') /\ (Shown(p) # None => GoesForward(Shown(p), Shown(p)'))

\* What has to be shown of a step, in terms of the next state.
LEMMA ReadNext ==
  ASSUME entry' # None => ReachedNext(entry'),
         \A q \in With("loading")' : ReachedNext(poller'[q].read),
         \A q \in Pollers : poller'[q].last # None => ReachedNext(poller'[q].last)
  PROVE  ReadIsReached'
  BY DEF ReadIsReached, Shown, IsReached, ReachedNext

LEMMA ShownNext ==
  ASSUME \A q \in Pollers : poller'[q].last # None =>
           /\ entry' # None => GoesForward(poller'[q].last, entry')
           /\ \A o \in With("loading")' : GoesForward(poller'[q].last, poller'[o].read)
  PROVE  ShownIsBehind'
  BY DEF ShownIsBehind, Shown, GoesForward, AsShown

LEMMA QuietProgress ==
  ASSUME ProgressInv, \A v : IsReached(v) => ReachedNext(v), entry' = entry, poller' = poller
  PROVE  ProgressInv' /\ Forwards
  <1>1. With("loading")' = With("loading") /\ With("waiting")' = With("waiting")
    BY SMTT(30) DEF With
  <1>2. PollersOK'
    BY <1>1 DEF ProgressInv, PollersOK
  <1>3. ReadIsReached'
    BY <1>1, ReadNext DEF ProgressInv, ReadIsReached, Shown
  <1>4. ShownIsBehind'
    BY <1>1, ShownNext DEF ProgressInv, ShownIsBehind, Shown
  <1> QED
    BY <1>2, <1>3, <1>4, SMTT(30) DEF ProgressInv, Forwards, Shown

LEMMA ExpireStep ==
  ASSUME ProgressInv, \A v : IsReached(v) => ReachedNext(v), Expire
  PROVE  ProgressInv' /\ Forwards
  <1>1. entry' = None /\ poller' = poller
    BY DEF Expire
  <1>2. With("loading")' = With("loading") /\ With("waiting")' = With("waiting")
    BY <1>1, SMTT(30) DEF With
  <1>3. PollersOK'
    BY <1>1, <1>2 DEF ProgressInv, PollersOK
  <1>4. ReadIsReached'
    BY <1>1, <1>2, ReadNext DEF ProgressInv, ReadIsReached, Shown
  <1>5. ShownIsBehind'
    BY <1>1, <1>2, ShownNext DEF ProgressInv, ShownIsBehind, Shown
  <1> QED
    BY <1>1, <1>3, <1>4, <1>5 DEF ProgressInv, Forwards, Shown

LEMMA PollStep ==
  ASSUME ProgressInv, \A v : IsReached(v) => ReachedNext(v), NEW p \in Pollers, PollProgress(p)
  PROVE  ProgressInv' /\ Forwards
  <1>1. /\ entry' = entry /\ poller[p].pc = "sleeping" /\ poller \in [Pollers -> PollerStates]
        /\ poller' = [poller EXCEPT ![p] = IF entry = None THEN Goes(p, "waiting") ELSE Shows(p, entry)]
    BY SMTT(30) DEF PollProgress, ProgressInv, PollersOK, PollerStates
  <1>2. entry # None => entry \in Indices
    BY DEF ProgressInv, ReadIsReached, IsReached
  <1>3. poller'[p] \in PollerStates /\ \A q \in Pollers : q # p => poller'[q] = poller[q]
    BY <1>1, <1>2 DEF PollerStates, Goes, Shows
  <1>4. poller' \in [Pollers -> PollerStates]
    BY <1>1, <1>3, Zenon
  <1>5. CASE entry = None
    <2>1. poller'[p].pc = "waiting" /\ poller'[p].last = poller[p].last
      BY <1>1, <1>5 DEF Goes, PollerStates
    <2>2. With("loading")' = With("loading")
      BY <1>1, <1>3, <2>1, SMTT(30) DEF With
    <2>3. \A q \in Pollers : poller'[q].last = poller[q].last
      BY <1>3, <2>1
    <2>4. \A q \in With("loading") : poller'[q] = poller[q]
      BY <1>1, <1>3 DEF With
    <2>5. PollersOK'
      BY <1>1, <1>4, <1>5, <2>2, Zenon DEF ProgressInv, PollersOK, PollerStates
    <2>6. ReadIsReached'
      BY <1>1, <1>5, <2>2, <2>3, <2>4, ReadNext, ZenonT(30) DEF ProgressInv, ReadIsReached, Shown
    <2>7. ShownIsBehind'
      BY <1>1, <1>5, <2>2, <2>3, <2>4, ShownNext DEF ProgressInv, ShownIsBehind, Shown
    <2> QED
      BY <2>3, <2>5, <2>6, <2>7 DEF ProgressInv, Forwards, Shown
  <1>6. CASE entry # None
    <2>1. poller'[p].pc = "sleeping" /\ poller'[p].last = entry
      BY <1>1, <1>6 DEF Shows
    <2>2. With("loading") = {} /\ With("waiting") = {}
      BY <1>6 DEF ProgressInv, PollersOK
    <2>3. With("loading")' = {} /\ With("waiting")' = {}
      BY <1>3, <2>1, <2>2 DEF With
    <2>4. PollersOK'
      BY <1>4, <2>3, SMTT(30) DEF PollersOK, PollerStates
    <2>5. ReadIsReached'
      <3>1. ReachedNext(entry)
        BY <1>6 DEF ProgressInv, ReadIsReached
      <3>2. \A q \in Pollers : poller'[q].last # None => ReachedNext(poller'[q].last)
        BY <1>3, <2>1, <3>1 DEF ProgressInv, ReadIsReached, Shown
      <3> QED
        BY <1>1, <2>3, <3>1, <3>2, ReadNext
    <2>6. GoesForward(entry, entry)
      BY <1>2, <1>6, NotBack, Zenon
    <2>7. ShownIsBehind'
      BY <1>1, <1>3, <1>6, <2>1, <2>3, <2>6, ShownNext, ZenonT(30) DEF ProgressInv, ShownIsBehind, Shown
    <2>8. Forwards
      <3>1. InOrder(entry)
        BY <1>6 DEF ProgressInv, ReadIsReached, IsReached
      <3> QED
        BY <1>3, <1>6, <2>1, <3>1, SMTT(30) DEF Forwards, ProgressInv, ShownIsBehind, Shown
    <2> QED
      BY <2>4, <2>5, <2>7, <2>8 DEF ProgressInv
  <1> QED
    BY <1>5, <1>6

LEMMA LoadStep ==
  ASSUME TypeOK, ProgressInv, \A v : IsReached(v) => ReachedNext(v),
         NEW p \in Pollers, Load(p, HighestZswapEndIndices)
  PROVE  ProgressInv' /\ Forwards
  <1> DEFINE H == HighestZswapEndIndices
  <1>1. /\ IsReached(H)
        /\ \A v : IsReached(v) => GoesForward(v, H)
    BY QueryIsAhead
  <1>2. /\ entry' = entry /\ poller[p].pc = "waiting" /\ With("loading") = {}
        /\ poller' = [poller EXCEPT ![p].pc = "loading", ![p].read = H]
        /\ poller \in [Pollers -> PollerStates]
    BY SMTT(30) DEF Load, ProgressInv, PollersOK, PollerStates
  <1> HIDE DEF H
  <1>3. H \in Indices /\ ReachedNext(H)
    BY <1>1, Zenon DEF IsReached
  <1>4. entry = None
    BY <1>2 DEF ProgressInv, PollersOK, With
  <1>5. /\ poller'[p] \in PollerStates /\ poller'[p].pc = "loading" /\ poller'[p].read = H
        /\ poller'[p].last = poller[p].last
        /\ \A q \in Pollers : q # p => poller'[q] = poller[q]
    BY <1>2, <1>3, Zenon DEF PollerStates
  <1>6. poller' \in [Pollers -> PollerStates]
    BY <1>2, <1>5
  <1>7. With("loading")' = {p}
    BY <1>2, <1>5 DEF With
  <1>8. \A q \in Pollers : poller'[q].last = poller[q].last
    BY <1>5, Zenon
  <1>9. PollersOK'
    BY <1>2, <1>4, <1>6, <1>7, SMTT(30) DEF PollersOK, PollerStates
  <1>10. ReadIsReached'
    BY <1>2, <1>3, <1>4, <1>5, <1>7, <1>8, ReadNext DEF ProgressInv, ReadIsReached, Shown
  <1>11. \A q \in Pollers : Shown(q) # None => GoesForward(Shown(q), H)
    BY <1>1 DEF ProgressInv, ReadIsReached
  <1>12. ShownIsBehind'
    BY <1>2, <1>4, <1>5, <1>7, <1>8, <1>11, ShownNext, Zenon DEF Shown
  <1> QED
    BY <1>8, <1>9, <1>10, <1>12, Zenon DEF ProgressInv, Forwards, Shown

LEMMA StoreStep ==
  ASSUME ProgressInv, \A v : IsReached(v) => ReachedNext(v), NEW p \in Pollers, Store(p)
  PROVE  ProgressInv' /\ Forwards
  <1> DEFINE r == poller[p].read
  <1>1. /\ entry' = r /\ p \in With("loading") /\ poller \in [Pollers -> PollerStates]
        /\ poller' = [q \in Pollers |-> IF q = p \/ poller[q].pc = "waiting" THEN Shows(q, r) ELSE poller[q]]
    BY DEF Store, ProgressInv, PollersOK, PollerStates, With
  <1>2. IsReached(r) /\ \A q \in Pollers : Shown(q) # None => GoesForward(Shown(q), r)
    BY <1>1, Zenon DEF ProgressInv, ReadIsReached, ShownIsBehind
  <1> HIDE DEF r
  <1>3. r \in Indices /\ ReachedNext(r) /\ GoesForward(r, r)
    BY <1>2, NotBack DEF IsReached
  <1>4. \A q \in Pollers : \/ poller'[q] = Shows(q, r)
                           \/ poller'[q] = poller[q] /\ poller[q].pc # "waiting" /\ poller[q].pc # "loading"
    BY <1>1 DEF ProgressInv, PollersOK, With
  <1>5. \A q \in Pollers : Shows(q, r) \in PollerStates /\ Shows(q, r).pc = "sleeping" /\ Shows(q, r).last = r
    BY <1>3 DEF Shows, PollerStates
  <1>6. poller' \in [Pollers -> PollerStates]
    BY <1>1, <1>4, <1>5
  <1>7. With("loading")' = {} /\ With("waiting")' = {}
    BY <1>4, <1>5 DEF With
  <1>8. \A q \in Pollers : poller'[q].last = r \/ poller'[q].last = poller[q].last
    BY <1>4, <1>5, Zenon
  <1>9. PollersOK'
    BY <1>6, <1>7, Zenon DEF PollersOK, PollerStates
  <1>10. ReadIsReached'
    BY <1>1, <1>3, <1>7, <1>8, ReadNext, Zenon DEF ProgressInv, ReadIsReached, Shown
  <1>11. ShownIsBehind'
    BY <1>1, <1>2, <1>3, <1>7, <1>8, ShownNext, Zenon DEF Shown
  <1>12. Forwards
    <2>1. InOrder(r)
      BY <1>2 DEF IsReached
    <2> QED
      BY <1>2, <1>8, <2>1 DEF Forwards, Shown
  <1> QED
    BY <1>9, <1>10, <1>11, <1>12 DEF ProgressInv

\* A query that fails or is dropped changes nothing that is shown.
LEMMA EndStep ==
  ASSUME ProgressInv, \A v : IsReached(v) => ReachedNext(v), NEW p \in Pollers, LoadFails(p) \/ Leave(p)
  PROVE  ProgressInv' /\ Forwards
  <1>1. entry' = entry /\ poller \in [Pollers -> PollerStates]
    BY DEF LoadFails, Leave, ProgressInv, PollersOK, PollerStates
  <1>2. \A q \in Pollers : Goes(q, "gone") \in PollerStates /\ Goes(q, "gone").pc = "gone"
                           /\ Goes(q, "gone").last = poller[q].last
    BY <1>1 DEF Goes, PollerStates
  <1>3. \A q \in Pollers : poller'[q] = poller[q] \/ poller'[q] = Goes(q, "gone")
    BY <1>1 DEF LoadFails, Leave
  <1>4. poller' \in [Pollers -> PollerStates]
    <2>1. DOMAIN poller' = Pollers /\ poller' = [q \in Pollers |-> poller'[q]]
      BY <1>1 DEF LoadFails, Leave
    <2> QED
      BY <1>1, <1>2, <1>3, <2>1
  <1>5. With("loading")' \subseteq With("loading") /\ With("waiting")' \subseteq With("waiting")
    BY <1>2, <1>3 DEF With
  <1>6. \A q \in Pollers : poller'[q].last = poller[q].last
    BY <1>2, <1>3
  <1>7. \A q \in With("loading")' : q \in Pollers /\ poller'[q] = poller[q]
    BY <1>2, <1>3 DEF With
  <1>8. PollersOK'
    BY <1>1, <1>4, <1>5, Zenon DEF ProgressInv, PollersOK, PollerStates
  <1>9. ReadIsReached'
    BY <1>1, <1>5, <1>6, <1>7, ReadNext, ZenonT(30) DEF ProgressInv, ReadIsReached, Shown
  <1>10. ShownIsBehind'
    BY <1>1, <1>5, <1>6, <1>7, ShownNext DEF ProgressInv, ShownIsBehind, Shown
  <1> QED
    BY <1>6, <1>8, <1>9, <1>10 DEF ProgressInv, Forwards, Shown

LEMMA ProgressStep ==
  ASSUME TypeOK, TypeOK', ProgressInv, [Next]_vars
  PROVE  ProgressInv' /\ Forwards
  <1>1. \A v : IsReached(v) => ReachedNext(v)
    BY ReachedStays
  <1>2. scenario.pollers \subseteq Pollers
    BY ScenarioAssumption DEF TypeOK
  <1>3. CASE \E p \in scenario.pollers : MakeProgress(p) \/ EndProgress(p)
    <2>1. PICK p \in Pollers : MakeProgress(p) \/ EndProgress(p)
      BY <1>2, <1>3
    <2> QED
      BY <1>1, <2>1, PollStep, LoadStep, StoreStep, EndStep, SMTT(30) DEF MakeProgress, EndProgress
  <1>4. CASE ExpireProgress
    BY <1>1, <1>4, ExpireStep DEF ExpireProgress
  <1>5. CASE ~(\E p \in scenario.pollers : MakeProgress(p) \/ EndProgress(p)) /\ ~ExpireProgress
    <2>1. entry' = entry /\ poller' = poller
      BY <1>5 DEF Next, vars, progress, SaveTransaction, IndexOther, ScanForward, ScanBackward, ConnectWallet, DisconnectWallet, Announce,
                  StopIndexer, Subscribe, Fetch, Yield, Poll, Wake, Fail, Drop
    <2> QED
      BY <1>1, <2>1, QuietProgress
  <1> QED
    BY <1>3, <1>4, <1>5

\* ProgressGoesForward for every chain, wallet and number of subscriptions, whatever
\* other wallets do: with one query at a time per wallet and the cache between
\* them, the indices a client of make_progress sees fit together and do not go
\* back, but for falls to zero of the relevant one, of a wallet without a session,
\* and of the checked one, while the last id of all wallets is that of no regular
\* transaction.
THEOREM ProgressNeverGoesBack == Spec => ProgressGoesForward
  <1>1. Init => ProgressInv
    <2> SUFFICES ASSUME Init PROVE ProgressInv
      OBVIOUS
    <2>1. entry = None /\ poller = [p \in Pollers |-> [pc |-> "sleeping", read |-> None, last |-> None]]
      BY DEF Init, ProgressInit
    <2>2. With("loading") = {} /\ \A p \in Pollers : Shown(p) = None
      BY <2>1 DEF With, Shown
    <2> QED
      BY <2>1, <2>2 DEF ProgressInv, PollersOK, ReadIsReached, ShownIsBehind
  <1>2. IndInv /\ ProgressInv /\ [Next]_vars => ProgressInv'
    BY ProgressStep, StreamStep DEF IndInv
  <1>3. IndInv /\ ProgressInv /\ [Next]_vars
          => [\A p \in Pollers : LET old == poller[p].last
                                  new == poller'[p].last
                              IN  new # old => InOrder(new) /\ (old # None => GoesForward(old, new))]_vars
    BY ProgressStep, StreamStep DEF IndInv, Forwards, Shown
  <1> QED
    BY <1>1, <1>2, <1>3, StreamIsContinuous, PTL DEF Spec, ProgressGoesForward
=============================================================================
