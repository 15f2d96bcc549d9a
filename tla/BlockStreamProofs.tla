--------------------------- MODULE BlockStreamProofs ---------------------------
(***************************************************************************)
(* BlockStream for every chain, margin, buffer size and number of faults:  *)
(* the blocks table implements the chain log, liveness aside.              *)
(*                                                                         *)
(* What is saved next sits in the buffer, and what may enter the buffer is *)
(* decided by the highest block.  The invariant ties the three together as *)
(* far as the first error in the buffer, which is as far as the loop ever  *)
(* gets; and it says that a request by height only ever asks for blocks    *)
(* that every peer has finalized.                                          *)
(***************************************************************************)
EXTENDS BlockStream, SequenceTheorems, TLAPS

\* Nothing but blocks up to position i of a buffer.
Clean(buf, i) == \A j \in 1 .. i : buf[j] # Err

SavedIsChain == Len(saved) <= final /\ \A i \in 1 .. Len(saved) : saved[i] = Main(i)

\* Up to the first error the buffer continues the table.
BufferContinues == \A i \in 1 .. Len(buffer) : Clean(buffer, i) => buffer[i] = Main(Len(saved) + i)

\* Without an error, the highest block is the last of table and buffer.
HighestContinues ==
  pc # "down" /\ Clean(buffer, Len(buffer)) => highest = Main(Len(saved) + Len(buffer))

\* No block of a fork and none that is not finalized gets this far.
OnlyFinalized ==
  /\ highest.main /\ highest.num <= final
  /\ \A i \in 1 .. Len(buffer) : buffer[i] # Err => buffer[i].main /\ buffer[i].num <= final

Chained ==
  /\ SavedIsChain
  /\ BufferContinues
  /\ HighestContinues
  /\ OnlyFinalized
  /\ pc = "down" => buffer = <<>>

\* Blocks are fetched by height only below the margin, and by hash only down from
\* the first head.
CatchesUpSafely ==
  /\ pc \in {"forward", "backward"} => cursor >= 1 /\ 1 <= first.num /\ first.num <= final
  /\ pc = "forward" /\ cursor < safe => safe <= final - Margin
  /\ pc = "backward" => cursor <= first.num

IndInv == TypeOK /\ Chained /\ CatchesUpSafely

-----------------------------------------------------------------------------
(* Blocks, the buffer and the table.                                       *)

\* What blocks are made of.
LEMMA MainFacts ==
  \A n : /\ Main(n).num = n /\ Main(n).main = TRUE /\ Main(n) # Err
        /\ Fork(n).num = n /\ Fork(n).main = FALSE
  BY DEF Main, Fork, Err

LEMMA MainIsBlock ==
  \A n \in 1 .. MaxBlocks : Main(n) \in Block
  BY DEF Block

LEMMA BlockFacts ==
  ASSUME NEW b \in Block \cup {NoBlock}
  PROVE  /\ b.num \in 0 .. MaxBlocks /\ b.main \in BOOLEAN /\ b # Err
         /\ b.main => b = Main(b.num)
         /\ b \in Block => b.num \in 1 .. MaxBlocks
  <1>1. CASE \E n \in 1 .. MaxBlocks : b = Main(n)
    <2>1. PICK n \in 1 .. MaxBlocks : b = Main(n)
      BY <1>1
    <2>2. n \in 0 .. MaxBlocks
      BY MaxBlocksAssumption
    <2>3. b.num = n /\ b.main = TRUE /\ b # Err
      BY <2>1, MainFacts, Zenon
    <2> QED
      BY <2>1, <2>2, <2>3, Zenon
  <1>2. CASE \E n \in 2 .. MaxBlocks : b = Fork(n)
    <2>1. PICK n \in 2 .. MaxBlocks : b = Fork(n)
      BY <1>2
    <2>2. n \in 0 .. MaxBlocks /\ n \in 1 .. MaxBlocks /\ n # 0
      BY MaxBlocksAssumption
    <2>3. b.num = n /\ b.main = FALSE
      BY <2>1, MainFacts, Zenon
    <2>4. b # Err
      BY <2>2, <2>3 DEF Err
    <2> QED
      BY <2>2, <2>3, <2>4, Zenon
  <1>3. CASE b = NoBlock /\ b \notin Block
    <2>1. 0 \in 0 .. MaxBlocks
      BY MaxBlocksAssumption
    <2>2. b = Main(0) /\ b.num = 0 /\ b.main = TRUE /\ b # Err
      BY <1>3, MainFacts, Zenon DEF NoBlock
    <2> QED
      BY <1>3, <2>1, <2>2, Zenon
  <1> QED
    BY <1>1, <1>2, <1>3, Zenon DEF Block

\* The numbers of the stream's state.
LEMMA Numbers ==
  ASSUME TypeOK
  PROVE  /\ MaxBlocks \in Nat /\ Margin \in Nat /\ final \in Nat /\ final <= MaxBlocks
         /\ highest.num \in Nat /\ first.num \in Nat /\ lastForward.num \in Nat
         /\ highest.num <= MaxBlocks /\ first.num <= MaxBlocks
         /\ cursor \in Nat /\ safe \in Nat /\ Len(saved) \in Nat /\ Len(buffer) \in Nat
  <1>1. \A b \in Block \cup {NoBlock} : b.num \in 0 .. MaxBlocks
    BY BlockFacts
  <1>2. /\ highest.num \in 0 .. MaxBlocks /\ first.num \in 0 .. MaxBlocks
        /\ lastForward.num \in 0 .. MaxBlocks
    BY <1>1, Zenon DEF TypeOK
  <1> QED
    BY <1>2, MaxBlocksAssumption, MarginAssumption DEF TypeOK

\* A step that leaves table, buffer and highest block alone and neither starts nor
\* stops the process keeps them chained.
LEMMA ChainedKept ==
  ASSUME TypeOK, Chained, UNCHANGED <<saved, highest, buffer>>,
         final' \in Nat, final <= final', pc = "down" <=> pc' = "down"
  PROVE  Chained'
  <1>1. final \in Nat /\ Len(saved) \in Nat /\ highest.num \in Nat
    BY Numbers
  <1>2. SavedIsChain'
    BY <1>1 DEF Chained, SavedIsChain
  <1>3. BufferContinues' /\ HighestContinues'
    BY DEF Chained, BufferContinues, HighestContinues, Clean
  <1>4. OnlyFinalized'
    <2>1. ASSUME NEW i \in 1 .. Len(buffer), buffer[i] # Err
          PROVE  buffer[i].main /\ buffer[i].num <= final'
      <3>1. buffer[i] \in Block
        BY <2>1, ElementOfSeq DEF TypeOK
      <3>2. buffer[i].num \in Nat /\ buffer[i].num <= final /\ buffer[i].main
        BY <2>1, <3>1, BlockFacts, MaxBlocksAssumption DEF Chained, OnlyFinalized
      <3> QED
        BY <3>2, <1>1
    <2>2. highest.main /\ highest.num <= final'
      BY <1>1 DEF Chained, OnlyFinalized
    <2> QED
      BY <2>1, <2>2 DEF OnlyFinalized
  <1> QED
    BY <1>2, <1>3, <1>4 DEF Chained

\* Yielding a finalized block that extends the highest one keeps them chained, and
\* any other is dropped.
LEMMA YieldChained ==
  ASSUME TypeOK, Chained, pc # "down", NEW m \in 1 .. final, NEW next \in Phase \ {"down"},
         Yield(Main(m), next), UNCHANGED <<final, saved>>
  PROVE  /\ Chained'
         /\ highest' \in Block \cup {NoBlock} /\ buffer' \in Seq(Block \cup {Err})
         /\ pc' \in {next, "sleep"}
  <1>1. /\ final \in Nat /\ final <= MaxBlocks /\ m \in Nat /\ Len(saved) \in Nat
        /\ Len(buffer) \in Nat /\ buffer \in Seq(Block \cup {Err}) /\ Main(m) \in Block
    BY MainIsBlock, MaxBlocksAssumption DEF TypeOK
  <1>2. CASE Parent(Main(m)) # highest
    <2>1. UNCHANGED <<highest, buffer>> /\ pc' = "sleep"
      BY <1>2 DEF Yield
    <2>2. Chained'
      BY <2>1, <1>1, ChainedKept
    <2> QED
      BY <2>1, <2>2 DEF TypeOK
  <1>3. CASE Parent(Main(m)) = highest
    <2>1. highest' = Main(m) /\ buffer' = Append(buffer, Main(m)) /\ pc' = next
      BY <1>3 DEF Yield
    <2>2. highest = Main(m - 1)
      BY <1>3, Zenon DEF Parent, Main
    <2>3. /\ buffer' \in Seq(Block \cup {Err}) /\ Len(buffer') = Len(buffer) + 1
          /\ \A i \in 1 .. Len(buffer) : buffer'[i] = buffer[i]
          /\ buffer'[Len(buffer) + 1] = Main(m)
      BY <2>1, <1>1
    <2>4. \A i \in 1 .. Len(buffer) : Clean(buffer', i) => Clean(buffer, i)
      BY <2>3, <1>1 DEF Clean
    <2>5. Clean(buffer', Len(buffer) + 1) => m = Len(saved) + Len(buffer) + 1
      <3>1. Clean(buffer', Len(buffer) + 1) => Clean(buffer, Len(buffer))
        BY <2>3, <1>1 DEF Clean
      <3>2. Clean(buffer, Len(buffer)) => Main(m - 1) = Main(Len(saved) + Len(buffer))
        BY <2>2 DEF Chained, HighestContinues
      <3>3. Main(m - 1) = Main(Len(saved) + Len(buffer)) => m - 1 = Len(saved) + Len(buffer)
        BY DEF Main
      <3> QED
        BY <3>1, <3>2, <3>3, <1>1
    <2>6. BufferContinues'
      <3> SUFFICES ASSUME NEW i \in 1 .. Len(buffer'), Clean(buffer', i)
                   PROVE  buffer'[i] = Main(Len(saved) + i)
        BY DEF BufferContinues
      <3>1. CASE i \in 1 .. Len(buffer)
        BY <3>1, <2>3, <2>4 DEF Chained, BufferContinues
      <3>2. CASE i = Len(buffer) + 1
        <4>1. m = Len(saved) + i
          BY <3>2, <2>5, <1>1
        <4> QED
          BY <4>1, <3>2, <2>3
      <3> QED
        BY <3>1, <3>2, <2>3, <1>1
    <2>7. HighestContinues'
      <3>1. Len(buffer') = Len(buffer) + 1 /\ Len(saved') = Len(saved)
        BY <2>3
      <3>2. Clean(buffer', Len(buffer')) => m = Len(saved') + Len(buffer')
        BY <2>3, <2>5, <3>1, <1>1 DEF Clean
      <3> QED
        BY <3>2, <2>1 DEF HighestContinues
    <2>8. OnlyFinalized'
      <3>1. ASSUME NEW i \in 1 .. Len(buffer'), buffer'[i] # Err
            PROVE  buffer'[i].main /\ buffer'[i].num <= final
        BY <3>1, <2>3, <1>1, MainFacts DEF Chained, OnlyFinalized
      <3> QED
        BY <3>1, <2>1, MainFacts DEF OnlyFinalized
    <2>9. SavedIsChain'
      BY DEF Chained, SavedIsChain
    <2> QED
      BY <2>1, <2>3, <2>6, <2>7, <2>8, <2>9, <1>1 DEF Chained
  <1> QED
    BY <1>2, <1>3

\* Behind an error nothing is claimed.
LEMMA YieldErrChained ==
  ASSUME TypeOK, Chained, YieldErr, UNCHANGED <<final, saved>>
  PROVE  Chained' /\ buffer' \in Seq(Block \cup {Err})
  <1>1. Len(buffer) \in Nat /\ buffer \in Seq(Block \cup {Err})
    BY DEF TypeOK
  <1>2. /\ buffer' \in Seq(Block \cup {Err}) /\ Len(buffer') = Len(buffer) + 1
        /\ \A i \in 1 .. Len(buffer) : buffer'[i] = buffer[i]
        /\ buffer'[Len(buffer) + 1] = Err
    BY <1>1 DEF YieldErr
  <1>3. ~Clean(buffer', Len(buffer) + 1) /\ \A i \in 1 .. Len(buffer) : Clean(buffer', i) => Clean(buffer, i)
    BY <1>2, <1>1 DEF Clean
  <1>4. BufferContinues'
    <2> SUFFICES ASSUME NEW i \in 1 .. Len(buffer'), Clean(buffer', i)
                 PROVE  buffer'[i] = Main(Len(saved) + i)
      BY DEF BufferContinues
    <2>1. i \in 1 .. Len(buffer)
      BY <1>1, <1>2, <1>3
    <2> QED
      BY <2>1, <1>2, <1>3 DEF Chained, BufferContinues
  <1>5. HighestContinues'
    <2>1. ~Clean(buffer', Len(buffer'))
      BY <1>1, <1>2 DEF Clean
    <2> QED
      BY <2>1 DEF HighestContinues
  <1>6. OnlyFinalized' /\ SavedIsChain' /\ pc' # "down"
    BY <1>1, <1>2 DEF YieldErr, Chained, OnlyFinalized, SavedIsChain
  <1> QED
    BY <1>2, <1>4, <1>5, <1>6 DEF Chained

-----------------------------------------------------------------------------
(* The steps.                                                              *)

LEMMA SubscribeInv ==
  ASSUME IndInv, Subscribe
  PROVE  IndInv'
  <1>1. Chained'
    BY ChainedKept, Numbers DEF IndInv, Subscribe
  <1>2. highest.num \in 0 .. final
    BY Numbers DEF IndInv, Chained, OnlyFinalized
  <1>3. TypeOK'
    BY <1>2, Zenon DEF IndInv, TypeOK, Subscribe, Phase
  <1>4. CatchesUpSafely'
    BY DEF Subscribe, CatchesUpSafely
  <1> QED
    BY <1>1, <1>3, <1>4 DEF IndInv

\* The first head is finalized, and all it leaves to be fetched by height lies below
\* the margin.
LEMMA ReceiveFirstInv ==
  ASSUME IndInv, ReceiveFirst
  PROVE  IndInv'
  <1>1. PICK n \in 1 .. final : /\ Receive(n) /\ first' = Main(n) /\ safe' = SafeHeight(n)
                                /\ pc' = IF Main(n) = highest THEN "live" ELSE "forward"
    BY DEF ReceiveFirst
  <1>2. pc' \in {"live", "forward"} /\ pc = "first"
    BY <1>1 DEF ReceiveFirst
  <1>3. Chained'
    BY <1>2, ChainedKept, Numbers DEF IndInv, ReceiveFirst
  <1>4. n \in Nat /\ 1 <= n /\ n <= final /\ n \in 1 .. MaxBlocks
    BY Numbers DEF IndInv
  <1>5. /\ safe' \in 0 .. MaxBlocks + 1 /\ cursor' \in 0 .. MaxBlocks + 1 /\ cursor' >= 1
        /\ cursor' < safe' => safe' <= final - Margin
    <2>1. /\ cursor' = highest.num + 1
          /\ safe' = IF n - Margin > highest.num + 1 THEN n - Margin ELSE highest.num + 1
      BY <1>1 DEF ReceiveFirst, SafeHeight
    <2>2. /\ highest.num \in Nat /\ highest.num <= MaxBlocks /\ MaxBlocks \in Nat /\ Margin \in Nat
          /\ final \in Nat /\ final <= MaxBlocks
      BY Numbers DEF IndInv
    <2>3. CASE n - Margin > highest.num + 1
      BY <2>1, <2>2, <2>3, <1>4
    <2>4. CASE ~(n - Margin > highest.num + 1)
      BY <2>1, <2>2, <2>4, <1>4
    <2> QED
      BY <2>3, <2>4
  <1>6. Main(n) \in Block /\ Main(n).num = n
    BY <1>4, MainFacts, MainIsBlock, Zenon
  <1>7. seen' \in 0 .. final
    BY <1>1, <1>4 DEF Receive
  <1>8. TypeOK'
    BY <1>1, <1>2, <1>5, <1>6, <1>7 DEF IndInv, TypeOK, ReceiveFirst, Phase
  <1>9. CatchesUpSafely'
    BY <1>1, <1>2, <1>4, <1>5, <1>6 DEF CatchesUpSafely, ReceiveFirst
  <1> QED
    BY <1>3, <1>8, <1>9 DEF IndInv

\* Below the margin no peer answers with a fork.
LEMMA FetchByHeightInv ==
  ASSUME IndInv, FetchByHeight
  PROVE  IndInv'
  <1>1. /\ cursor \in 1 .. final /\ cursor < safe /\ safe <= final - Margin
        /\ first.num \in 1 .. final /\ final <= MaxBlocks /\ cursor + 1 \in 1 .. MaxBlocks + 1
    BY Numbers, SMTT(30) DEF IndInv, CatchesUpSafely, FetchByHeight
  <1>2. BlocksAtHeight(cursor) = {Main(cursor)}
    <2>1. ~(forkAt <= cursor /\ forkAt > final - Margin)
      BY <1>1, Numbers DEF IndInv, TypeOK
    <2> QED
      BY <2>1 DEF BlocksAtHeight
  <1>3. Main(cursor) \in Block
    BY <1>1, Numbers, MainIsBlock DEF IndInv
  <1>4. /\ Chained' /\ highest' \in Block \cup {NoBlock} /\ buffer' \in Seq(Block \cup {Err})
        /\ pc' \in {"forward", "sleep"} /\ lastForward' \in Block \cup {NoBlock}
    <2>1. CASE Parent(Main(cursor)) = lastForward
      <3>1. lastForward' = Main(cursor) /\ Yield(Main(cursor), "forward")
        BY <2>1, <1>2 DEF FetchByHeight
      <3> QED
        BY <3>1, <1>1, <1>3, YieldChained DEF IndInv, FetchByHeight, Phase
    <2>2. CASE Parent(Main(cursor)) # lastForward
      <3>1. lastForward' = lastForward /\ YieldErr
        BY <2>2, <1>2 DEF FetchByHeight
      <3>2. Chained' /\ buffer' \in Seq(Block \cup {Err})
        BY <3>1, YieldErrChained DEF IndInv, FetchByHeight
      <3> QED
        BY <3>1, <3>2 DEF IndInv, TypeOK, YieldErr
    <2> QED
      BY <2>1, <2>2
  <1>5. TypeOK'
    BY <1>1, <1>4, Numbers DEF IndInv, TypeOK, FetchByHeight, Phase
  <1>6. CatchesUpSafely'
    BY <1>1, <1>4, Numbers DEF IndInv, CatchesUpSafely, FetchByHeight
  <1> QED
    BY <1>4, <1>5, <1>6 DEF IndInv

LEMMA WalkBackInv ==
  ASSUME IndInv, WalkBack
  PROVE  IndInv'
  <1>1. Chained'
    BY ChainedKept, Numbers DEF IndInv, WalkBack
  <1>2. first.num \in 1 .. final /\ cursor' >= 1 /\ cursor' <= first.num /\ cursor' \in 0 .. MaxBlocks + 1
    BY Numbers, SMTT(30) DEF IndInv, CatchesUpSafely, WalkBack
  <1>3. TypeOK'
    BY <1>2 DEF IndInv, TypeOK, WalkBack, Phase
  <1>4. CatchesUpSafely'
    BY <1>2, Numbers DEF IndInv, CatchesUpSafely, WalkBack
  <1> QED
    BY <1>1, <1>3, <1>4 DEF IndInv

LEMMA FetchByHashInv ==
  ASSUME IndInv, FetchByHash
  PROVE  IndInv'
  <1>1. /\ cursor \in 1 .. final /\ cursor <= first.num /\ first.num \in 1 .. final
        /\ final <= MaxBlocks /\ cursor + 1 \in 1 .. MaxBlocks + 1
    BY Numbers DEF IndInv, CatchesUpSafely, FetchByHash
  <1> DEFINE next == IF cursor = first.num THEN "live" ELSE "backward"
  <1>2. next \in Phase \ {"down"} /\ next \in {"live", "backward"}
    BY DEF Phase
  <1>3. /\ Chained' /\ highest' \in Block \cup {NoBlock} /\ buffer' \in Seq(Block \cup {Err})
        /\ pc' \in {next, "sleep"}
    <2>1. Yield(Main(cursor), next)
      BY DEF FetchByHash
    <2> HIDE DEF next
    <2> QED
      BY <2>1, <1>1, <1>2, YieldChained DEF IndInv, FetchByHash
  <1>4. lastYielded' \in 0 .. final
    BY <1>1 DEF IndInv, TypeOK, FetchByHash
  <1>5. TypeOK'
    BY <1>1, <1>3, <1>4, Numbers DEF IndInv, TypeOK, FetchByHash, Phase
  <1>6. CatchesUpSafely'
    BY <1>1, <1>3, Numbers, SMTT(30) DEF IndInv, CatchesUpSafely, FetchByHash
  <1> QED
    BY <1>3, <1>5, <1>6 DEF IndInv

LEMMA ReceiveLiveInv ==
  ASSUME IndInv, ReceiveLive
  PROVE  IndInv'
  <1>1. PICK n \in 1 .. final : Receive(n) /\ lastYielded' = n /\ Yield(Main(n), "live")
    BY DEF ReceiveLive
  <1>2. /\ Chained' /\ highest' \in Block \cup {NoBlock} /\ buffer' \in Seq(Block \cup {Err})
        /\ pc' \in {"live", "sleep"}
    BY <1>1, YieldChained DEF IndInv, ReceiveLive, Phase
  <1>3. seen' \in 0 .. final /\ lastYielded' \in 0 .. final
    BY <1>1, Numbers DEF IndInv, Receive
  <1>4. TypeOK'
    BY <1>2, <1>3 DEF IndInv, TypeOK, ReceiveLive, Phase
  <1>5. CatchesUpSafely'
    BY <1>2 DEF CatchesUpSafely
  <1> QED
    BY <1>2, <1>4, <1>5 DEF IndInv

LEMMA RecoverInv ==
  ASSUME IndInv, Recover
  PROVE  IndInv'
  <1>1. Chained'
    BY ChainedKept, Numbers DEF IndInv, Recover
  <1>2. TypeOK' /\ CatchesUpSafely'
    BY Zenon DEF IndInv, TypeOK, CatchesUpSafely, Recover
  <1> QED
    BY <1>1, <1>2 DEF IndInv

\* The loop takes the next block of the chain off the buffer.
LEMMA IndexBlockStep ==
  ASSUME IndInv, IndexBlock
  PROVE  /\ saved' = Append(saved, Main(Len(saved) + 1)) /\ Len(saved) + 1 <= final
         /\ Main(Len(saved) + 1) \in Block
  <1>1. /\ buffer \in Seq(Block \cup {Err}) /\ buffer # <<>> /\ Head(buffer) = buffer[1]
        /\ 1 \in 1 .. Len(buffer) /\ buffer[1] \in Block \cup {Err} /\ buffer[1] # Err
    BY DEF IndInv, TypeOK, IndexBlock
  <1>2. Clean(buffer, 1)
    BY <1>1 DEF Clean
  <1>3. buffer[1] = Main(Len(saved) + 1)
    BY <1>1, <1>2 DEF IndInv, Chained, BufferContinues
  <1>4. buffer[1].num <= final /\ Main(Len(saved) + 1).num = Len(saved) + 1
    BY <1>1, MainFacts DEF IndInv, Chained, OnlyFinalized
  <1> QED
    BY <1>1, <1>3, <1>4 DEF IndexBlock

LEMMA IndexBlockInv ==
  ASSUME IndInv, IndexBlock
  PROVE  IndInv'
  <1>1. /\ saved' = Append(saved, Main(Len(saved) + 1)) /\ Len(saved) + 1 <= final
        /\ Main(Len(saved) + 1) \in Block /\ saved \in Seq(Block)
    BY IndexBlockStep DEF IndInv, TypeOK
  <1>2. /\ saved' \in Seq(Block) /\ Len(saved') = Len(saved) + 1 /\ Len(saved) \in Nat
        /\ \A i \in 1 .. Len(saved) : saved'[i] = saved[i]
        /\ saved'[Len(saved) + 1] = Main(Len(saved) + 1)
    BY <1>1
  <1>3. buffer \in Seq(Block \cup {Err}) /\ buffer # <<>> /\ buffer' = Tail(buffer) /\ buffer[1] # Err
    BY DEF IndInv, TypeOK, IndexBlock
  <1>4. /\ buffer' \in Seq(Block \cup {Err}) /\ Len(buffer') = Len(buffer) - 1 /\ Len(buffer) \in Nat \ {0}
        /\ \A i \in 1 .. Len(buffer') : buffer'[i] = buffer[i + 1] /\ i + 1 \in 1 .. Len(buffer)
    BY <1>3
  <1>5. TypeOK'
    BY <1>2, <1>4 DEF IndInv, TypeOK, IndexBlock, locals
  <1>6. SavedIsChain'
    BY <1>1, <1>2 DEF IndInv, Chained, SavedIsChain, IndexBlock
  <1>7. ASSUME NEW i \in 0 .. Len(buffer'), Clean(buffer', i)
        PROVE  Clean(buffer, i + 1)
    <2> SUFFICES ASSUME NEW j \in 1 .. i + 1 PROVE buffer[j] # Err
      BY DEF Clean
    <2>1. CASE j = 1
      BY <2>1, <1>3
    <2>2. CASE j # 1
      <3>1. j - 1 \in 1 .. i /\ j - 1 \in 1 .. Len(buffer') /\ (j - 1) + 1 = j
        BY <2>2, <1>4
      <3>2. buffer'[j - 1] # Err
        BY <3>1, <1>7 DEF Clean
      <3> QED
        BY <3>1, <3>2, <1>4
    <2> QED
      BY <2>1, <2>2
  <1>8. BufferContinues'
    <2> SUFFICES ASSUME NEW i \in 1 .. Len(buffer'), Clean(buffer', i)
                 PROVE  buffer'[i] = Main(Len(saved') + i)
      BY DEF BufferContinues
    <2>1. Clean(buffer, i + 1) /\ i + 1 \in 1 .. Len(buffer) /\ buffer'[i] = buffer[i + 1]
      BY <1>4, <1>7
    <2>2. buffer[i + 1] = Main(Len(saved) + (i + 1))
      BY <2>1 DEF IndInv, Chained, BufferContinues
    <2>3. Len(saved) + (i + 1) = Len(saved') + i
      BY <1>2
    <2> QED
      BY <2>1, <2>2, <2>3
  <1>9. HighestContinues'
    <2> SUFFICES ASSUME pc # "down", Clean(buffer', Len(buffer'))
                 PROVE  highest = Main(Len(saved') + Len(buffer'))
      BY DEF HighestContinues, IndexBlock
    <2>1. Len(buffer') \in 0 .. Len(buffer') /\ Len(buffer') + 1 = Len(buffer)
      BY <1>4
    <2>2. Clean(buffer, Len(buffer))
      BY <2>1, <1>7
    <2>3. highest = Main(Len(saved) + Len(buffer))
      BY <2>2 DEF IndInv, Chained, HighestContinues
    <2>4. Len(saved) + Len(buffer) = Len(saved') + Len(buffer')
      BY <2>1, <1>2, <1>4
    <2> QED
      BY <2>3, <2>4
  <1>10. OnlyFinalized'
    BY <1>4 DEF IndInv, Chained, OnlyFinalized, IndexBlock
  <1>11. pc' # "down"
    BY <1>3 DEF IndInv, Chained, IndexBlock
  <1>12. CatchesUpSafely'
    BY DEF IndInv, CatchesUpSafely, IndexBlock, locals
  <1> QED
    BY <1>5, <1>6, <1>8, <1>9, <1>10, <1>11, <1>12 DEF IndInv, Chained

\* Going down leaves the table alone.
LEMMA GoDownInv ==
  ASSUME IndInv, GoDown, faults' \in 0 .. MaxFaults
  PROVE  IndInv'
  <1>1. NoBlock.num = 0 /\ NoBlock.main = TRUE
    BY MainFacts DEF NoBlock
  <1>2. 0 \in 0 .. final /\ 0 \in 0 .. MaxBlocks + 1 /\ final \in Nat
    BY Numbers DEF IndInv
  <1>3. TypeOK'
    <2>1. <<>> \in Seq(Block \cup {Err})
      OBVIOUS
    <2> QED
      BY <2>1, <1>2, Zenon DEF IndInv, TypeOK, GoDown, Phase
  <1>4. Chained'
    BY <1>1, <1>2 DEF IndInv, Chained, SavedIsChain, BufferContinues, HighestContinues,
                      OnlyFinalized, GoDown
  <1>5. CatchesUpSafely'
    BY DEF CatchesUpSafely, GoDown
  <1> QED
    BY <1>3, <1>4, <1>5 DEF IndInv

\* The process resumes from the last block of the table.
LEMMA StartInv ==
  ASSUME IndInv, Start
  PROVE  IndInv'
  <1>1. /\ saved \in Seq(Block) /\ Len(saved) \in Nat /\ Len(saved) <= final /\ buffer = <<>>
        /\ \A i \in 1 .. Len(saved) : saved[i] = Main(i)
    BY DEF IndInv, TypeOK, Chained, SavedIsChain, Start
  <1>2. highest' = Main(Len(saved)) /\ highest' \in Block \cup {NoBlock}
    <2>1. CASE saved = <<>>
      BY <2>1 DEF Start, NoBlock
    <2>2. CASE saved # <<>>
      <3>1. Len(saved) \in 1 .. Len(saved) /\ saved[Len(saved)] \in Block
        BY <2>2, <1>1
      <3> QED
        BY <2>2, <3>1, <1>1 DEF Start
    <2> QED
      BY <2>1, <2>2
  <1>3. highest'.num = Len(saved) /\ highest'.main = TRUE
    BY <1>2, MainFacts, Zenon
  <1>4. TypeOK'
    BY <1>2 DEF IndInv, TypeOK, Start, Phase, locals
  <1>5. HighestContinues'
    BY <1>1, <1>2 DEF HighestContinues, Start
  <1>6. SavedIsChain' /\ BufferContinues' /\ OnlyFinalized'
    BY <1>1, <1>3 DEF SavedIsChain, BufferContinues, OnlyFinalized, Start
  <1>7. CatchesUpSafely' /\ pc' # "down"
    BY DEF CatchesUpSafely, Start
  <1> QED
    BY <1>4, <1>5, <1>6, <1>7 DEF IndInv, Chained

LEMMA FinalizeInv ==
  ASSUME IndInv, Finalize
  PROVE  IndInv'
  <1>1. final \in Nat /\ final' = final + 1 /\ final' \in 0 .. MaxBlocks
    BY Numbers DEF IndInv, TypeOK, Finalize
  <1>2. Chained'
    BY <1>1, ChainedKept DEF IndInv, Finalize
  <1>3. seen \in 0 .. final' /\ lastYielded \in 0 .. final'
    BY <1>1 DEF IndInv, TypeOK
  <1>4. TypeOK'
    BY <1>1, <1>3 DEF IndInv, TypeOK, Finalize, locals
  <1>5. CatchesUpSafely'
    BY <1>1, Numbers DEF IndInv, CatchesUpSafely, Finalize, locals
  <1> QED
    BY <1>2, <1>4, <1>5 DEF IndInv

LEMMA FaultType ==
  ASSUME TypeOK, Fault
  PROVE  faults' \in 0 .. MaxFaults
  BY MaxFaultsAssumption DEF TypeOK, Fault

LEMMA RequestFailsInv ==
  ASSUME IndInv, RequestFails
  PROVE  IndInv'
  <1>1. Chained' /\ buffer' \in Seq(Block \cup {Err}) /\ faults' \in 0 .. MaxFaults
    BY YieldErrChained, FaultType DEF IndInv, RequestFails
  <1>2. TypeOK'
    BY <1>1 DEF IndInv, TypeOK, RequestFails, YieldErr, Phase, locals
  <1>3. CatchesUpSafely'
    BY DEF CatchesUpSafely, RequestFails, YieldErr
  <1> QED
    BY <1>1, <1>2, <1>3 DEF IndInv

LEMMA SubscriptionEndsInv ==
  ASSUME IndInv, SubscriptionEnds
  PROVE  IndInv'
  <1>1. Chained' /\ faults' \in 0 .. MaxFaults
    BY ChainedKept, FaultType, Numbers DEF IndInv, SubscriptionEnds
  <1>2. TypeOK'
    BY <1>1 DEF IndInv, TypeOK, SubscriptionEnds, Phase, locals
  <1>3. CatchesUpSafely'
    BY DEF CatchesUpSafely, SubscriptionEnds
  <1> QED
    BY <1>1, <1>2, <1>3 DEF IndInv

LEMMA GoSilentInv ==
  ASSUME IndInv, GoSilent
  PROVE  IndInv'
  <1>1. Chained' /\ faults' \in 0 .. MaxFaults
    BY ChainedKept, FaultType, Numbers DEF IndInv, GoSilent
  <1>2. TypeOK' /\ CatchesUpSafely'
    BY <1>1 DEF IndInv, TypeOK, CatchesUpSafely, GoSilent
  <1> QED
    BY <1>1, <1>2 DEF IndInv

LEMMA StutterInv ==
  ASSUME IndInv, UNCHANGED vars
  PROVE  IndInv'
  <1>1. Chained'
    BY ChainedKept, Numbers DEF IndInv, vars
  <1>2. TypeOK' /\ CatchesUpSafely'
    BY DEF IndInv, TypeOK, CatchesUpSafely, vars, locals
  <1> QED
    BY <1>1, <1>2 DEF IndInv

LEMMA InitInv ==
  ASSUME Init
  PROVE  IndInv
  <1>1. NoBlock.num = 0 /\ NoBlock.main = TRUE /\ NoBlock = Main(0)
    BY MainFacts DEF NoBlock
  <1>2. TypeOK
    <2>1. <<>> \in Seq(Block) /\ <<>> \in Seq(Block \cup {Err})
      OBVIOUS
    <2>2. /\ final \in 0 .. MaxBlocks /\ seen \in 0 .. final /\ lastYielded \in 0 .. final
          /\ cursor \in 0 .. MaxBlocks + 1 /\ safe \in 0 .. MaxBlocks + 1 /\ faults \in 0 .. MaxFaults
      BY MaxBlocksAssumption, MaxFaultsAssumption DEF Init
    <2> QED
      BY <2>1, <2>2, Zenon DEF Init, TypeOK, Phase
  <1>3. Chained
    BY <1>1 DEF Init, Chained, SavedIsChain, BufferContinues, HighestContinues, OnlyFinalized
  <1>4. CatchesUpSafely
    BY DEF Init, CatchesUpSafely
  <1> QED
    BY <1>2, <1>3, <1>4 DEF IndInv

\* Every step keeps the invariant.
LEMMA NextInv ==
  ASSUME IndInv, [Next]_vars
  PROVE  IndInv'
  <1>1. CASE Stream
    BY <1>1, SubscribeInv, ReceiveFirstInv, FetchByHeightInv, WalkBackInv, FetchByHashInv,
       ReceiveLiveInv DEF Stream
  <1>2. CASE StopOnError \/ Stop
    BY <1>2, GoDownInv, FaultType DEF StopOnError, Stop, IndInv, TypeOK
  <1>3. CASE Recover \/ IndexBlock \/ Start \/ Finalize
    BY <1>3, RecoverInv, IndexBlockInv, StartInv, FinalizeInv
  <1>4. CASE RequestFails \/ SubscriptionEnds \/ GoSilent
    BY <1>4, RequestFailsInv, SubscriptionEndsInv, GoSilentInv
  <1>5. CASE UNCHANGED vars
    BY <1>5, StutterInv
  <1> QED
    BY <1>1, <1>2, <1>3, <1>4, <1>5 DEF Next

\* The invariant holds for every chain, margin, buffer size and number of faults.
THEOREM Inductive == Spec => []IndInv
  <1> QED
    BY InitInv, NextInv, PTL DEF Spec

\* The stream's state keeps its types: in particular it never counts a block as seen
\* or yielded that is not finalized.
THEOREM TypeCorrect == Spec => []TypeOK
  <1>1. IndInv => TypeOK
    BY DEF IndInv
  <1> QED
    BY Inductive, <1>1, PTL

\* A step grows the buffer by one item at most, and only while it is Polled.
LEMMA BufferStep ==
  ASSUME TypeOK, [Next]_vars
  PROVE  \/ buffer' \in {buffer, <<>>}
         \/ buffer # <<>> /\ buffer' = Tail(buffer)
         \/ Polled /\ \E b : buffer' = Append(buffer, b)
  <1>1. CASE Stream
    BY <1>1 DEF Stream, Subscribe, ReceiveFirst, FetchByHeight, WalkBack, FetchByHash, ReceiveLive, Yield, YieldErr
  <1>2. CASE IndexBlock
    BY <1>2 DEF IndexBlock
  <1>3. CASE StopOnError \/ Stop
    BY <1>3 DEF StopOnError, Stop, GoDown
  <1>4. CASE RequestFails
    BY <1>4 DEF RequestFails, YieldErr
  <1>5. CASE Recover \/ Start \/ Finalize \/ SubscriptionEnds \/ GoSilent \/ UNCHANGED vars
    BY <1>5, Zenon DEF Recover, Start, Finalize, SubscriptionEnds, GoSilent, vars
  <1> QED
    BY <1>1, <1>2, <1>3, <1>4, <1>5, Zenon DEF Next

\* However fast the node delivers and whatever fails, the buffer in front of the
\* indexing loop never holds more than blocks_buffer items.
THEOREM BufferStaysBounded == Spec => []BufferFits
  <1>1. Init => BufferFits
    BY BlocksBufferAssumption DEF Init, BufferFits
  <1>2. ASSUME IndInv, BufferFits, [Next]_vars PROVE BufferFits'
    <2>1. buffer \in Seq(Block \cup {Err}) /\ Len(buffer) \in Nat /\ TypeOK
      BY <1>2 DEF IndInv, TypeOK
    <2>2. CASE buffer' \in {buffer, <<>>}
      BY <2>1, <2>2, <1>2, BlocksBufferAssumption DEF BufferFits
    <2>3. CASE buffer # <<>> /\ buffer' = Tail(buffer)
      BY <2>1, <2>3, <1>2, BlocksBufferAssumption DEF BufferFits
    <2>4. CASE Polled /\ \E b : buffer' = Append(buffer, b)
      BY <2>1, <2>4, BlocksBufferAssumption DEF BufferFits, Polled
    <2> QED
      BY <1>2, <2>1, <2>2, <2>3, <2>4, BufferStep, Zenon
  <1> QED
    BY Inductive, <1>1, <1>2, PTL DEF Spec

-----------------------------------------------------------------------------
(* Refinement.                                                             *)

\* A table that is a beginning of the chain maps to the numbers from one on.
LEMMA MappedIsCount ==
  ASSUME NEW s \in Seq(Block), \A i \in 1 .. Len(s) : s[i] = Main(i)
  PROVE  LET log == [i \in 1 .. Len(s) |-> IF s[i].main THEN s[i].num ELSE 0]
         IN  /\ log \in Seq(Nat) /\ Len(log) = Len(s)
             /\ \A i \in 1 .. Len(s) : log[i] = i
  <1> DEFINE log == [i \in 1 .. Len(s) |-> IF s[i].main THEN s[i].num ELSE 0]
  <1>1. Len(s) \in Nat
    OBVIOUS
  <1>2. \A i \in 1 .. Len(s) : s[i].main = TRUE /\ s[i].num = i
    BY MainFacts, Zenon
  <1>3. \A i \in 1 .. Len(s) : log[i] = i
    BY <1>2
  <1>4. log = [i \in 1 .. Len(s) |-> i]
    BY <1>3
  <1>5. [i \in 1 .. Len(s) |-> i] \in Seq(Nat) /\ Len([i \in 1 .. Len(s) |-> i]) = Len(s)
    BY <1>1
  <1> HIDE DEF log
  <1>6. log \in Seq(Nat) /\ Len(log) = Len(s)
    BY <1>4, <1>5
  <1> QED
    BY <1>3, <1>6 DEF log

\* Every step finalizes a block, saves the next one, or changes neither.
LEMMA LogStep ==
  ASSUME IndInv, IndInv', [Next]_vars
  PROVE  [Log!Next]_(Log!vars)
  <1>1. CASE Finalize
    BY <1>1 DEF Finalize, Log!Next, Log!Finalize
  <1>2. CASE IndexBlock
    <2>1. /\ saved' = Append(saved, Main(Len(saved) + 1)) /\ Len(saved) + 1 <= final
          /\ saved \in Seq(Block) /\ Main(Len(saved) + 1) \in Block
      BY <1>2, IndexBlockStep DEF IndInv, TypeOK
    <2>2. Len(saved) \in Nat /\ final \in Nat /\ Len(saved') = Len(saved) + 1
      BY <2>1, Numbers, SMTT(30) DEF IndInv
    <2> DEFINE log == [i \in 1 .. Len(saved) |-> IF saved[i].main THEN saved[i].num ELSE 0]
    <2>3. log \in Seq(Nat) /\ Len(log) = Len(saved) /\ \A i \in 1 .. Len(saved) : log[i] = i
      BY <2>1, MappedIsCount, SMTT(30) DEF IndInv, Chained, SavedIsChain
    <2>4. /\ log' \in Seq(Nat) /\ Len(log') = Len(saved')
          /\ \A i \in 1 .. Len(saved') : log'[i] = i
      <3>1. saved' \in Seq(Block) /\ \A i \in 1 .. Len(saved') : saved'[i] = Main(i)
        BY DEF IndInv, TypeOK, Chained, SavedIsChain
      <3> QED
        BY <3>1, MappedIsCount
    <2> HIDE DEF log
    <2>5. log' = Append(log, Len(log) + 1)
      <3>1. /\ Append(log, Len(log) + 1) \in Seq(Nat)
            /\ Len(Append(log, Len(log) + 1)) = Len(log')
            /\ \A i \in 1 .. Len(log') : Append(log, Len(log) + 1)[i] = log'[i]
        BY <2>2, <2>3, <2>4
      <3> QED
        BY <2>4, <3>1, SeqEqual, SMTT(30)
    <2>6. Len(log) < final /\ final' = final
      BY <1>2, <2>1, <2>2, <2>3 DEF IndexBlock
    <2> QED
      BY <2>5, <2>6, Zenon DEF log, Log!Next, Log!Record
  <1>3. CASE UNCHANGED <<final, saved>>
    BY <1>3 DEF Log!vars
  <1>4. Finalize \/ IndexBlock \/ UNCHANGED <<final, saved>>
    BY DEF Next, Stream, Subscribe, ReceiveFirst, FetchByHeight, WalkBack, FetchByHash, ReceiveLive,
           Recover, StopOnError, GoDown, Start, RequestFails, SubscriptionEnds, GoSilent, Stop, vars
  <1> QED
    BY <1>1, <1>2, <1>3, <1>4

\* Whatever the subscription repeats, skips or withholds, whatever a lagging peer
\* answers and wherever errors and stops fall, the blocks table is at every moment
\* a beginning of the finalized chain that only ever grows by its next block.
THEOREM TableIsChainLog == Spec => Log!Init /\ [][Log!Next]_(Log!vars)
  <1>1. Init => Log!Init
    BY DEF Init, Log!Init
  <1>2. IndInv /\ IndInv' /\ [Next]_vars => [Log!Next]_(Log!vars)
    BY LogStep
  <1> QED
    BY Inductive, <1>1, <1>2, PTL DEF Spec

=============================================================================
