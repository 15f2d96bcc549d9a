------------------------- MODULE LedgerRetentionProofs -------------------------
(***************************************************************************)
(* LedgerRetention for every chain, retention and number of stops.         *)
(***************************************************************************)
EXTENDS LedgerRetention, FiniteSetTheorems, TLAPS

(* How the number of blocks leading to a root changes with the set of      *)
(* blocks, for any assignment f of roots to blocks.                        *)
Leading(f, S, r) == {b \in S : f[b] = r}
Count(f, S, r)   == Cardinality(Leading(f, S, r))

\* A count over finitely many blocks is a natural number, at least one for the
\* root of a member.
LEMMA CountType ==
  ASSUME NEW f, NEW S, IsFiniteSet(S), NEW r
  PROVE  /\ IsFiniteSet(Leading(f, S, r))
         /\ Count(f, S, r) \in Nat
         /\ \A b \in S : f[b] = r => Count(f, S, r) >= 1
  <1>1. IsFiniteSet(Leading(f, S, r))
    BY FS_Subset DEF Leading
  <1>2. Count(f, S, r) \in Nat
    BY <1>1, FS_CardinalityType DEF Count
  <1>3. ASSUME NEW b \in S, f[b] = r
        PROVE  Count(f, S, r) >= 1
    <2>1. Leading(f, S, r) # {}
      BY <1>3 DEF Leading
    <2>2. Count(f, S, r) # 0
      BY <2>1, <1>1, FS_EmptySet DEF Count
    <2> QED
      BY <2>2, <1>2
  <1> QED
    BY <1>1, <1>2, <1>3

\* A block entering the set adds at most one, and only to its own root.
LEMMA CountAdd ==
  ASSUME NEW f, NEW S, IsFiniteSet(S), NEW b, NEW r
  PROVE  Count(f, S \cup {b}, r) <= Count(f, S, r) + (IF f[b] = r THEN 1 ELSE 0)
  <1>1. IsFiniteSet(Leading(f, S, r)) /\ Count(f, S, r) \in Nat
    BY CountType, Zenon
  <1>2. CASE f[b] = r
    <2>1. Leading(f, S \cup {b}, r) = Leading(f, S, r) \cup {b}
      BY <1>2 DEF Leading
    <2>2. \/ Cardinality(Leading(f, S, r) \cup {b}) = Cardinality(Leading(f, S, r))
          \/ Cardinality(Leading(f, S, r) \cup {b}) = Cardinality(Leading(f, S, r)) + 1
      BY <1>1, FS_AddElement
    <2>3. \/ Count(f, S \cup {b}, r) = Count(f, S, r)
          \/ Count(f, S \cup {b}, r) = Count(f, S, r) + 1
      BY <2>1, <2>2 DEF Count
    <2> QED
      BY <1>1, <1>2, <2>3
  <1>3. CASE f[b] # r
    <2>1. Leading(f, S \cup {b}, r) = Leading(f, S, r)
      BY <1>3 DEF Leading
    <2> QED
      BY <1>1, <1>3, <2>1 DEF Count
  <1> QED
    BY <1>2, <1>3

\* A block leaving the set takes exactly one from its own root's count.
LEMMA CountRemove ==
  ASSUME NEW f, NEW S, IsFiniteSet(S), NEW b \in S, NEW r
  PROVE  Count(f, S \ {b}, r) = Count(f, S, r) - (IF f[b] = r THEN 1 ELSE 0)
  <1>1. IsFiniteSet(Leading(f, S, r)) /\ Count(f, S, r) \in Nat
    BY CountType, Zenon
  <1>2. CASE f[b] = r
    <2>1. Leading(f, S \ {b}, r) = Leading(f, S, r) \ {b}
      BY <1>2 DEF Leading
    <2>2. b \in Leading(f, S, r)
      BY <1>2 DEF Leading
    <2>3. Cardinality(Leading(f, S, r) \ {b}) = Cardinality(Leading(f, S, r)) - 1
      BY <1>1, <2>2, FS_RemoveElement, Zenon
    <2> QED
      BY <1>2, <2>1, <2>3 DEF Count
  <1>3. CASE f[b] # r
    <2>1. Leading(f, S \ {b}, r) = Leading(f, S, r)
      BY <1>3 DEF Leading
    <2> QED
      BY <1>1, <1>3, <2>1 DEF Count
  <1> QED
    BY <1>2, <1>3

\* Fewer blocks never count more.
LEMMA CountMonotone ==
  ASSUME NEW f, NEW S, IsFiniteSet(S), NEW T \in SUBSET S, NEW r
  PROVE  Count(f, T, r) <= Count(f, S, r)
  <1>1. Leading(f, T, r) \in SUBSET Leading(f, S, r)
    BY DEF Leading
  <1>2. IsFiniteSet(Leading(f, S, r))
    BY CountType, SMTT(30)
  <1> QED
    BY <1>1, <1>2, FS_Subset DEF Count

\* The newest n of t blocks are at most n.
LEMMA NewestSize ==
  ASSUME NEW t \in Nat, NEW n \in Nat,
         NEW N, N = {b \in 1 .. t : b > t - n}
  PROVE  IsFiniteSet(N) /\ Cardinality(N) <= n
  <1>1. N \in SUBSET ((t - n + 1) .. t)
    OBVIOUS
  <1>2. IsFiniteSet((t - n + 1) .. t) /\ Cardinality((t - n + 1) .. t) = n
    BY FS_Interval
  <1>3. IsFiniteSet(N) /\ Cardinality(N) <= Cardinality((t - n + 1) .. t)
    BY <1>1, <1>2, FS_Subset
  <1> QED
    BY <1>2, <1>3

-----------------------------------------------------------------------------
(* From the operators of the specification to Count.                       *)

\* RootCount is Count over the current chain.
LEMMA RootCountIsCount ==
  \A S, r : RootCount(S, r) = Count(chain, S, r)
  BY DEF RootCount, Count, Leading

\* Everything the window arithmetic is about is a finite set of blocks.
LEMMA HeldIsFinite ==
  ASSUME TypeOK
  PROVE  /\ tip \in Nat
         /\ IsFiniteSet(window)
         /\ IsFiniteSet(Held)
         /\ \A n \in Nat : IsFiniteSet(Newest(n)) /\ Cardinality(Newest(n)) <= n
  <1>1. tip \in Nat
    BY MaxBlocksAssumption DEF TypeOK
  <1>2. IsFiniteSet(window)
    <2>1. IsFiniteSet(1 .. tip)
      BY <1>1, FS_Interval
    <2> QED
      BY <2>1, FS_Subset, Zenon DEF TypeOK
  <1>3. IsFiniteSet(Held)
    <2>1. Held \in {window, window \cup {tip}, window \cup {tip + 1}}
      BY DEF Held
    <2> QED
      BY <2>1, <1>2, FS_AddElement
  <1>4. ASSUME NEW n \in Nat
        PROVE  IsFiniteSet(Newest(n)) /\ Cardinality(Newest(n)) <= n
    BY <1>1, NewestSize DEF Newest
  <1> QED
    BY <1>1, <1>2, <1>3, <1>4

-----------------------------------------------------------------------------
\* The states a deployment starts from satisfy the inductive invariant: the
\* counts of an older release are too low, but never zero for the newest block.
LEMMA InitInv == Init => IndInv
  <1> SUFFICES ASSUME Init PROVE IndInv
    OBVIOUS
  <1> USE DEF Init
  <1>1. PICK n \in Retentions : stored = [r \in Root |-> CappedCount(n, r)]
    OBVIOUS
  <1>2. tip \in Nat /\ n \in Nat /\ n >= 1
    BY RetentionAssumption, MaxBlocksAssumption
  <1>3. IsFiniteSet(Newest(n))
    BY <1>2, NewestSize DEF Newest
  <1>4. \A r : RootCount(Newest(n), r) \in Nat
    BY <1>3, CountType, RootCountIsCount
  <1>5. stored \in [Root -> Nat]
    BY <1>1, <1>4 DEF CappedCount
  <1>6. TypeOK
    BY <1>5, MaxStopsAssumption DEF TypeOK, NoChange, Phase
  <1>7. TipIsRooted
    <2> SUFFICES ASSUME tip > 0 PROVE stored[chain[tip]] > 0
      BY DEF TipIsRooted
    <2>1. chain[tip] \in Root
      BY <1>2 DEF Block
    <2>2. tip \in Newest(n)
      BY <1>2 DEF Newest
    <2>3. RootCount(Newest(n), chain[tip]) >= 1
      BY <2>2, <1>3, CountType, RootCountIsCount
    <2> QED
      BY <1>1, <1>4, <2>1, <2>3 DEF CappedCount
  <1>8. /\ NeverFails /\ HeldIsCounted /\ RepairedIsCounted /\ RootedIsIntact
        /\ TipIsInWindow /\ MemoryIsCurrent /\ WindowFits /\ AnnouncedIsSaved
    BY DEF NeverFails, HeldIsCounted, RepairedIsCounted, RootedIsIntact, Running,
           TipIsInWindow, MemoryIsCurrent, WindowFits, AnnouncedIsSaved
  <1>9. OnlyUnpersistsPend /\ StartupIsClean
    BY DEF OnlyUnpersistsPend, StartupIsClean, NoChange, Running
  <1> QED
    BY <1>6, <1>7, <1>8, <1>9 DEF IndInv

-----------------------------------------------------------------------------
(* One lemma per action: it preserves the inductive invariant.             *)

\* The repair only raises counts of states that load, and makes every root it
\* leaves in the table cover the window about to be seeded.
LEMMA RepairInv ==
  ASSUME IndInv, NEW n \in Retentions, Repair(n)
  PROVE  IndInv'
  <1> USE DEF IndInv
  <1>1. n \in Nat /\ tip \in Nat /\ IsFiniteSet(Newest(n))
    BY RetentionAssumption, HeldIsFinite
  <1>2. \A r : RootCount(Newest(n), r) \in Nat
    BY <1>1, CountType, RootCountIsCount
  <1>3. stored \in [Root -> Nat]
    BY DEF TypeOK
  <1>4. \A r \in Root : Raised(Newest(n), r) \in Nat /\ Raised(Newest(n), r) >= stored[r]
    BY <1>2, <1>3 DEF Raised
  <1>5. \A r \in Root : stored'[r] = Raised(Newest(n), r)
    BY DEF Repair
  <1>6. TypeOK'
    BY <1>1, <1>4 DEF TypeOK, Repair, Phase
  <1>7. RootedIsIntact'
    BY <1>2, <1>3, <1>5 DEF RootedIsIntact, Raised, Repair
  <1>8. RepairedIsCounted'
    <2>1. \A r : RootCount(Newest(retention), r)' = RootCount(Newest(n), r)
      BY DEF Repair, RootCount, Newest
    <2>2. ASSUME NEW r \in Root, stored'[r] > 0
          PROVE  stored'[r] >= RootCount(Newest(n), r)
      BY <2>2, <1>2, <1>3, <1>5 DEF Raised
    <2> QED
      BY <2>1, <2>2 DEF RepairedIsCounted
  <1>9. TipIsRooted'
    <2> SUFFICES ASSUME tip > 0 PROVE stored'[chain[tip]] > 0
      BY DEF TipIsRooted, Repair
    <2>1. chain[tip] \in Root
      BY <1>1 DEF TypeOK, Block
    <2> QED
      BY <1>3, <1>4, <1>5, <2>1 DEF TipIsRooted
  <1>10. StartupIsClean'
    BY DEF StartupIsClean, Repair, Running
  <1>11. /\ NeverFails' /\ HeldIsCounted' /\ OnlyUnpersistsPend' /\ TipIsInWindow'
         /\ MemoryIsCurrent' /\ WindowFits' /\ AnnouncedIsSaved'
    BY DEF Repair, NeverFails, HeldIsCounted, OnlyUnpersistsPend, TipIsInWindow,
           MemoryIsCurrent, WindowFits, AnnouncedIsSaved, Running
  <1> QED
    BY <1>6, <1>7, <1>8, <1>9, <1>10, <1>11

\* The newest block is seeded, since it is rooted, and it is the newest seeded:
\* the indexer resumes from the state after it, and that state loads.
LEMMA SeedWindowInv ==
  ASSUME IndInv, SeedWindow
  PROVE  IndInv'
  <1> USE DEF IndInv
  <1> DEFINE seeded == {b \in Newest(retention) : stored[chain[b]] > 0}
  <1>1. /\ pc = "repaired" /\ window' = seeded
        /\ UNCHANGED <<chain, tip, stored, intact, retention, pending, announced, stops>>
    BY DEF SeedWindow, durable
  <1>2. /\ tip \in Nat /\ retention \in Nat /\ retention >= 1
        /\ IsFiniteSet(Newest(retention)) /\ Cardinality(Newest(retention)) <= retention
    <2>1. retention \in Retentions
      BY DEF SeedWindow, StartupIsClean
    <2>2. retention \in Nat /\ retention >= 1
      BY <2>1, RetentionAssumption
    <2> QED
      BY <2>2, HeldIsFinite
  <1>3. seeded \in SUBSET Newest(retention) /\ seeded \in SUBSET (1 .. tip)
    BY DEF Newest
  <1>4. IsFiniteSet(seeded) /\ Cardinality(seeded) <= retention
    <2>1. IsFiniteSet(seeded) /\ Cardinality(seeded) <= Cardinality(Newest(retention))
      BY <1>2, <1>3, FS_Subset
    <2>2. Cardinality(seeded) \in Nat /\ Cardinality(Newest(retention)) \in Nat
      BY <1>2, <2>1, FS_CardinalityType
    <2> QED
      BY <1>2, <2>1, <2>2
  <1>5. tip > 0 => tip \in seeded
    BY <1>2 DEF TipIsRooted, Newest
  <1>6. tip = 0 => seeded = {}
    BY DEF Newest
  <1>7. pc' = "waiting" /\ mem' = TipState
    <2>1. CASE seeded = {}
      <3>1. tip = 0
        BY <2>1, <1>2, <1>5
      <3> QED
        BY <2>1, <3>1 DEF SeedWindow, TipState
    <2>2. CASE seeded # {}
      <3>1. PICK back \in seeded :
              /\ \A b \in seeded : b <= back
              /\ mem' = chain[back]
              /\ pc' = IF chain[back] \in intact THEN "waiting" ELSE "failed"
        BY <2>2 DEF SeedWindow
      <3>2. tip > 0 /\ back = tip
        BY <1>2, <1>3, <1>5, <1>6, <2>2, <3>1
      <3>3. chain[tip] \in Root
        BY <1>2, <3>2 DEF TypeOK, Block
      <3>4. chain[tip] \in intact
        BY <3>2, <3>3 DEF TipIsRooted, RootedIsIntact
      <3> QED
        BY <3>1, <3>2, <3>4 DEF TipState
    <2> QED
      BY <2>1, <2>2
  <1>8. TypeOK'
    <2>1. mem' \in Root \cup {Fresh}
      BY <1>2, <1>7 DEF TypeOK, TipState, Block
    <2> QED
      BY <1>1, <1>3, <1>7, <2>1 DEF TypeOK, Phase
  <1>9. HeldIsCounted'
    <2>1. Held' = seeded
      BY <1>1, <1>7 DEF Held
    <2> SUFFICES ASSUME NEW r \in Root
                 PROVE  stored[r] + pending[r] >= Count(chain, seeded, r)
      BY <1>1, <2>1, RootCountIsCount DEF HeldIsCounted, RootCount, Count, Leading
    <2>2. stored[r] \in Nat /\ pending[r] = 0
      BY <1>1 DEF TypeOK, StartupIsClean, NoChange, Running
    <2>3. /\ Count(chain, seeded, r) <= Count(chain, Newest(retention), r)
          /\ Count(chain, seeded, r) \in Nat
          /\ Count(chain, Newest(retention), r) \in Nat
      BY <1>2, <1>3, <1>4, CountMonotone, CountType
    <2>4. CASE stored[r] > 0
      BY <1>1, <2>2, <2>3, <2>4, RootCountIsCount DEF RepairedIsCounted
    <2>5. CASE stored[r] = 0
      <3>1. Leading(chain, seeded, r) = {}
        BY <2>5 DEF Leading
      <3> QED
        BY <2>2, <3>1, FS_EmptySet DEF Count
    <2> QED
      BY <2>2, <2>4, <2>5
  <1>10. TipIsInWindow' /\ MemoryIsCurrent' /\ WindowFits' /\ StartupIsClean'
    <2>1. TipState' = TipState
      BY <1>1 DEF TipState
    <2> QED
      BY <1>1, <1>4, <1>5, <1>7, <2>1
         DEF TipIsInWindow, MemoryIsCurrent, WindowFits, StartupIsClean, Running
  <1>11. /\ NeverFails' /\ RepairedIsCounted' /\ TipIsRooted' /\ RootedIsIntact'
         /\ OnlyUnpersistsPend' /\ AnnouncedIsSaved'
    BY <1>1, <1>7 DEF NeverFails, RepairedIsCounted, TipIsRooted, RootedIsIntact,
                      OnlyUnpersistsPend, AnnouncedIsSaved
  <1> QED
    BY <1>8, <1>9, <1>10, <1>11

\* The resumed state is the tip's, so the node's root agrees with it.
LEMMA ApplyBlockInv ==
  ASSUME IndInv, ApplyBlock
  PROVE  IndInv'
  <1> USE DEF IndInv
  <1>1. /\ pc = "waiting" /\ tip < MaxBlocks /\ tip \in Nat
        /\ UNCHANGED <<chain, tip, stored, intact, retention, window, pending, announced, stops>>
    BY HeldIsFinite DEF ApplyBlock, durable
  <1>2. mem = TipState
    BY <1>1 DEF MemoryIsCurrent, Running
  <1>3. pc' = "applied" /\ mem' = chain[tip + 1]
    BY <1>2 DEF ApplyBlock
  <1>4. TypeOK'
    <2>1. chain[tip + 1] \in Root
      BY <1>1, MaxBlocksAssumption DEF TypeOK, Block
    <2> QED
      BY <1>1, <1>3, <2>1 DEF TypeOK, Phase
  <1>5. HeldIsCounted'
    BY <1>1, <1>3 DEF HeldIsCounted, Held, RootCount, Running
  <1>6. /\ NeverFails' /\ RepairedIsCounted' /\ TipIsRooted' /\ RootedIsIntact'
        /\ OnlyUnpersistsPend' /\ TipIsInWindow' /\ MemoryIsCurrent' /\ WindowFits'
        /\ StartupIsClean' /\ AnnouncedIsSaved'
    BY <1>1, <1>3 DEF NeverFails, RepairedIsCounted, TipIsRooted, RootedIsIntact,
         OnlyUnpersistsPend, TipIsInWindow, MemoryIsCurrent, WindowFits,
         StartupIsClean, AnnouncedIsSaved, Running
  <1> QED
    BY <1>4, <1>5, <1>6

\* The flush writes counts that cover the window and the new block, so none of
\* them is negative.
LEMMA PersistInv ==
  ASSUME IndInv, Persist
  PROVE  IndInv'
  <1> USE DEF IndInv
  <1> DEFINE delta == [pending EXCEPT ![mem] = @ + 1]
  <1>1. /\ pc = "applied" /\ tip \in Nat /\ tip < MaxBlocks /\ mem = chain[tip + 1]
        /\ mem \in Root /\ tip + 1 \in Block
        /\ UNCHANGED <<chain, tip, retention, window, mem, announced, stops>>
    <2>1. pc = "applied" /\ UNCHANGED <<chain, tip, retention, window, mem, announced, stops>>
      BY DEF Persist
    <2>2. tip \in Nat /\ tip < MaxBlocks /\ mem = chain[tip + 1]
      BY <2>1, HeldIsFinite DEF MemoryIsCurrent, Running
    <2> QED
      BY <2>1, <2>2, MaxBlocksAssumption DEF TypeOK, Block
  <1>2. \A r \in Root : /\ stored[r] \in Nat /\ pending[r] \in Int /\ delta[r] \in Int
                        /\ delta[r] = IF mem = r THEN pending[r] + 1 ELSE pending[r]
    BY <1>1 DEF TypeOK
  <1> HIDE DEF delta
  <1>3. IsFiniteSet(window) /\ Held = window
    BY <1>1, HeldIsFinite DEF Held
  <1>4. \A r : Count(chain, window, r) \in Nat /\ Count(chain, window \cup {tip + 1}, r) \in Nat
    BY <1>3, CountType, FS_AddElement, Zenon
  <1>5. \A r \in Root : stored[r] + delta[r] >= Count(chain, window \cup {tip + 1}, r)
    <2> SUFFICES ASSUME NEW r \in Root
                 PROVE  stored[r] + delta[r] >= Count(chain, window \cup {tip + 1}, r)
      OBVIOUS
    <2>1. stored[r] + pending[r] >= Count(chain, window, r)
      BY <1>1, <1>3, RootCountIsCount DEF HeldIsCounted, Running
    <2>2. Count(chain, window \cup {tip + 1}, r)
            <= Count(chain, window, r) + (IF mem = r THEN 1 ELSE 0)
      BY <1>1, <1>3, CountAdd
    <2>3. /\ stored[r] \in Nat /\ pending[r] \in Int /\ Count(chain, window, r) \in Nat
          /\ Count(chain, window \cup {tip + 1}, r) \in Nat
      BY <1>2, <1>4
    <2>4. CASE mem = r
      BY <1>2, <2>1, <2>2, <2>3, <2>4
    <2>5. CASE mem # r
      BY <1>2, <2>1, <2>2, <2>3, <2>5
    <2> QED
      BY <2>4, <2>5
  <1>6. (\A r \in Root : stored[r] + delta[r] \in Nat) /\ ~Underflows(delta)
    <2>1. \A r \in Root : stored[r] \in Nat /\ delta[r] \in Int
      BY <1>2
    <2>2. \A r \in Root : stored[r] + delta[r] \in Nat
      <3> SUFFICES ASSUME NEW r \in Root PROVE stored[r] + delta[r] \in Nat
        OBVIOUS
      <3>1. /\ stored[r] + delta[r] >= Count(chain, window \cup {tip + 1}, r)
            /\ Count(chain, window \cup {tip + 1}, r) \in Nat
        BY <1>4, <1>5, SMTT(30)
      <3>2. stored[r] \in Nat /\ delta[r] \in Int
        BY <2>1
      <3> QED
        BY <3>1, <3>2
    <2> QED
      BY <2>2 DEF Underflows
  <1>7. /\ pc' = "persisted" /\ stored' = Flushed(delta)
        /\ intact' = intact \cup {mem} /\ pending' = NoChange
    BY <1>6 DEF Persist, delta
  <1>8. \A r \in Root : stored'[r] = stored[r] + delta[r] /\ pending'[r] = 0 /\ stored'[r] \in Nat
    <2>1. \A r \in Root : stored'[r] = stored[r] + delta[r] /\ pending'[r] = 0
      BY <1>7 DEF Flushed, NoChange
    <2> QED
      BY <2>1, <1>6
  <1>9. TypeOK'
    BY <1>1, <1>2, <1>7, <1>8 DEF TypeOK, Phase, Flushed, NoChange
  <1>10. HeldIsCounted'
    <2>1. Held' = window \cup {tip + 1}
      BY <1>1, <1>7 DEF Held
    <2>2. \A r \in Root : stored'[r] + pending'[r] >= Count(chain, window \cup {tip + 1}, r)
      <3> SUFFICES ASSUME NEW r \in Root
                   PROVE  stored'[r] + pending'[r] >= Count(chain, window \cup {tip + 1}, r)
        OBVIOUS
      <3>1. stored'[r] + 0 = stored[r] + delta[r]
        BY <1>6, <1>8
      <3> QED
        BY <1>5, <1>8, <3>1
    <2> QED
      BY <1>1, <2>1, <2>2 DEF HeldIsCounted, RootCount, Count, Leading
  <1>11. TipIsRooted'
    <2> SUFFICES ASSUME tip > 0 PROVE stored'[chain[tip]] > 0
      BY <1>1 DEF TipIsRooted
    <2>1. tip \in window /\ chain[tip] \in Root
      BY <1>1 DEF TipIsInWindow, Running, TypeOK, Block
    <2>2. Count(chain, window \cup {tip + 1}, chain[tip]) >= 1
      BY <1>3, <2>1, CountType, FS_AddElement, Zenon
    <2>3. stored'[chain[tip]] >= Count(chain, window \cup {tip + 1}, chain[tip])
      BY <1>5, <1>8, <2>1, Zenon
    <2> QED
      BY <1>4, <1>8, <2>1, <2>2, <2>3
  <1>12. RootedIsIntact'
    <2> SUFFICES ASSUME NEW r \in Root, stored'[r] > 0 PROVE r \in intact'
      BY DEF RootedIsIntact
    <2>1. CASE r = mem
      BY <1>7, <2>1
    <2>2. CASE r # mem
      <3>1. stored[r] > 0
        BY <1>2, <1>8, <2>2 DEF OnlyUnpersistsPend
      <3> QED
        BY <1>7, <3>1 DEF RootedIsIntact
    <2> QED
      BY <2>1, <2>2
  <1>13. /\ NeverFails' /\ RepairedIsCounted' /\ OnlyUnpersistsPend' /\ TipIsInWindow'
         /\ MemoryIsCurrent' /\ WindowFits' /\ StartupIsClean' /\ AnnouncedIsSaved'
    BY <1>1, <1>7, <1>8 DEF NeverFails, RepairedIsCounted, OnlyUnpersistsPend,
         TipIsInWindow, MemoryIsCurrent, WindowFits, StartupIsClean,
         AnnouncedIsSaved, Running
  <1> QED
    BY <1>9, <1>10, <1>11, <1>12, <1>13

\* Saving moves the tip to the block whose state was just persisted.
LEMMA SaveBlockInv ==
  ASSUME IndInv, SaveBlock
  PROVE  IndInv'
  <1> USE DEF IndInv
  <1>1. /\ pc = "persisted" /\ pc' = "saved" /\ tip' = tip + 1
        /\ UNCHANGED <<chain, stored, intact, retention, window, pending, mem, announced, stops>>
    BY DEF SaveBlock
  <1>2. tip \in Nat /\ tip < MaxBlocks /\ mem = chain[tip + 1] /\ chain[tip + 1] \in Root
    <2>1. tip \in Nat /\ tip < MaxBlocks /\ mem = chain[tip + 1]
      BY <1>1, HeldIsFinite DEF MemoryIsCurrent, Running
    <2> QED
      BY <2>1, MaxBlocksAssumption DEF TypeOK, Block
  <1>3. TypeOK'
    BY <1>1, <1>2, MaxBlocksAssumption DEF TypeOK, Phase
  <1>4. HeldIsCounted'
    <2>1. Held' = Held
      BY <1>1 DEF Held
    <2> QED
      BY <1>1, <2>1 DEF HeldIsCounted, RootCount, Running
  <1>5. TipIsRooted'
    <2>1. tip + 1 \in Held /\ IsFiniteSet(Held)
      BY <1>1, HeldIsFinite DEF Held
    <2>2. Count(chain, Held, chain[tip + 1]) >= 1 /\ Count(chain, Held, chain[tip + 1]) \in Nat
      BY <2>1, CountType
    <2>3. stored[chain[tip + 1]] + pending[chain[tip + 1]] >= Count(chain, Held, chain[tip + 1])
      BY <1>1, <1>2, RootCountIsCount DEF HeldIsCounted, Running
    <2>4. pending[chain[tip + 1]] <= 0
      BY <1>2 DEF OnlyUnpersistsPend
    <2>5. stored[chain[tip + 1]] \in Nat /\ pending[chain[tip + 1]] \in Int
      BY <1>2 DEF TypeOK
    <2>6. stored[chain[tip + 1]] > 0
      BY <2>2, <2>3, <2>4, <2>5
    <2> QED
      BY <1>1, <2>6 DEF TipIsRooted
  <1>6. MemoryIsCurrent'
    BY <1>1, <1>2 DEF MemoryIsCurrent, TipState
  <1>7. AnnouncedIsSaved' /\ StartupIsClean'
    BY <1>1, <1>2 DEF AnnouncedIsSaved, StartupIsClean, Running
  <1>8. /\ NeverFails' /\ RepairedIsCounted' /\ RootedIsIntact' /\ OnlyUnpersistsPend'
        /\ TipIsInWindow' /\ WindowFits'
    BY <1>1 DEF NeverFails, RepairedIsCounted, RootedIsIntact, OnlyUnpersistsPend,
         TipIsInWindow, WindowFits, Running
  <1> QED
    BY <1>3, <1>4, <1>5, <1>6, <1>7, <1>8

\* The block announced is the saved tip.
LEMMA PublishInv ==
  ASSUME IndInv, Publish
  PROVE  IndInv'
  <1> USE DEF IndInv
  <1>1. /\ pc = "saved" /\ pc' = "published" /\ announced' = announced \cup {tip}
        /\ UNCHANGED <<chain, tip, stored, intact, retention, window, pending, mem, stops>>
    BY DEF Publish, durable
  <1>2. tip \in Nat /\ tip > 0 /\ tip \in Block
    BY <1>1, HeldIsFinite DEF StartupIsClean, TypeOK, Block
  <1>3. TypeOK' /\ AnnouncedIsSaved'
    BY <1>1, <1>2 DEF TypeOK, Phase, AnnouncedIsSaved
  <1>4. HeldIsCounted'
    <2>1. Held' = Held
      BY <1>1 DEF Held
    <2> QED
      BY <1>1, <2>1 DEF HeldIsCounted, RootCount, Running
  <1>5. /\ NeverFails' /\ RepairedIsCounted' /\ TipIsRooted' /\ RootedIsIntact'
        /\ OnlyUnpersistsPend' /\ TipIsInWindow' /\ MemoryIsCurrent' /\ WindowFits'
        /\ StartupIsClean'
    BY <1>1 DEF NeverFails, RepairedIsCounted, TipIsRooted, RootedIsIntact,
         OnlyUnpersistsPend, TipIsInWindow, MemoryIsCurrent, WindowFits,
         StartupIsClean, Running, TipState
  <1> QED
    BY <1>3, <1>4, <1>5

\* The window grows by the one block that was held outside it.
LEMMA PushBackInv ==
  ASSUME IndInv, PushBack
  PROVE  IndInv'
  <1> USE DEF IndInv
  <1>1. /\ pc = "published" /\ pc' = "trimming" /\ window' = window \cup {tip}
        /\ UNCHANGED <<chain, tip, stored, intact, retention, pending, mem, announced, stops>>
    BY DEF PushBack, durable
  <1>2. tip \in Nat /\ tip > 0 /\ retention \in Nat /\ IsFiniteSet(window)
    BY <1>1, HeldIsFinite DEF StartupIsClean, TypeOK
  <1>3. TypeOK'
    BY <1>1, <1>2 DEF TypeOK, Phase
  <1>4. HeldIsCounted'
    <2>1. Held' = Held
      BY <1>1 DEF Held
    <2> QED
      BY <1>1, <2>1 DEF HeldIsCounted, RootCount, Running
  <1>5. WindowFits'
    <2>1. Cardinality(window) <= retention /\ Cardinality(window) \in Nat
      BY <1>1, <1>2, FS_CardinalityType DEF WindowFits, Running
    <2>2. Cardinality(window \cup {tip}) \in {Cardinality(window), Cardinality(window) + 1}
      BY <1>2, FS_AddElement
    <2>3. Cardinality(window \cup {tip}) <= retention + 1
      BY <1>2, <2>1, <2>2
    <2> QED
      BY <1>1, <2>3 DEF WindowFits
  <1>6. /\ NeverFails' /\ RepairedIsCounted' /\ TipIsRooted' /\ RootedIsIntact'
        /\ OnlyUnpersistsPend' /\ TipIsInWindow' /\ MemoryIsCurrent'
        /\ StartupIsClean' /\ AnnouncedIsSaved'
    BY <1>1 DEF NeverFails, RepairedIsCounted, TipIsRooted, RootedIsIntact,
         OnlyUnpersistsPend, TipIsInWindow, MemoryIsCurrent,
         StartupIsClean, AnnouncedIsSaved, Running, TipState
  <1> QED
    BY <1>3, <1>4, <1>5, <1>6

\* The oldest key leaves a window of at least two, so it is not the newest one;
\* its root loses one count for the one block that left.
LEMMA PopFrontInv ==
  ASSUME IndInv, PopFront
  PROVE  IndInv'
  <1> USE DEF IndInv
  <1>1. /\ pc = "trimming" /\ TooLong
        /\ UNCHANGED <<chain, tip, stored, intact, pc, retention, mem, announced, stops>>
    BY DEF PopFront, durable
  <1>2. PICK front \in window :
          /\ \A b \in window : front <= b
          /\ window' = window \ {front}
          /\ pending' = [pending EXCEPT ![chain[front]] = @ - 1]
    BY Zenon DEF PopFront
  <1>3. /\ tip \in Nat /\ tip > 0 /\ retention \in Nat /\ IsFiniteSet(window)
        /\ Cardinality(window) \in Nat
    BY <1>1, HeldIsFinite, FS_CardinalityType DEF StartupIsClean, TypeOK
  <1>4. retention >= 1
    <2>1. retention \in Retentions
      BY <1>1 DEF StartupIsClean
    <2> QED
      BY <2>1, RetentionAssumption
  <1>5. tip \in window /\ window \in SUBSET (1 .. tip)
    BY <1>1, <1>3 DEF TipIsInWindow, Running, TypeOK
  <1>6. front # tip
    <2> SUFFICES ASSUME front = tip PROVE FALSE
      OBVIOUS
    <2>1. window = {tip}
      BY <1>2, <1>3, <1>5
    <2>2. Cardinality({tip}) = 1
      BY FS_Singleton
    <2> QED
      BY <1>1, <1>3, <1>4, <2>1, <2>2 DEF TooLong
  <1>7. front \in Block /\ chain[front] \in Root
    BY <1>2, <1>3, <1>5, MaxBlocksAssumption DEF TypeOK, Block
  <1>8. \A r \in Root : /\ stored[r] \in Nat /\ pending[r] \in Int /\ pending'[r] \in Int
                        /\ pending'[r] = IF chain[front] = r THEN pending[r] - 1 ELSE pending[r]
    BY <1>2, <1>7 DEF TypeOK
  <1>9. TypeOK'
    <2>1. pending' \in [Root -> Int]
      BY <1>2, <1>7 DEF TypeOK
    <2> QED
      BY <1>1, <1>2, <2>1 DEF TypeOK
  <1>10. HeldIsCounted'
    <2> SUFFICES ASSUME NEW r \in Root
                 PROVE  stored[r] + pending'[r] >= RootCount(Held, r)'
      BY <1>1 DEF HeldIsCounted
    <2>1. Held = window /\ Held' = window \ {front}
      BY <1>1, <1>2 DEF Held
    <2>2. RootCount(Held, r)' = Count(chain, window \ {front}, r)
      BY <1>1, <2>1 DEF RootCount, Count, Leading
    <2>3. stored[r] + pending[r] >= Count(chain, window, r)
      BY <1>1, <2>1, RootCountIsCount DEF HeldIsCounted, Running
    <2>4. Count(chain, window \ {front}, r)
            = Count(chain, window, r) - (IF chain[front] = r THEN 1 ELSE 0)
      BY <1>2, <1>3, CountRemove
    <2>5. Count(chain, window, r) \in Nat /\ stored[r] \in Nat /\ pending[r] \in Int
      BY <1>3, <1>8, CountType
    <2>6. CASE chain[front] = r
      BY <1>8, <2>2, <2>3, <2>4, <2>5, <2>6
    <2>7. CASE chain[front] # r
      BY <1>8, <2>2, <2>3, <2>4, <2>5, <2>7
    <2> QED
      BY <2>6, <2>7
  <1>11. OnlyUnpersistsPend'
    BY <1>8 DEF OnlyUnpersistsPend
  <1>12. WindowFits'
    <2>1. Cardinality(window') = Cardinality(window) - 1
      BY <1>2, <1>3, FS_RemoveElement, SMTT(30)
    <2>2. Cardinality(window) <= retention + 1
      BY <1>1 DEF WindowFits, Running
    <2>3. Cardinality(window') <= retention + 1
      BY <1>3, <2>1, <2>2
    <2> QED
      BY <1>1, <2>3 DEF WindowFits
  <1>13. TipIsInWindow'
    BY <1>1, <1>2, <1>5, <1>6 DEF TipIsInWindow
  <1>14. /\ NeverFails' /\ RepairedIsCounted' /\ TipIsRooted' /\ RootedIsIntact'
         /\ MemoryIsCurrent' /\ StartupIsClean' /\ AnnouncedIsSaved'
    BY <1>1 DEF NeverFails, RepairedIsCounted, TipIsRooted, RootedIsIntact,
         MemoryIsCurrent, StartupIsClean, AnnouncedIsSaved, Running, TipState
  <1> QED
    BY <1>9, <1>10, <1>11, <1>12, <1>13, <1>14

\* The loop ends when the window fits.
LEMMA EndTrimInv ==
  ASSUME IndInv, EndTrim
  PROVE  IndInv'
  <1> USE DEF IndInv
  <1>1. /\ pc = "trimming" /\ ~TooLong /\ pc' = "collecting"
        /\ UNCHANGED <<chain, tip, stored, intact, retention, window, pending, mem, announced, stops>>
    BY DEF EndTrim, durable
  <1>2. WindowFits'
    <2>1. Cardinality(window) \in Nat /\ retention \in Nat
      BY HeldIsFinite, FS_CardinalityType DEF TypeOK
    <2> QED
      BY <1>1, <2>1 DEF WindowFits, TooLong
  <1>3. HeldIsCounted'
    <2>1. Held' = Held
      BY <1>1 DEF Held
    <2> QED
      BY <1>1, <2>1 DEF HeldIsCounted, RootCount, Running
  <1>4. /\ TypeOK' /\ NeverFails' /\ RepairedIsCounted' /\ TipIsRooted' /\ RootedIsIntact'
        /\ OnlyUnpersistsPend' /\ TipIsInWindow' /\ MemoryIsCurrent'
        /\ StartupIsClean' /\ AnnouncedIsSaved'
    BY <1>1 DEF TypeOK, Phase, NeverFails, RepairedIsCounted, TipIsRooted, RootedIsIntact,
         OnlyUnpersistsPend, TipIsInWindow, MemoryIsCurrent,
         StartupIsClean, AnnouncedIsSaved, Running, TipState
  <1> QED
    BY <1>2, <1>3, <1>4

\* A flush by gc writes counts that still cover the window, hence the tip; a
\* sweep spares every state a stored count holds.
LEMMA CollectGarbageInv ==
  ASSUME IndInv, CollectGarbage
  PROVE  IndInv'
  <1> USE DEF IndInv
  <1>1. /\ pc = "collecting"
        /\ UNCHANGED <<chain, tip, retention, window, mem, announced, stops>>
    BY DEF CollectGarbage
  <1>2. tip \in Nat /\ IsFiniteSet(window) /\ Held = window
    BY <1>1, HeldIsFinite DEF Held
  <1>3. \A r \in Root : stored[r] \in Nat /\ pending[r] \in Int
    BY DEF TypeOK
  <1>4. \A r \in Root : Count(chain, window, r) \in Nat
    BY <1>2, CountType, Zenon
  <1>5. \A r \in Root : stored[r] + pending[r] >= Count(chain, window, r)
    BY <1>1, <1>2, RootCountIsCount DEF HeldIsCounted, Running
  <1>6. (\A r \in Root : stored[r] + pending[r] \in Nat) /\ ~Underflows(pending)
    <2>1. \A r \in Root : stored[r] + pending[r] \in Nat
      <3> SUFFICES ASSUME NEW r \in Root PROVE stored[r] + pending[r] \in Nat
        OBVIOUS
      <3>1. /\ stored[r] + pending[r] >= Count(chain, window, r)
            /\ Count(chain, window, r) \in Nat
        BY <1>4, <1>5
      <3> QED
        BY <1>3, <3>1
    <2> QED
      BY <2>1 DEF Underflows
  <1>7. /\ pc' = "waiting"
        /\ \/ stored' = stored /\ pending' = pending
           \/ stored' = Flushed(pending) /\ pending' = NoChange
    BY <1>6 DEF CollectGarbage
  <1>8. \A r \in Root : /\ stored'[r] \in Nat /\ pending'[r] \in Int /\ pending'[r] <= 0
                        /\ stored'[r] + pending'[r] = stored[r] + pending[r]
                        /\ stored'[r] <= stored[r]
    <2> SUFFICES ASSUME NEW r \in Root
                 PROVE  /\ stored'[r] \in Nat /\ pending'[r] \in Int /\ pending'[r] <= 0
                        /\ stored'[r] + pending'[r] = stored[r] + pending[r]
                        /\ stored'[r] <= stored[r]
      OBVIOUS
    <2>1. /\ stored[r] \in Nat /\ pending[r] \in Int /\ pending[r] <= 0
          /\ stored[r] + pending[r] \in Nat
      BY <1>3, <1>6 DEF OnlyUnpersistsPend
    <2>2. CASE stored' = stored /\ pending' = pending
      BY <2>1, <2>2
    <2>3. CASE stored' = Flushed(pending) /\ pending' = NoChange
      <3>1. stored'[r] = stored[r] + pending[r] /\ pending'[r] = 0
        BY <2>3 DEF Flushed, NoChange
      <3> QED
        BY <2>1, <3>1
    <2> QED
      BY <1>7, <2>2, <2>3
  <1>9. PICK culled \in SUBSET Cullable(stored') : intact' = intact \ culled
    BY DEF CollectGarbage
  <1>10. TypeOK'
    <2>1. stored' \in [Root -> Nat] /\ pending' \in [Root -> Int]
      <3>1. DOMAIN stored' = Root /\ stored' = [r \in Root |-> stored'[r]]
            /\ DOMAIN pending' = Root /\ pending' = [r \in Root |-> pending'[r]]
        BY <1>7 DEF TypeOK, Flushed, NoChange
      <3> QED
        BY <1>8, <3>1
    <2> QED
      BY <1>1, <1>7, <1>9, <2>1 DEF TypeOK, Phase
  <1>11. HeldIsCounted'
    <2>1. Held' = window
      BY <1>1, <1>7 DEF Held
    <2>2. \A r \in Root : stored'[r] + pending'[r] >= Count(chain, window, r)
      BY <1>5, <1>8
    <2> QED
      BY <1>1, <2>1, <2>2 DEF HeldIsCounted, RootCount, Count, Leading
  <1>12. TipIsRooted'
    <2> SUFFICES ASSUME tip > 0 PROVE stored'[chain[tip]] > 0
      BY <1>1 DEF TipIsRooted
    <2>1. tip \in window /\ chain[tip] \in Root
      BY <1>1, <1>2 DEF TipIsInWindow, Running, TypeOK, Block
    <2>2. Count(chain, window, chain[tip]) >= 1
      BY <1>2, <2>1, CountType
    <2>3. /\ stored'[chain[tip]] + pending'[chain[tip]] >= Count(chain, window, chain[tip])
          /\ Count(chain, window, chain[tip]) \in Nat
      BY <1>4, <1>5, <1>8, <2>1
    <2>4. /\ stored'[chain[tip]] \in Nat /\ pending'[chain[tip]] \in Int
          /\ pending'[chain[tip]] <= 0
      BY <1>8, <2>1
    <2> QED
      BY <2>2, <2>3, <2>4
  <1>13. RootedIsIntact'
    <2> SUFFICES ASSUME NEW r \in Root, stored'[r] > 0 PROVE r \in intact'
      BY DEF RootedIsIntact
    <2>1. r \in intact
      BY <1>3, <1>8 DEF RootedIsIntact
    <2>2. r \notin culled
      BY <1>8, <1>9 DEF Cullable
    <2> QED
      BY <1>9, <2>1, <2>2
  <1>14. OnlyUnpersistsPend'
    BY <1>8 DEF OnlyUnpersistsPend
  <1>15. /\ NeverFails' /\ RepairedIsCounted' /\ TipIsInWindow' /\ MemoryIsCurrent'
         /\ WindowFits' /\ StartupIsClean' /\ AnnouncedIsSaved'
    BY <1>1, <1>7 DEF NeverFails, RepairedIsCounted, TipIsInWindow, MemoryIsCurrent,
         WindowFits, StartupIsClean, AnnouncedIsSaved, Running, TipState
  <1> QED
    BY <1>10, <1>11, <1>12, <1>13, <1>14, <1>15

\* Losing the memory loses unpersists only: the stored counts still root the tip.
LEMMA StopInv ==
  ASSUME IndInv, Stop
  PROVE  IndInv'
  <1> USE DEF IndInv
  <1>1. TypeOK'
    BY MaxStopsAssumption DEF TypeOK, Stop, durable, NoChange, Phase
  <1>2. OnlyUnpersistsPend' /\ StartupIsClean'
    BY DEF OnlyUnpersistsPend, StartupIsClean, Stop, NoChange, Running
  <1>3. /\ NeverFails' /\ HeldIsCounted' /\ RepairedIsCounted' /\ TipIsRooted'
        /\ RootedIsIntact' /\ TipIsInWindow' /\ MemoryIsCurrent' /\ WindowFits'
        /\ AnnouncedIsSaved'
    BY DEF Stop, durable, NeverFails, HeldIsCounted, RepairedIsCounted, TipIsRooted,
           RootedIsIntact, TipIsInWindow, MemoryIsCurrent, WindowFits,
           AnnouncedIsSaved, Running
  <1> QED
    BY <1>1, <1>2, <1>3

\* A step that changes nothing keeps the inductive invariant.
LEMMA StutterInv ==
  ASSUME IndInv, UNCHANGED vars
  PROVE  IndInv'
  <1> USE DEF vars, durable, volatile, Running
  <1>1. (Held = Held') /\ (TipState = TipState')
    BY DEF Held, TipState
  <1>2. \A n : Newest(n) = Newest(n)'
    BY DEF Newest
  <1>3. \A S, r : RootCount(S, r) = Cardinality({b \in S : chain'[b] = r})
    BY DEF RootCount
  <1>4. HeldIsCounted' /\ RepairedIsCounted'
    BY <1>1, <1>2, <1>3 DEF IndInv, HeldIsCounted, RepairedIsCounted, RootCount
  <1>5. /\ TypeOK' /\ NeverFails' /\ TipIsRooted' /\ RootedIsIntact'
        /\ OnlyUnpersistsPend' /\ TipIsInWindow' /\ MemoryIsCurrent' /\ WindowFits'
        /\ StartupIsClean' /\ AnnouncedIsSaved'
    BY <1>1 DEF IndInv, TypeOK, NeverFails, TipIsRooted, RootedIsIntact,
         OnlyUnpersistsPend, TipIsInWindow, MemoryIsCurrent, WindowFits,
         StartupIsClean, AnnouncedIsSaved
  <1> QED
    BY <1>4, <1>5 DEF IndInv

-----------------------------------------------------------------------------
(* The newest blocks, as many as the lowest configured retention.          *)

\* While the process runs, the state of a saved block it holds has a stored
\* count: what is pending only unpersists, so the sum cannot exceed the count.
LEMMA HeldIsRooted ==
  ASSUME IndInv, Running, NEW b \in Held, b \in 1 .. tip
  PROVE  chain[b] \in Root /\ stored[chain[b]] > 0
  <1>1. tip \in Nat /\ chain[b] \in Root /\ stored[chain[b]] \in Nat /\ pending[chain[b]] \in Int
    BY HeldIsFinite, MaxBlocksAssumption DEF IndInv, TypeOK, Block
  <1>2. IsFiniteSet(Held)
    BY HeldIsFinite DEF IndInv
  <1>3. Count(chain, Held, chain[b]) >= 1 /\ Count(chain, Held, chain[b]) \in Nat
    BY <1>2, CountType
  <1>4. stored[chain[b]] + pending[chain[b]] >= Count(chain, Held, chain[b])
    BY <1>1, RootCountIsCount DEF IndInv, HeldIsCounted
  <1>5. pending[chain[b]] <= 0
    BY <1>1 DEF IndInv, OnlyUnpersistsPend
  <1> QED
    BY <1>1, <1>3, <1>4, <1>5

\* A running process that holds the newest blocks keeps them counted.
LEMMA HeldRecentIsRooted == IndInv /\ RecentIsHeld /\ Running => RecentIsRooted
  <1> SUFFICES ASSUME IndInv, RecentIsHeld, Running, NEW n \in Lowest, NEW b \in Newest(n)
               PROVE  stored[chain[b]] > 0
    BY DEF RecentIsRooted
  <1>1. b \in Held /\ b \in 1 .. tip
    BY DEF RecentIsHeld, Newest
  <1> QED
    BY <1>1, HeldIsRooted

\* Whatever retention an older release ran with, it counted the newest blocks.
LEMMA InitRecent == Init => RecentInv
  <1> SUFFICES ASSUME Init, NEW n \in Lowest, NEW b \in Newest(n)
               PROVE  stored[chain[b]] > 0
    BY DEF RecentInv, RecentIsRooted, RecentIsHeld, Running, Init
  <1>1. PICK m \in Retentions : stored = [r \in Root |-> CappedCount(m, r)]
    BY DEF Init
  <1>2. tip \in Nat /\ n \in Nat /\ m \in Nat /\ n <= m
    BY RetentionAssumption, MaxBlocksAssumption DEF Init, Lowest
  <1>3. b \in Newest(m) /\ IsFiniteSet(Newest(m))
    BY <1>2, NewestSize DEF Newest
  <1>4. chain[b] \in Root
    BY <1>2, MaxBlocksAssumption DEF Init, Newest, Block
  <1>5. RootCount(Newest(m), chain[b]) >= 1 /\ RootCount(Newest(m), chain[b]) \in Nat
    BY <1>3, CountType, RootCountIsCount
  <1> QED
    BY <1>1, <1>4, <1>5 DEF CappedCount

\* The repair lowers no count.
LEMMA RepairRecent ==
  ASSUME IndInv, RecentInv, NEW n \in Retentions, Repair(n)
  PROVE  RecentIsRooted'
  <1> SUFFICES ASSUME NEW l \in Lowest, NEW b \in Newest(l)
               PROVE  stored'[chain[b]] > 0
    BY Zenon DEF RecentIsRooted, Repair, Newest, Lowest
  <1>1. n \in Nat /\ tip \in Nat /\ IsFiniteSet(Newest(n))
    BY RetentionAssumption, HeldIsFinite DEF IndInv
  <1>2. chain[b] \in Root /\ stored[chain[b]] \in Nat
    BY <1>1, MaxBlocksAssumption DEF IndInv, TypeOK, Newest, Block
  <1>3. RootCount(Newest(n), chain[b]) \in Nat
    BY <1>1, CountType, RootCountIsCount
  <1>4. stored[chain[b]] > 0
    BY DEF RecentInv, RecentIsRooted
  <1> QED
    BY <1>2, <1>3, <1>4 DEF Repair, Raised

\* The seeded window has the newest blocks: they are counted, and the
\* configured retention is no lower than the lowest.
LEMMA SeedWindowRecent ==
  ASSUME IndInv, RecentInv, SeedWindow
  PROVE  RecentIsHeld'
  <1> SUFFICES ASSUME NEW n \in Lowest, NEW b \in Newest(n)
               PROVE  b \in window'
    BY DEF RecentIsHeld, SeedWindow, durable, Newest, Lowest, Held
  <1>1. retention \in Retentions
    BY DEF IndInv, SeedWindow, StartupIsClean
  <1>2. tip \in Nat /\ n \in Nat /\ retention \in Nat /\ n <= retention
    BY <1>1, RetentionAssumption, HeldIsFinite DEF IndInv, Lowest
  <1>3. b \in Newest(retention)
    BY <1>2 DEF Newest
  <1>4. stored[chain[b]] > 0
    BY DEF RecentInv, RecentIsRooted
  <1> QED
    BY <1>3, <1>4 DEF SeedWindow

\* The key that leaves the window is older than the newest blocks: were it one
\* of them, the window would hold nothing but them and not be too long.
LEMMA PopFrontRecent ==
  ASSUME IndInv, RecentInv, PopFront
  PROVE  RecentIsHeld'
  <1>1. PICK front \in window :
          /\ \A b \in window : front <= b
          /\ window' = window \ {front}
    BY DEF PopFront
  <1>2. /\ pc = "trimming" /\ pc' = pc /\ tip' = tip /\ Held = window /\ Held' = window'
        /\ Running
    BY DEF PopFront, durable, Held, Running
  <1>3. SUFFICES ASSUME NEW n \in Lowest, NEW b \in Newest(n)
                 PROVE  b # front
    BY <1>1, <1>2 DEF RecentIsHeld, RecentInv, Newest, Lowest
  <1>4. retention \in Retentions
    BY <1>2 DEF IndInv, StartupIsClean
  <1>5. tip \in Nat /\ n \in Nat /\ retention \in Nat /\ n <= retention
    BY <1>4, RetentionAssumption, HeldIsFinite DEF IndInv, Lowest
  <1>6. IsFiniteSet(Newest(n)) /\ Cardinality(Newest(n)) <= n /\ IsFiniteSet(window)
    BY <1>5, HeldIsFinite DEF IndInv
  <1>7. Cardinality(Newest(n)) \in Nat /\ Cardinality(window) \in Nat
    BY <1>6, FS_CardinalityType
  <1>8. ASSUME b = front PROVE FALSE
    <2>1. window \in SUBSET (1 .. tip)
      BY DEF IndInv, TypeOK
    <2>2. window \in SUBSET Newest(n)
      BY <2>1, <1>1, <1>5, <1>8 DEF Newest
    <2>3. Cardinality(window) <= Cardinality(Newest(n))
      BY <2>2, <1>6, FS_Subset
    <2>4. Cardinality(window) > retention
      BY DEF PopFront, TooLong
    <2> QED
      BY <2>3, <2>4, <1>5, <1>6, <1>7
  <1> QED
    BY <1>8

\* Every step keeps the newest blocks held by the running process, and counted
\* while it is down.
LEMMA RecentStep ==
  ASSUME IndInv, NeverFails', RecentInv, [Next]_vars
  PROVE  RecentIsHeld' /\ (~Running' => RecentIsRooted')
  <1>1. ASSUME NEW n \in Retentions, Repair(n) PROVE ~Running' /\ RecentIsRooted'
    BY <1>1, RepairRecent, SMTT(30) DEF Repair, Running
  <1>2. CASE SeedWindow
    BY <1>2, SeedWindowRecent DEF SeedWindow, Running, NeverFails
  <1>3. CASE ApplyBlock
    BY <1>3 DEF ApplyBlock, durable, RecentInv, RecentIsHeld, Running, NeverFails, Newest, Held
  <1>4. CASE Persist
    BY <1>4 DEF Persist, RecentInv, RecentIsHeld, Running, NeverFails, Newest, Held
  <1>5. CASE SaveBlock
    <2>1. tip \in Nat /\ Running /\ Running' /\ Held = window \cup {tip + 1} /\ Held' = Held
      BY <1>5, HeldIsFinite DEF IndInv, SaveBlock, Held, Running
    <2>2. ASSUME NEW n \in Lowest PROVE Newest(n)' \subseteq Newest(n) \cup {tip + 1}
      BY <2>1, <1>5, RetentionAssumption DEF SaveBlock, Newest, Lowest
    <2> QED
      BY <2>1, <2>2 DEF RecentInv, RecentIsHeld, Lowest
  <1>6. CASE Publish
    BY <1>6 DEF Publish, durable, RecentInv, RecentIsHeld, Running, Newest, Held
  <1>7. CASE PushBack
    BY <1>7 DEF PushBack, durable, RecentInv, RecentIsHeld, Running, Newest, Held
  <1>8. CASE PopFront
    BY <1>8, PopFrontRecent, Zenon DEF PopFront, Running
  <1>9. CASE EndTrim
    BY <1>9 DEF EndTrim, durable, RecentInv, RecentIsHeld, Running, Newest, Held
  <1>10. CASE CollectGarbage
    BY <1>10 DEF CollectGarbage, RecentInv, RecentIsHeld, Running, NeverFails, Newest, Held
  <1>11. CASE Stop
    BY <1>11 DEF Stop, durable, RecentInv, RecentIsRooted, RecentIsHeld, Running, Newest
  <1>12. CASE UNCHANGED vars
    BY <1>12 DEF vars, durable, volatile, RecentInv, RecentIsRooted, RecentIsHeld, Running,
                 Newest, Held
  <1> QED
    BY <1>1, <1>2, <1>3, <1>4, <1>5, <1>6, <1>7, <1>8, <1>9, <1>10, <1>11, <1>12
       DEF Next, Step, RecentIsHeld

-----------------------------------------------------------------------------
(* The theorems.                                                           *)

\* The counts cover what the window, the block in flight and the next start
\* need, in every reachable state of the chain-indexer.
THEOREM Inductive == Spec => []IndInv
  <1>1. IndInv /\ [Next]_vars => IndInv'
    <2> SUFFICES ASSUME IndInv, [Next]_vars PROVE IndInv'
      OBVIOUS
    <2> QED
      BY RepairInv, SeedWindowInv, ApplyBlockInv, PersistInv, SaveBlockInv, PublishInv,
         PushBackInv, PopFrontInv, EndTrimInv, CollectGarbageInv, StopInv, StutterInv
         DEF Next, Step
  <1> QED
    BY InitInv, <1>1, PTL DEF Spec

\* The variables keep their types.
THEOREM TypeCorrect == Spec => []TypeOK
  <1>1. IndInv => TypeOK
    BY DEF IndInv
  <1> QED
    BY Inductive, <1>1, PTL

\* However often the process stops, whatever retention it restarts with and
\* however blocks share ledger states, the chain-indexer never fails by itself:
\* no root count is overdrawn, and every start finds and loads the tip's state.
THEOREM IndexerNeverFails == Spec => []NeverFails
  <1>1. IndInv => NeverFails
    BY DEF IndInv
  <1> QED
    BY Inductive, <1>1, PTL

\* A started indexer continues from the state after the newest saved block.
THEOREM IndexerResumesFromTip == Spec => []ResumesFromTip
  <1>1. IndInv => ResumesFromTip
    BY DEF IndInv, MemoryIsCurrent, ResumesFromTip, Running
  <1> QED
    BY Inductive, <1>1, PTL

\* unpersist never takes a count the window's other blocks need.
THEOREM CountsHoldWindow == Spec => []WindowIsHeld
  <1>1. IndInv => WindowIsHeld
    <2> SUFFICES ASSUME IndInv, Running, NEW r \in Root
                 PROVE  stored[r] + pending[r] >= RootCount(window, r)
      BY DEF WindowIsHeld, Running
    <2>1. IsFiniteSet(Held) /\ IsFiniteSet(window) /\ window \in SUBSET Held
      BY HeldIsFinite DEF IndInv, Held
    <2>2. Count(chain, window, r) <= Count(chain, Held, r)
      BY <2>1, CountMonotone
    <2>3. Count(chain, window, r) \in Nat /\ Count(chain, Held, r) \in Nat
      BY <2>1, CountType
    <2>4. stored[r] + pending[r] >= Count(chain, Held, r)
      BY RootCountIsCount DEF IndInv, HeldIsCounted
    <2>5. stored[r] \in Nat /\ pending[r] \in Int
      BY DEF IndInv, TypeOK
    <2>6. stored[r] + pending[r] >= Count(chain, window, r)
      BY <2>2, <2>3, <2>4, <2>5
    <2> QED
      BY <2>6, RootCountIsCount
  <1> QED
    BY Inductive, <1>1, PTL

\* gc never takes the nodes of a state in the window, nor of the tip's.
THEOREM WindowStaysLoadable == Spec => []WindowIsLoadable
  <1>1. IndInv => WindowIsLoadable
    <2> SUFFICES ASSUME IndInv, NEW b \in 1 .. tip, b = tip \/ b \in window
                 PROVE  chain[b] \in intact
      BY DEF WindowIsLoadable
    <2>1. tip \in Nat /\ chain[b] \in Root /\ stored[chain[b]] \in Nat /\ pending[chain[b]] \in Int
      BY HeldIsFinite, MaxBlocksAssumption DEF IndInv, TypeOK, Block
    <2>2. CASE b = tip
      BY <2>1, <2>2 DEF IndInv, TipIsRooted, RootedIsIntact
    <2>3. CASE b \in window
      <3>1. Running
        BY <2>3 DEF IndInv, StartupIsClean
      <3>2. b \in Held
        BY <2>3 DEF Held
      <3>3. stored[chain[b]] > 0
        BY <3>1, <3>2, HeldIsRooted
      <3> QED
        BY <2>1, <3>3 DEF IndInv, RootedIsIntact
    <2> QED
      BY <2>2, <2>3
  <1> QED
    BY Inductive, <1>1, PTL

\* The while loop trims the window of every block: outside the loop it is never
\* longer than the retention, inside it by the block just pushed at most.
THEOREM WindowStaysBounded == Spec => []WindowIsBounded
  <1>1. IndInv => WindowIsBounded
    <2> SUFFICES ASSUME IndInv, pc # "down"
                 PROVE  Cardinality(window) <= IF pc = "trimming" THEN retention + 1
                                                                  ELSE retention
      BY DEF WindowIsBounded
    <2>1. retention \in Nat /\ IsFiniteSet(window)
      BY HeldIsFinite DEF IndInv, TypeOK
    <2>2. Cardinality(window) \in Nat
      BY <2>1, FS_CardinalityType
    <2>3. CASE Running
      BY <2>1, <2>2, <2>3 DEF IndInv, WindowFits
    <2>4. CASE ~Running
      <3>1. Cardinality(window) = 0
        BY <2>4, FS_EmptySet DEF IndInv, StartupIsClean
      <3> QED
        BY <2>1, <3>1
    <2> QED
      BY <2>3, <2>4
  <1> QED
    BY Inductive, <1>1, PTL

\* BlockIndexed is published for committed blocks only.
THEOREM AnnouncementsAreSaved == Spec => []AnnouncedIsSaved
  <1>1. IndInv => AnnouncedIsSaved
    BY DEF IndInv
  <1> QED
    BY Inductive, <1>1, PTL

\* As many of the newest blocks as the lowest configured retention keep a
\* state indexer-api can load: neither the trimming of the window, nor a
\* restart with another retention, nor a garbage collection loses one.
THEOREM RecentStaysLoadable == Spec => []RecentIsLoadable
  <1>1. IndInv /\ IndInv' /\ RecentInv /\ [Next]_vars => RecentIsHeld' /\ (~Running' => RecentIsRooted')
    BY RecentStep DEF IndInv
  <1>2. IndInv /\ RecentIsHeld /\ Running => RecentIsRooted
    BY HeldRecentIsRooted
  <1>3. RecentInv <=> RecentIsRooted /\ RecentIsHeld
    BY DEF RecentInv
  <1>4. Spec => []RecentInv
    BY InitRecent, Inductive, <1>1, <1>2, <1>3, PTL DEF Spec
  <1>5. IndInv /\ RecentInv => RecentIsLoadable
    <2> SUFFICES ASSUME IndInv, RecentInv, NEW n \in Lowest, NEW b \in Newest(n)
                 PROVE  chain[b] \in intact
      BY DEF RecentIsLoadable, Lowest
    <2>1. chain[b] \in Root
      BY HeldIsFinite, MaxBlocksAssumption DEF IndInv, TypeOK, Newest, Block
    <2> QED
      BY <2>1 DEF IndInv, RecentInv, RecentIsRooted, RootedIsIntact
  <1> QED
    BY Inductive, <1>4, <1>5, PTL

=============================================================================
