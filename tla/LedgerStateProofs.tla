-------------------------- MODULE LedgerStateProofs --------------------------
(***************************************************************************)
(* What LedgerReads serves from ledger states, for every chain, set of     *)
(* requests, retention, snapshot age and batch size.                       *)
(***************************************************************************)
EXTENDS LedgerReadsProofs

------------------------------------------------------------------------------
(* Queries for collapsed updates.                                          *)

Done(t, x) == [task[t] EXCEPT !.pc = "done", !.got = <<x>>]

\* A query that is not idle.
Asked(t) == ReadInv /\ t \in cast.tasks /\ t.kind = "update" /\ task[t].pc # "idle"

\* What the proofs need of a part of a sequence.
LEMMA SubSeqIsSeq ==
  ASSUME NEW S, NEW x, NEW m \in Int, NEW n \in Int, \A k \in m .. n : x[k] \in S
  PROVE  /\ SubSeq(x, m, n) \in Seq(S)
         /\ Len(SubSeq(x, m, n)) = IF m <= n THEN n - m + 1 ELSE 0
         /\ \A k \in 1 .. (n - m + 1) : SubSeq(x, m, n)[k] = x[m + k - 1]
  OBVIOUS

\* Its arguments, its snapshot and the chain it reads have their types.
LEMMA AskedFacts ==
  ASSUME NEW t, Asked(t)
  PROVE  /\ DOMAIN task = cast.tasks /\ DOMAIN task[t] = Fields /\ QueryInv(t, task[t])
         /\ task[t].args.tree \in Trees /\ task[t].args.start \in Nat /\ task[t].args.end \in Nat
         /\ task[t].began \in 0 .. Highest
         /\ ChainInv /\ ChainFacts
  <1>1. TaskInv(t, task[t]) /\ cast \in Casts /\ ChainInv /\ DOMAIN task = cast.tasks
    BY DEF Asked, ReadInv
  <1>2. DOMAIN task[t] = Fields /\ QueryInv(t, task[t])
    BY <1>1 DEF Asked, TaskInv
  <1>3. task[t].args \in t.args /\ task[t].began \in 0 .. Highest
    BY <1>2 DEF Asked, QueryInv
  <1> QED
    BY <1>1, <1>2, <1>3, Requests, ChainTrees DEF Asked

LEMMA DoneFacts ==
  ASSUME NEW t, Asked(t), NEW x
  PROVE  /\ Done(t, x).pc = "done" /\ Done(t, x).got = <<x>> /\ Done(t, x).got # <<>> /\ Done(t, x).got[1] = x
         /\ Done(t, x).args = task[t].args /\ Done(t, x).began = task[t].began
         /\ DOMAIN Done(t, x) = Fields
         /\ FitsInv(Done(t, x)) => TaskInv(t, Done(t, x))
  <1>1. DOMAIN task[t] = Fields /\ QueryInv(t, task[t])
    BY AskedFacts
  <1> DEFINE r == Done(t, x)
  <1>2. /\ r.pc = "done" /\ r.got = <<x>> /\ r.args = task[t].args /\ r.began = task[t].began
        /\ DOMAIN r = Fields
    BY <1>1 DEF Done, Fields
  <1>3. r.got # <<>> /\ r.got[1] = x
    BY <1>2
  <1> HIDE DEF r
  <1>4. FitsInv(r) => QueryInv(t, r)
    BY <1>1, <1>2 DEF QueryInv, Asked
  <1>5. FitsInv(r) => TaskInv(t, r)
    BY <1>2, <1>4 DEF TaskInv, Asked
  <1> QED
    BY <1>2, <1>3, <1>5 DEF r

\* What a state answers fits, if it is as new as the tip when the query was asked
\* or has the last leaf.
LEMMA AnswerFits ==
  ASSUME NEW t, Asked(t), NEW n \in 1 .. Highest,
         task[t].began <= n \/ task[t].args.end < FirstFree(n, task[t].args.tree)
  PROVE  TaskInv(t, Done(t, Answer(n, task[t].args)))
  <1> DEFINE tree == task[t].args.tree
             a == task[t].args.start
             e == task[t].args.end
             x == Answer(n, task[t].args)
             r == Done(t, x)
             began == task[t].began
             T == TreeAt(n, tree)
             N == TreeAt(Highest, tree)
  <1>1. /\ tree \in Trees /\ a \in Nat /\ e \in Nat /\ began \in 0 .. Highest /\ ChainFacts /\ Highest \in Nat
    BY AskedFacts, Zenon DEF ChainFacts
  <1>2. Highest \in 1 .. Highest /\ n <= Highest /\ Highest > 0
    BY <1>1
  <1>3. /\ T \in Seq(Leaf(tree)) /\ N \in Seq(Leaf(tree)) /\ Len(T) \in Nat /\ Len(N) \in Nat
        /\ Len(T) = FirstFree(n, tree) /\ Len(N) = FirstFree(Highest, tree)
        /\ Outgrows(tree, N, T)
    BY <1>1, <1>2 DEF ChainFacts, FirstFree
  <1>4. x = IF a > e \/ e >= FirstFree(n, tree) THEN Err ELSE CollapsedUpdate(n, tree, a, e)
    BY DEF Answer
  <1>5. /\ r.got[1] = x /\ r.args.tree = tree /\ r.args.start = a /\ r.args.end = e /\ r.began = began
    BY DoneFacts
  <1>6. task[t].began <= n \/ e < FirstFree(n, tree)
    OBVIOUS
  <1>7. FitsInv(r) => TaskInv(t, r)
    BY DoneFacts
  <1>8. a \in Nat /\ e \in Nat /\ CollapsedUpdate(n, tree, a, e)
           = [start |-> a, end |-> e, leaves |-> SubSeq(T, a + 1, e + 1)]
    BY <1>1 DEF CollapsedUpdate
  <1> SUFFICES FitsInv(r)
    BY <1>7
  <1> HIDE DEF tree, a, e, x, r, T, N
  <1>9. CASE x = Err
    <2>1. a > e \/ e >= FirstFree(n, tree)
      <3> SUFFICES ASSUME ~(a > e \/ e >= FirstFree(n, tree)) PROVE FALSE
        OBVIOUS
      <3>1. x = [start |-> a, end |-> e, leaves |-> SubSeq(T, a + 1, e + 1)]
        BY <1>4, <1>8
      <3>2. a + 1 \in Int /\ e + 1 \in Int /\ \A i \in a + 1 .. e + 1 : T[i] \in Leaf(tree)
        BY <1>1, <1>3
      <3>3. SubSeq(T, a + 1, e + 1) \in Seq(Leaf(tree))
        BY <3>2, SubSeqIsSeq
      <3>4. x \in UpdatesOf(tree)
        BY <1>1, <3>1, <3>3 DEF UpdatesOf
      <3> QED
        BY <1>1, <1>9, <3>4, ResultsAreDistinct
    <2>2. ~(began > 0 /\ a <= e /\ e < FirstFree(began, tree))
      <3> SUFFICES ASSUME began > 0, a <= e, e < FirstFree(began, tree) PROVE FALSE
        OBVIOUS
      <3>1. began \in 1 .. Highest
        BY <1>1
      <3>2. began <= n
        BY <1>1, <1>3, <1>6, <2>1
      <3>3. FirstFree(began, tree) <= FirstFree(n, tree) /\ FirstFree(began, tree) \in Nat
        BY <1>1, <3>1, <3>2 DEF ChainFacts
      <3> QED
        BY <1>1, <1>3, <2>1, <3>3
    <2> QED
      BY <1>5, <1>9, <2>2, ResultsAreDistinct DEF FitsInv
  <1>10. CASE x # Err
    <2>1. a <= e /\ e < Len(T) /\ x = [start |-> a, end |-> e, leaves |-> SubSeq(T, a + 1, e + 1)]
      BY <1>1, <1>3, <1>4, <1>8, <1>10
    <2>2. a + 1 \in Int /\ e + 1 \in Int /\ a + 1 <= e + 1 /\ \A i \in a + 1 .. e + 1 : T[i] \in Leaf(tree)
      <3>1. /\ a + 1 \in Int /\ e + 1 \in Int /\ a + 1 <= e + 1
            /\ \A i \in a + 1 .. e + 1 : i \in 1 .. Len(T)
        BY <1>3, <1>8, <2>1
      <3>2. \A i \in 1 .. Len(T) : T[i] \in Leaf(tree)
        BY <1>3
      <3> QED
        BY <3>1, <3>2, Zenon
    <2> DEFINE L == SubSeq(T, a + 1, e + 1)
    <2>3. /\ L \in Seq(Leaf(tree)) /\ Len(L) = e - a + 1
          /\ \A k \in 1 .. (e - a + 1) : L[k] = T[a + k]
      <3>1. /\ L \in Seq(Leaf(tree))
            /\ Len(L) = IF a + 1 <= e + 1 THEN (e + 1) - (a + 1) + 1 ELSE 0
            /\ \A k \in 1 .. (e + 1) - (a + 1) + 1 : L[k] = T[(a + 1) + k - 1]
        BY <2>2, SubSeqIsSeq
      <3>2. (e + 1) - (a + 1) + 1 = e - a + 1 /\ \A k \in 1 .. (e - a + 1) : (a + 1) + k - 1 = a + k
        BY <1>1
      <3> HIDE DEF L
      <3> QED
        BY <2>2, <3>1, <3>2, ZenonT(30)
    <2>4. x \in UpdatesOf(tree) /\ x.leaves = L
      BY <1>1, <2>1, <2>3 DEF UpdatesOf
    <2>5. x \notin {Err, Panic}
      BY <1>1, <1>10, <2>4, ResultsAreDistinct
    <2> HIDE DEF L
    <2>6. ASSUME NEW k \in 1 .. (e - a + 1) PROVE Rewritten(tree, x.leaves[k], N[a + k])
      <3>1. a + k \in 1 .. Len(T)
        BY <1>1, <1>3, <2>1
      <3>2. Rewritten(tree, T[a + k], N[a + k])
        BY <1>3, <3>1 DEF Outgrows
      <3> QED
        BY <2>3, <2>4, <3>2
    <2>7. e < Len(N)
      BY <1>1, <1>3, <2>1 DEF Outgrows
    <2> QED
      BY <1>2, <1>3, <1>5, <2>1, <2>3, <2>4, <2>5, <2>6, <2>7, ZenonT(30) DEF FitsInv, N
  <1> QED
    BY <1>9, <1>10

\* A panic needs a state that was collected, so there are Retention newer ones.
LEMMA PanicFits ==
  ASSUME NEW t, Asked(t), NEW n \in 1 .. Highest, n <= culled,
         task[t].began <= n \/ task[t].args.end < FirstFree(n, task[t].args.tree)
  PROVE  TaskInv(t, Done(t, Panic))
  <1> DEFINE tree == task[t].args.tree
             e == task[t].args.end
             r == Done(t, Panic)
             began == task[t].began
             old == Highest - Retention
  <1>1. /\ tree \in Trees /\ e \in Nat /\ began \in 0 .. Highest /\ ChainInv /\ ChainFacts /\ Highest \in Nat
    BY AskedFacts, Zenon DEF ChainFacts
  <1>2. r.got[1] = Panic /\ r.args.tree = tree /\ r.args.end = e /\ r.began = began
    BY DoneFacts
  <1>3. /\ old \in 1 .. Highest /\ n <= old
    <2>1. Retention \in Nat /\ (culled > 0 => culled <= old) /\ culled \in Nat
      BY <1>1, RetentionExceedsAge, Zenon DEF ChainInv
    <2> QED
      BY <1>1, <2>1
  <1>4. FirstFree(n, tree) <= FirstFree(old, tree) /\ FirstFree(n, tree) \in Nat /\ FirstFree(old, tree) \in Nat
    BY <1>1, <1>3 DEF ChainFacts
  <1>5. old > 0 /\ (e < FirstFree(old, tree) \/ began <= old)
    BY <1>1, <1>3, <1>4
  <1>6. FitsInv(r)
    BY <1>2, <1>5, ResultsAreDistinct, ZenonT(30) DEF FitsInv
  <1> QED
    BY <1>6, DoneFacts

\* A query moves on without an answer.
LEMMA QueryMoves ==
  ASSUME NEW t, Asked(t), NEW r, DOMAIN r = Fields,
         r.args = task[t].args, r.began = task[t].began, r.got = task[t].got,
         \/ r.pc \in {"check", "lock", "key"} /\ Highest > 0
         \/ r.pc = "loading" /\ Highest > 0 /\ r.snapshot = Highest
  PROVE  TaskInv(t, r)
  <1>1. QueryInv(t, task[t]) /\ task[t].began \in 0 .. Highest /\ Highest \in Nat
    BY AskedFacts DEF ChainFacts
  <1>2. r.got # <<>> => FitsInv(r)
    BY <1>1, ZenonT(30) DEF QueryInv, FitsInv
  <1>3. r.pc = "loading" => r.snapshot \in 1 .. Highest /\ r.began <= r.snapshot
    BY <1>1
  <1>4. QueryInv(t, r)
    BY <1>1, <1>2, <1>3 DEF QueryInv, Asked
  <1> QED
    BY <1>4 DEF TaskInv, Asked

LEMMA QueryStep ==
  ASSUME ReadInv, NEW t \in cast.tasks, AskVersion(t) \/ CachedUpdate(t)
  PROVE  ReadInv'
  <1>1. task[t].pc \in {"ask", "check", "lock", "key", "loading"}
    BY DEF AskVersion, CachedUpdate, CheckCache, LockCache, ReadKey, LoadState, At
  <1>2. Asked(t)
    <2>1. TaskInv(t, task[t])
      BY DEF ReadInv
    <2>2. t.kind = "update"
      BY <1>1, <2>1 DEF TaskInv, Streaming
    <2> QED
      BY <1>1, <2>2 DEF Asked
  <1>3. /\ DOMAIN task = cast.tasks /\ DOMAIN task[t] = Fields /\ QueryInv(t, task[t])
        /\ task[t].args.tree \in Trees /\ task[t].args.start \in Nat /\ task[t].args.end \in Nat
        /\ task[t].began \in 0 .. Highest /\ ChainInv /\ ChainFacts /\ Highest \in Nat
    BY <1>2, AskedFacts DEF ChainFacts
  <1>4. cache = None \/ cache \in 1 .. Highest
    BY DEF ReadInv
  <1>5. ASSUME NEW r, TaskInv(t, r), Step(t, r) PROVE ReadInv'
    BY <1>4, <1>5, OneTask, Zenon DEF Step, Rest
  <1>6. ASSUME NEW x, task' = [task EXCEPT ![t].pc = "done", ![t].got = <<x>>], TaskInv(t, Done(t, x)),
               UNCHANGED <<quotas, cast, blocks, culled>>, cache' = None \/ cache' \in 1 .. Highest
        PROVE  ReadInv'
    <2>1. task' = [task EXCEPT ![t] = Done(t, x)]
      BY <1>3, <1>6, Zenon DEF Done, Fields
    <2> QED
      BY <1>6, <2>1, OneTask, Zenon
  <1>7. ASSUME NEW n \in 1 .. Highest,
               task[t].began <= n \/ task[t].args.end < FirstFree(n, task[t].args.tree),
               Answers(t, n) \/ Panics(t, n), cache' = None \/ cache' \in 1 .. Highest
        PROVE  ReadInv'
    <2>1. CASE Panics(t, n)
      <3>1. TaskInv(t, Done(t, Panic))
        BY <1>2, <1>7, <2>1, PanicFits DEF Panics
      <3> QED
        BY <1>6, <1>7, <2>1, <3>1, Zenon DEF Panics
    <2>2. CASE Answers(t, n) /\ ~Panics(t, n)
      <3>1. TaskInv(t, Done(t, Answer(n, task[t].args)))
        BY <1>2, <1>7, AnswerFits
      <3> QED
        BY <1>6, <1>7, <2>2, <3>1 DEF Answers
    <2> QED
      BY <1>7, <2>1, <2>2
  <1>8. ~Stale(task[t].args.tree, task[t].args.end)
          => cache \in 1 .. Highest /\ task[t].args.end < FirstFree(cache, task[t].args.tree)
    <2> SUFFICES ASSUME ~Stale(task[t].args.tree, task[t].args.end)
                 PROVE  cache \in 1 .. Highest /\ task[t].args.end < FirstFree(cache, task[t].args.tree)
      OBVIOUS
    <2>1. ~(task[t].args.end >= FirstFree(cache, task[t].args.tree))
      BY DEF Stale
    <2>2. CASE cache = None
      <3>1. FirstFree(cache, task[t].args.tree) = 0
        BY <2>2 DEF FirstFree, TreeAt
      <3> QED
        BY <1>3, <2>1, <3>1
    <2>3. CASE cache \in 1 .. Highest
      <3>1. FirstFree(cache, task[t].args.tree) \in Nat
        BY <1>3, <2>3 DEF ChainFacts
      <3> QED
        BY <1>3, <2>1, <2>3, <3>1
    <2> QED
      BY <1>4, <2>2, <2>3
  <1>9. task[t].pc # "ask" => Highest > 0
    BY <1>1, <1>3 DEF QueryInv
  <1>10. CASE AskVersion(t)
    <2>1. CASE Highest = 0
      <3>1. FitsInv(Done(t, Err))
        <4> DEFINE r == Done(t, Err)
        <4>1. r.got[1] = Err /\ r.began = task[t].began
          BY <1>2, DoneFacts
        <4> HIDE DEF r
        <4>2. ~(r.began > 0) /\ Err # Panic
          BY <1>3, <2>1, <4>1, ResultsAreDistinct
        <4>3. FitsInv(r)
          BY <4>1, <4>2 DEF FitsInv
        <4> QED
          BY <4>3 DEF r
      <3>2. TaskInv(t, Done(t, Err))
        BY <1>2, <3>1, DoneFacts, Zenon
      <3> QED
        BY <1>5, <1>10, <2>1, <3>2 DEF AskVersion, Done
    <2>2. CASE Highest # 0
      <3> DEFINE r == [task[t] EXCEPT !.pc = "check"]
      <3>1. /\ DOMAIN r = Fields /\ r.pc = "check" /\ r.args = task[t].args /\ r.began = task[t].began
            /\ r.got = task[t].got
        BY <1>3 DEF Fields
      <3>2. Highest > 0
        BY <1>3, <2>2
      <3>3. Step(t, r)
        BY <1>10, <2>2 DEF AskVersion
      <3> HIDE DEF r
      <3>4. TaskInv(t, r)
        BY <1>2, <3>1, <3>2, QueryMoves, ZenonT(30)
      <3> QED
        BY <1>5, <3>3, <3>4
    <2> QED
      BY <2>1, <2>2
  <1>11. CASE CheckCache(t)
    <2>0. Highest > 0
      BY <1>9, <1>11 DEF CheckCache, At
    <2>1. CASE Stale(task[t].args.tree, task[t].args.end)
      <3> DEFINE r == [task[t] EXCEPT !.pc = "lock"]
      <3>1. /\ DOMAIN r = Fields /\ r.pc = "lock" /\ r.args = task[t].args /\ r.began = task[t].began
            /\ r.got = task[t].got
        BY <1>3 DEF Fields
      <3>2. Step(t, r)
        BY <1>11, <2>1 DEF CheckCache
      <3> HIDE DEF r
      <3>3. TaskInv(t, r)
        BY <1>2, <2>0, <3>1, QueryMoves
      <3> QED
        BY <1>5, <3>2, <3>3
    <2>2. CASE ~Stale(task[t].args.tree, task[t].args.end)
      BY <1>4, <1>7, <1>8, <1>11, <2>2 DEF CheckCache
    <2> QED
      BY <2>1, <2>2, Zenon
  <1>12. CASE LockCache(t)
    <2>0. Highest > 0
      BY <1>9, <1>12 DEF LockCache, At
    <2>1. CASE Stale(task[t].args.tree, task[t].args.end)
      <3> DEFINE r == [task[t] EXCEPT !.pc = "key"]
      <3>1. /\ DOMAIN r = Fields /\ r.pc = "key" /\ r.args = task[t].args /\ r.began = task[t].began
            /\ r.got = task[t].got
        BY <1>3 DEF Fields
      <3>2. task' = [task EXCEPT ![t] = r] /\ UNCHANGED <<cast, blocks, culled>> /\ cache' = cache
        BY <1>12, <2>1 DEF LockCache, Goes
      <3> HIDE DEF r
      <3>3. TaskInv(t, r)
        BY <1>2, <2>0, <3>1, QueryMoves, Zenon
      <3> QED
        BY <1>4, <3>2, <3>3, OneTask, ZenonT(30)
    <2>2. CASE ~Stale(task[t].args.tree, task[t].args.end)
      BY <1>4, <1>7, <1>8, <1>12, <2>2 DEF LockCache
    <2> QED
      BY <2>1, <2>2
  <1>13. CASE ReadKey(t)
    <2> DEFINE r == [task[t] EXCEPT !.pc = "loading", !.snapshot = Highest]
    <2>1. /\ DOMAIN r = Fields /\ r.pc = "loading" /\ r.args = task[t].args /\ r.began = task[t].began
          /\ r.got = task[t].got /\ r.snapshot = Highest
      BY <1>3 DEF Fields
    <2>2. Step(t, r) /\ Highest > 0
      BY <1>9, <1>13 DEF ReadKey, At
    <2> HIDE DEF r
    <2>3. TaskInv(t, r)
      BY <1>2, <2>1, <2>2, QueryMoves, Zenon
    <2> QED
      BY <1>5, <2>2, <2>3
  <1>14. CASE LoadState(t)
    <2>1. task[t].snapshot \in 1 .. Highest /\ task[t].began <= task[t].snapshot
      BY <1>3, <1>14 DEF LoadState, At, QueryInv
    <2> QED
      BY <1>4, <1>7, <1>14, <2>1, Zenon DEF LoadState
  <1> QED
    BY <1>10, <1>11, <1>12, <1>13, <1>14 DEF CachedUpdate

------------------------------------------------------------------------------
(* Subscriptions.                                                          *)

LEMMA StepRead ==
  ASSUME ReadInv, NEW t \in cast.tasks, NEW r, TaskInv(t, r), task' = [task EXCEPT ![t] = r], Rest
  PROVE  ReadInv'
  <1>1. cache' = None \/ cache' \in 1 .. Highest
    BY DEF ReadInv, Rest
  <1> QED
    BY <1>1, OneTask, ZenonT(30) DEF Rest

\* A dustGenerations subscription that has not ended.
Open(t) ==
  ReadInv /\ t \in cast.tasks /\ t.kind = "dust" /\ task[t].pc \in {"acquire", "counted"} \cup Streaming

LEMMA OpenFacts ==
  ASSUME NEW t, Open(t)
  PROVE  /\ DOMAIN task = cast.tasks /\ DOMAIN task[t] = Fields /\ SnapshotInv(t, task[t])
         /\ task[t].pc \notin {"idle", "done"}
         /\ task[t].args \in t.args /\ task[t].args.block \in Nat \ {0}
         /\ task[t].began \in 0 .. Highest /\ task[t].cursor \in Nat
         /\ task[t].got \in Seq(Events) /\ task[t].buffer \in Seq(Nat)
         /\ task[t].pc # "entries" => task[t].buffer = <<>>
         /\ ChainInv /\ ChainFacts /\ Highest \in Nat
  <1>1. TaskInv(t, task[t]) /\ cast \in Casts /\ ChainInv /\ DOMAIN task = cast.tasks
    BY DEF Open, ReadInv
  <1>2. task[t].pc \notin {"idle", "done"}
    BY DEF Open, Streaming
  <1>3. DOMAIN task[t] = Fields /\ SnapshotInv(t, task[t])
    BY <1>1, <1>2 DEF Open, TaskInv
  <1>4. /\ task[t].args \in t.args /\ task[t].began \in 0 .. Highest /\ task[t].cursor \in Nat
        /\ task[t].got \in Seq(Events) /\ task[t].buffer \in Seq(Nat)
        /\ task[t].pc # "entries" => task[t].buffer = <<>>
    BY <1>2, <1>3 DEF SnapshotInv
  <1>5. task[t].args.block \in Nat \ {0}
    BY <1>1, <1>4, Requests DEF Open
  <1>6. ChainFacts /\ Highest \in Nat
    BY <1>1, ChainTrees, Zenon DEF ChainFacts
  <1> QED
    BY <1>1, <1>2, <1>3, <1>4, <1>5, <1>6, Zenon

\* It goes on with what it has read.
LEMMA OpenMoves ==
  ASSUME NEW t, Open(t), NEW r, DOMAIN r = Fields,
         r.pc \in {"acquire", "counted"} \cup Streaming, r.args = task[t].args, r.began \in 0 .. Highest,
         r.got \in Seq(Events), r.cursor \in Nat, r.buffer \in Seq(Nat),
         r.pc \in {"age"} \cup Accepted => r.snapshot \in 1 .. Highest,
         r.pc \in Accepted => r.began \in 1 .. Highest /\ r.began - r.snapshot <= MaxSnapshotAge,
         \/ r.buffer = <<>>
         \/ r.pc = "entries" /\ \A k \in DOMAIN r.buffer : r.buffer[k] <= FirstFree(r.snapshot, "generations")
  PROVE  TaskInv(t, r)
  <1>1. task[t].args \in t.args
    BY OpenFacts
  <1>2. r.got # <<>> => r.got[Len(r.got)] \in Events
    OBVIOUS
  <1>3. Served(r)
    BY <1>2, ResultsAreDistinct DEF Served
  <1>4. SnapshotInv(t, r)
    BY <1>1, <1>3 DEF SnapshotInv
  <1>5. r.pc # "idle"
    BY DEF Streaming
  <1> QED
    BY <1>4, <1>5 DEF TaskInv, Open

\* A subscription ends with an item, which is a panic only if the chain has grown
\* enough since it was accepted.
LEMMA EndRead ==
  ASSUME ReadInv, NEW t \in cast.tasks, task[t].pc \in Streaming, NEW x, Ends(t, <<x>>),
         t.kind = "dust" /\ x = Panic => Highest - task[t].began >= Retention - MaxSnapshotAge
  PROVE  ReadInv'
  <1> DEFINE r == [task[t] EXCEPT !.pc = "done", !.got = @ \o <<x>>]
  <1>1. TaskInv(t, task[t]) /\ DOMAIN task = cast.tasks
    BY DEF ReadInv
  <1>2. task[t].pc # "idle" /\ DOMAIN task[t] = Fields /\ t.kind # "update"
    BY <1>1 DEF TaskInv, QueryInv, Streaming
  <1>3. /\ DOMAIN r = Fields /\ r.pc = "done" /\ r.began = task[t].began /\ r.got = task[t].got \o <<x>>
    BY <1>2 DEF Fields
  <1>4. task' = [task EXCEPT ![t] = r] /\ Rest
    BY <1>1, <1>2, ZenonT(30) DEF Ends, Fields
  <1> HIDE DEF r
  <1>5. t.kind = "dust" => SnapshotInv(t, r)
    <2> SUFFICES ASSUME t.kind = "dust" PROVE SnapshotInv(t, r)
      OBVIOUS
    <2>1. Open(t)
      BY DEF Open
    <2>2. task[t].got \in Seq(Events) /\ task[t].began \in 0 .. Highest
      BY <2>1, OpenFacts
    <2>3. r.got # <<>> /\ r.got[Len(r.got)] = x
      <3> DEFINE got == task[t].got
      <3>1. got \in Seq(Events \cup {x}) /\ <<x>> \in Seq(Events \cup {x}) /\ Len(<<x>>) = 1 /\ <<x>>[1] = x
        BY <2>2
      <3> HIDE DEF got
      <3>2. /\ Len(got \o <<x>>) = Len(got) + 1 /\ Len(got) \in Nat
            /\ got \o <<x>> \in Seq(Events \cup {x}) /\ (got \o <<x>>)[Len(got) + 1] = x
        BY <3>1
      <3> QED
        BY <1>3, <3>2 DEF got
    <2>4. Served(r)
      BY <1>3, <2>3 DEF Served
    <2> QED
      BY <1>3, <2>2, <2>4 DEF SnapshotInv, Accepted
  <1>6. TaskInv(t, r)
    BY <1>2, <1>3, <1>5 DEF TaskInv
  <1> QED
    BY <1>4, <1>6, StepRead, Zenon

\* A state that was collected was too old when the snapshot was accepted, but for
\* the blocks saved since.
LEMMA PanicRead ==
  ASSUME NEW t, Open(t), task[t].pc \in Accepted, task[t].snapshot <= culled, Ends(t, <<Panic>>)
  PROVE  ReadInv'
  <1> DEFINE n == task[t].snapshot
             b == task[t].began
  <1>1. n \in 1 .. Highest /\ b \in 1 .. Highest /\ b - n <= MaxSnapshotAge /\ Highest \in Nat
    BY OpenFacts, ZenonT(30) DEF SnapshotInv
  <1>2. culled \in Nat /\ (culled > 0 => culled <= Highest - Retention) /\ n <= culled
    BY OpenFacts DEF ChainInv
  <1>3. Retention \in Nat /\ MaxSnapshotAge \in Nat
    BY RetentionExceedsAge
  <1>4. Highest - b >= Retention - MaxSnapshotAge
    <2> HIDE DEF n, b
    <2> QED
      BY <1>1, <1>2, <1>3
  <1> QED
    BY <1>4, EndRead DEF Open, Accepted, Streaming

LEMMA AskRead ==
  ASSUME ReadInv, NEW t \in cast.tasks, Ask(t)
  PROVE  ReadInv'
  <1>1. PICK args \in t.args : task' = [task EXCEPT ![t] =
         [pc |-> IF t.kind = "update" THEN "ask" ELSE "acquire", args |-> args, began |-> Highest,
          snapshot |-> None, cutoff |-> 0, cursor |-> 0, after |-> 0, buffer |-> <<>>, got |-> <<>>]]
    BY ZenonT(30) DEF Ask
  <1> DEFINE r == [pc |-> IF t.kind = "update" THEN "ask" ELSE "acquire", args |-> args, began |-> Highest,
                   snapshot |-> None, cutoff |-> 0, cursor |-> 0, after |-> 0, buffer |-> <<>>, got |-> <<>>]
  <1>2. Highest \in 0 .. Highest
    BY ChainTrees DEF ReadInv, ChainFacts
  <1>3. /\ DOMAIN r = Fields /\ r.pc = (IF t.kind = "update" THEN "ask" ELSE "acquire")
        /\ r.args = args /\ r.began = Highest /\ r.cursor = 0 /\ r.buffer = <<>> /\ r.got = <<>>
    BY DEF Fields
  <1>4. task' = [task EXCEPT ![t] = r] /\ Rest
    BY <1>1, ZenonT(30) DEF Ask
  <1> HIDE DEF r
  <1>5. t.kind = "update" => QueryInv(t, r)
    BY <1>2, <1>3 DEF QueryInv
  <1>6. t.kind = "dust" => SnapshotInv(t, r)
    <2> SUFFICES ASSUME t.kind = "dust" PROVE SnapshotInv(t, r)
      OBVIOUS
    <2>1. r.pc = "acquire" /\ r.pc \notin {"age"} \cup Accepted
      BY <1>3 DEF Accepted
    <2>2. r.got \in Seq(Events) /\ r.buffer \in Seq(Nat) /\ r.cursor \in Nat
      BY <1>3
    <2>3. Served(r)
      BY <1>3 DEF Served
    <2> QED
      BY <1>2, <1>3, <2>1, <2>2, <2>3, Zenon DEF SnapshotInv
  <1>7. TaskInv(t, r)
    BY <1>3, <1>5, <1>6 DEF TaskInv
  <1> QED
    BY <1>4, <1>7, StepRead, Zenon

\* The quotas admit a subscription or refuse it.
LEMMA AcquireRead ==
  ASSUME ReadInv, NEW t \in cast.tasks, Acquire(t) \/ AcquireToken(t)
  PROVE  ReadInv'
  <1>1. PICK pc \in {"counted", "running", "done"} : Goes(t, pc)
    BY DEF Acquire, AcquireToken
  <1>2. Rest /\ task[t].pc \in {"acquire", "counted"}
    BY DEF Acquire, AcquireToken, At
  <1> DEFINE r == [task[t] EXCEPT !.pc = pc]
  <1>3. TaskInv(t, task[t]) /\ DOMAIN task = cast.tasks
    BY DEF ReadInv
  <1>4. DOMAIN task[t] = Fields /\ t.kind # "update"
    BY <1>2, <1>3 DEF TaskInv, QueryInv
  <1>5. /\ DOMAIN r = Fields /\ r.pc = pc /\ r.args = task[t].args /\ r.began = task[t].began
        /\ r.got = task[t].got /\ r.cursor = task[t].cursor /\ r.buffer = task[t].buffer
    BY <1>4 DEF Fields
  <1>6. task' = [task EXCEPT ![t] = r]
    BY <1>1 DEF Goes
  <1> HIDE DEF r
  <1>7. t.kind = "dust" => SnapshotInv(t, r)
    <2> SUFFICES ASSUME t.kind = "dust" PROVE SnapshotInv(t, r)
      OBVIOUS
    <2>1. SnapshotInv(t, task[t]) /\ task[t].buffer = <<>> /\ task[t].pc \notin {"idle", "done"}
      BY <1>2, OpenFacts DEF Open
    <2>2. r.pc \notin {"age", "idle"} \cup Accepted
      BY <1>5 DEF Accepted
    <2>3. Served(r)
      BY <1>5, <2>1 DEF SnapshotInv, Served
    <2> QED
      BY <1>5, <2>1, <2>2, <2>3, ZenonT(30) DEF SnapshotInv
  <1>8. TaskInv(t, r)
    BY <1>4, <1>5, <1>7 DEF TaskInv, Streaming
  <1> QED
    BY <1>2, <1>6, <1>8, StepRead, ZenonT(30)

LEMMA DisconnectRead ==
  ASSUME ReadInv, NEW t \in cast.tasks, Disconnect(t)
  PROVE  ReadInv'
  BY EndRead, ResultsAreDistinct DEF Disconnect

\* The steps to the snapshot.
LEMMA SnapshotRead ==
  ASSUME ReadInv, NEW t \in cast.tasks,
         FindBlock(t) \/ CheckAge(t) \/ CheckLoadable(t) \/ LoadSnapshot(t) \/ FindCutoff(t)
  PROVE  ReadInv'
  <1>1. Open(t) /\ task[t].pc \in Streaming
    BY DEF Open, FindBlock, CheckAge, CheckLoadable, LoadSnapshot, FindCutoff, Is, At, Streaming
  <1>2. /\ DOMAIN task[t] = Fields /\ SnapshotInv(t, task[t])
        /\ task[t].args.block \in Nat \ {0} /\ task[t].began \in 0 .. Highest /\ task[t].cursor \in Nat
        /\ task[t].got \in Seq(Events) /\ task[t].buffer \in Seq(Nat)
        /\ task[t].pc # "entries" => task[t].buffer = <<>>
        /\ Highest \in Nat
    BY <1>1, OpenFacts
  <1>3. Ends(t, <<Err>>) => ReadInv'
    BY <1>1, EndRead, ResultsAreDistinct, ZenonT(30)
  <1>4. ASSUME NEW r, TaskInv(t, r), Step(t, r) PROVE ReadInv'
    BY <1>4, StepRead, Zenon DEF Step
  <1>5. CASE FindBlock(t)
    <2>1. CASE task[t].args.block > Highest
      BY <1>3, <1>5, <2>1 DEF FindBlock
    <2>2. CASE ~(task[t].args.block > Highest)
      <3> DEFINE r == [task[t] EXCEPT !.pc = "age", !.snapshot = task[t].args.block]
      <3>1. /\ DOMAIN r = Fields /\ r.pc = "age" /\ r.args = task[t].args /\ r.began = task[t].began
            /\ r.got = task[t].got /\ r.cursor = task[t].cursor /\ r.buffer = task[t].buffer
            /\ r.snapshot = task[t].args.block
        BY <1>2 DEF Fields
      <3>2. Step(t, r) /\ task[t].pc # "entries"
        BY <1>5, <2>2, Zenon DEF FindBlock, Is, At
      <3> HIDE DEF r
      <3>3. r.snapshot \in 1 .. Highest
        BY <1>2, <2>2, <3>1
      <3>4. TaskInv(t, r)
        BY <1>1, <1>2, <3>1, <3>2, <3>3, OpenMoves, ZenonT(30) DEF Accepted, Streaming
      <3> QED
        BY <1>4, <3>2, <3>4, Zenon
    <2> QED
      BY <2>1, <2>2
  <1>6. CASE CheckAge(t)
    <2>1. CASE ~Fresh(task[t].snapshot)
      BY <1>3, <1>6, <2>1 DEF CheckAge
    <2>2. CASE Fresh(task[t].snapshot)
      <3> DEFINE r == [task[t] EXCEPT !.pc = "loadable", !.began = Highest]
      <3>1. /\ DOMAIN r = Fields /\ r.pc = "loadable" /\ r.args = task[t].args /\ r.began = Highest
            /\ r.got = task[t].got /\ r.cursor = task[t].cursor /\ r.buffer = task[t].buffer
            /\ r.snapshot = task[t].snapshot
        BY <1>2 DEF Fields
      <3>2. Step(t, r) /\ task[t].pc = "age"
        BY <1>6, <2>2 DEF CheckAge, Is, At
      <3>3. task[t].snapshot \in 1 .. Highest
        BY <1>2, <3>2, Zenon DEF SnapshotInv
      <3> HIDE DEF r
      <3>4. r.began \in 1 .. Highest /\ r.began \in 0 .. Highest /\ r.began - r.snapshot <= MaxSnapshotAge
        BY <1>2, <2>2, <3>1, <3>3 DEF Fresh
      <3>5. TaskInv(t, r)
        BY <1>1, <1>2, <3>1, <3>2, <3>3, <3>4, OpenMoves, ZenonT(30) DEF Streaming
      <3> QED
        BY <1>4, <3>2, <3>5
    <2> QED
      BY <2>1, <2>2
  <1>7. ASSUME NEW r, DOMAIN r = Fields, r.pc \in Accepted, task[t].pc \in Accepted,
               task[t].pc # "entries",
               r.args = task[t].args, r.began = task[t].began, r.got = task[t].got,
               r.cursor = task[t].cursor, r.buffer = task[t].buffer, r.snapshot = task[t].snapshot
        PROVE  TaskInv(t, r)
    <2>1. /\ r.snapshot \in 1 .. Highest
          /\ r.began \in 1 .. Highest /\ r.began - r.snapshot <= MaxSnapshotAge
      BY <1>2, <1>7, ZenonT(30) DEF SnapshotInv
    <2>2. r.pc \in Streaming
      BY <1>7 DEF Accepted, Streaming
    <2> QED
      BY <1>1, <1>2, <1>7, <2>1, <2>2, OpenMoves, ZenonT(30)
  <1>8. CASE CheckLoadable(t)
    <2>1. CASE task[t].snapshot <= culled
      BY <1>3, <1>8, <2>1 DEF CheckLoadable
    <2>2. CASE ~(task[t].snapshot <= culled)
      <3> DEFINE r == [task[t] EXCEPT !.pc = "load"]
      <3>1. /\ DOMAIN r = Fields /\ r.pc = "load" /\ r.args = task[t].args /\ r.began = task[t].began
            /\ r.got = task[t].got /\ r.cursor = task[t].cursor /\ r.buffer = task[t].buffer
            /\ r.snapshot = task[t].snapshot
        BY <1>2 DEF Fields
      <3>2. Step(t, r) /\ task[t].pc = "loadable"
        BY <1>8, <2>2 DEF CheckLoadable, Is, At
      <3> HIDE DEF r
      <3>3. TaskInv(t, r)
        BY <1>7, <3>1, <3>2 DEF Accepted
      <3> QED
        BY <1>4, <3>2, <3>3, Zenon
    <2> QED
      BY <2>1, <2>2
  <1>9. CASE LoadSnapshot(t)
    <2>0. task[t].pc = "load"
      BY <1>9 DEF LoadSnapshot, Is, At
    <2>1. CASE task[t].snapshot <= culled /\ Ends(t, <<Panic>>)
      BY <1>1, <2>0, <2>1, PanicRead, Zenon DEF Accepted
    <2>2. CASE Step(t, [task[t] EXCEPT !.pc = "cutoff"])
      <3> DEFINE r == [task[t] EXCEPT !.pc = "cutoff"]
      <3>1. /\ DOMAIN r = Fields /\ r.pc = "cutoff" /\ r.args = task[t].args /\ r.began = task[t].began
            /\ r.got = task[t].got /\ r.cursor = task[t].cursor /\ r.buffer = task[t].buffer
            /\ r.snapshot = task[t].snapshot
        BY <1>2 DEF Fields
      <3>2. Step(t, r)
        BY <2>2
      <3> HIDE DEF r
      <3>3. TaskInv(t, r)
        BY <1>7, <2>0, <3>1 DEF Accepted
      <3> QED
        BY <1>4, <3>2, <3>3
    <2> QED
      BY <1>9, <2>1, <2>2 DEF LoadSnapshot, Reads
  <1>10. CASE FindCutoff(t)
    <2> DEFINE r == [task[t] EXCEPT !.pc = "dtimes", !.cutoff = CutoffBlockId(task[t].args.cutoff)]
    <2>1. /\ DOMAIN r = Fields /\ r.pc = "dtimes" /\ r.args = task[t].args /\ r.began = task[t].began
          /\ r.got = task[t].got /\ r.cursor = task[t].cursor /\ r.buffer = task[t].buffer
          /\ r.snapshot = task[t].snapshot
      BY <1>2 DEF Fields
    <2>2. Step(t, r) /\ task[t].pc = "cutoff"
      BY <1>10 DEF FindCutoff, Is, At
    <2> HIDE DEF r
    <2>3. TaskInv(t, r)
      BY <1>7, <2>1, <2>2, Zenon DEF Accepted
    <2> QED
      BY <1>4, <2>2, <2>3
  <1> QED
    BY <1>5, <1>6, <1>8, <1>9, <1>10, Zenon

\* A subscription that reads from its snapshot.
Reading(t) == Open(t) /\ task[t].pc \in Accepted

LEMMA ReadingFacts ==
  ASSUME NEW t, Reading(t)
  PROVE  /\ task[t].snapshot \in 1 .. Highest /\ EndIndex(t) \in Nat /\ LastIndex(t) \in Nat
         /\ LastIndex(t) <= EndIndex(t)
         /\ EndIndex(t) > 0 => LastIndex(t) = EndIndex(t) - 1
         /\ EndIndex(t) = FirstFree(task[t].snapshot, "generations")
         /\ TreeAt(task[t].snapshot, "generations") \in Seq(Generation)
         /\ Len(TreeAt(task[t].snapshot, "generations")) = EndIndex(t)
         /\ \A k \in DOMAIN task[t].buffer : task[t].buffer[k] <= EndIndex(t)
  <1> DEFINE n == task[t].snapshot
  <1>1. n \in 1 .. Highest /\ ChainFacts
    BY OpenFacts DEF Reading, SnapshotInv
  <1>2. /\ FirstFree(n, "generations") \in Nat /\ TreeAt(n, "generations") \in Seq(Leaf("generations"))
        /\ FirstFree(n, "generations") = Len(TreeAt(n, "generations"))
    BY <1>1 DEF ChainFacts, Trees, FirstFree
  <1>3. EndIndex(t) = FirstFree(n, "generations") /\ Leaf("generations") = Generation
    BY Zenon DEF EndIndex, Leaf
  <1>4. \A k \in DOMAIN task[t].buffer : task[t].buffer[k] <= EndIndex(t)
    <2>1. task[t].buffer = <<>> => \A k \in DOMAIN task[t].buffer : task[t].buffer[k] <= EndIndex(t)
      OBVIOUS
    <2> QED
      BY <1>3, <2>1, OpenFacts DEF Reading, SnapshotInv
  <1>5. LastIndex(t) \in Nat /\ LastIndex(t) <= EndIndex(t) /\ (EndIndex(t) > 0 => LastIndex(t) = EndIndex(t) - 1)
    BY <1>2, <1>3 DEF LastIndex
  <1> QED
    BY <1>1, <1>2, <1>3, <1>4, <1>5, Zenon

\* A collapsed update within the snapshot's tree.
LEMMA GapType ==
  ASSUME NEW t, Reading(t), NEW start \in Nat, NEW end \in Nat, end < EndIndex(t)
  PROVE  CollapsedUpdate(task[t].snapshot, "generations", start, end) \in UpdatesOf("generations")
  <1> DEFINE tree == TreeAt(task[t].snapshot, "generations")
  <1>1. tree \in Seq(Generation) /\ Len(tree) = EndIndex(t) /\ EndIndex(t) \in Nat
    BY ReadingFacts
  <1> HIDE DEF tree
  <1>2. \A i \in start + 1 .. end + 1 : i \in 1 .. Len(tree)
    BY <1>1
  <1>3. \A i \in start + 1 .. end + 1 : tree[i] \in Generation
    BY <1>1, <1>2
  <1>4. start + 1 \in Int /\ end + 1 \in Int
    OBVIOUS
  <1>5. SubSeq(tree, start + 1, end + 1) \in Seq(Generation)
    BY <1>3, <1>4, SubSeqIsSeq
  <1>6. Leaf("generations") = Generation
    BY DEF Leaf
  <1> QED
    BY <1>5, <1>6 DEF CollapsedUpdate, UpdatesOf, tree

\* It goes on reading.
LEMMA ReadingMoves ==
  ASSUME NEW t, Reading(t), NEW r, DOMAIN r = Fields, r.pc \in Accepted,
         r.args = task[t].args, r.began = task[t].began, r.snapshot = task[t].snapshot,
         r.got \in Seq(Events), r.cursor \in Nat, r.buffer \in Seq(Nat),
         \/ r.buffer = <<>>
         \/ r.pc = "entries" /\ \A k \in DOMAIN r.buffer : r.buffer[k] <= EndIndex(t),
         Step(t, r)
  PROVE  ReadInv'
  <1>1. /\ r.snapshot \in 1 .. Highest /\ r.began \in 1 .. Highest /\ r.began \in 0 .. Highest
        /\ r.began - r.snapshot <= MaxSnapshotAge
    BY OpenFacts, ZenonT(30) DEF Reading, SnapshotInv
  <1>2. EndIndex(t) = FirstFree(r.snapshot, "generations")
    BY ReadingFacts
  <1>3. r.pc \in Streaming /\ Open(t)
    BY DEF Accepted, Streaming, Reading
  <1>4. TaskInv(t, r)
    BY <1>1, <1>2, <1>3, OpenMoves, Zenon
  <1> QED
    BY <1>4, StepRead, Zenon DEF Step, Reading, Open

\* A page lists elements of the set it is read from.
LEMMA FirstOnesList ==
  ASSUME NEW S, S \subseteq Nat, IsFiniteSet(S), NEW rows \in FirstOnes(S)
  PROVE  rows \in Seq(Nat) /\ \A k \in DOMAIN rows : rows[k] \in S
  <1>1. rows \in [1 .. Least(BatchSize, Cardinality(S)) -> S]
    BY Zenon DEF FirstOnes, Pages, Listings
  <1>2. Least(BatchSize, Cardinality(S)) \in Nat
    BY FS_CardinalityType, RetentionExceedsAge DEF Least
  <1>3. PICK n \in Nat : rows \in [1 .. n -> S]
    BY <1>1, <1>2, Zenon
  <1>4. \A k \in DOMAIN rows : rows[k] \in S
    BY <1>3
  <1>5. rows \in [1 .. n -> Nat]
    BY <1>3, Zenon
  <1>6. rows \in Seq(Nat)
    BY <1>5
  <1> QED
    BY <1>4, <1>6

\* Pages of ended generations and of entries.
LEMMA DtimesRead ==
  ASSUME NEW t, Reading(t), StreamDtimes(t)
  PROVE  ReadInv'
  <1> DEFINE S == DtimeUpdates(task[t].cutoff, task[t].snapshot, task[t].after)
  <1>1. PICK rows \in FirstOnes(S) :
          IF rows = <<>> THEN Step(t, [task[t] EXCEPT !.pc = "entries"])
          ELSE Step(t, [task[t] EXCEPT !.after = rows[Len(rows)],
                          !.got = @ \o [k \in DOMAIN rows |-> Ended(blocks[rows[k]].ended[1])]])
    BY Zenon DEF StreamDtimes
  <1> DEFINE items == [k \in DOMAIN rows |-> Ended(blocks[rows[k]].ended[1])]
  <1>2. /\ DOMAIN task[t] = Fields /\ task[t].cursor \in Nat /\ task[t].got \in Seq(Events)
        /\ task[t].buffer \in Seq(Nat) /\ Highest \in Nat /\ ChainInv
        /\ task[t].pc # "entries" => task[t].buffer = <<>>
    BY OpenFacts DEF Reading
  <1>3. task[t].pc = "dtimes" /\ task[t].buffer = <<>>
    BY <1>2, ZenonT(30) DEF StreamDtimes, Is, At
  <1>4. CASE rows = <<>>
    <2> DEFINE r == [task[t] EXCEPT !.pc = "entries"]
    <2>1. /\ DOMAIN r = Fields /\ r.pc = "entries" /\ r.args = task[t].args /\ r.began = task[t].began
          /\ r.got = task[t].got /\ r.cursor = task[t].cursor /\ r.buffer = task[t].buffer
          /\ r.snapshot = task[t].snapshot
      BY <1>2 DEF Fields
    <2>2. Step(t, r)
      BY <1>1, <1>4
    <2> HIDE DEF r
    <2> QED
      BY <1>2, <1>3, <2>1, <2>2, ReadingMoves, Zenon DEF Accepted
  <1>5. CASE rows # <<>>
    <2>1. S \subseteq 1 .. Highest /\ S \subseteq Nat /\ IsFiniteSet(S)
      <3>1. S \subseteq 1 .. Highest
        BY DEF DtimeUpdates
      <3>2. 1 \in Int /\ Highest \in Int /\ 1 .. Highest \subseteq Nat
        BY <1>2
      <3>3. IsFiniteSet(1 .. Highest)
        BY <3>2, FS_Interval, Zenon
      <3> QED
        BY <3>1, <3>2, <3>3, FS_Subset
    <2>2. rows \in Seq(Nat) /\ \A k \in DOMAIN rows : rows[k] \in S
      BY <2>1, FirstOnesList, Zenon
    <2>3. \A n \in S : blocks[n].ended[1] \in Nat
      <3> TAKE n \in S
      <3>1. blocks[n].ended \in Seq(Nat)
        <4>1. blocks \in Seq(BlockType) /\ n \in 1 .. Len(blocks)
          BY <1>2, <2>1 DEF ChainInv, BlockType, Highest
        <4>2. blocks[n] \in BlockType
          BY <4>1
        <4> QED
          BY <4>2 DEF BlockType
      <3>2. \E i \in DOMAIN blocks[n].ended : TRUE
        BY DEF DtimeUpdates
      <3> QED
        BY <3>1, <3>2
    <2>4. items \in Seq(Events)
      <3>1. \A k \in DOMAIN rows : Ended(blocks[rows[k]].ended[1]) \in Events
        BY <2>2, <2>3, ZenonT(30) DEF Ended, Events
      <3>2. DOMAIN rows = 1 .. Len(rows) /\ Len(rows) \in Nat
        BY <2>2
      <3>3. items \in [1 .. Len(rows) -> Events]
        BY <3>1, <3>2
      <3> QED
        BY <3>2, <3>3
    <2>5. Step(t, [task[t] EXCEPT !.after = rows[Len(rows)], !.got = @ \o items])
      BY <1>1, <1>5, Zenon
    <2> HIDE DEF items
    <2> DEFINE r == [task[t] EXCEPT !.after = rows[Len(rows)], !.got = @ \o items]
    <2>6. /\ DOMAIN r = Fields /\ r.pc = "dtimes" /\ r.args = task[t].args /\ r.began = task[t].began
          /\ r.got = task[t].got \o items /\ r.cursor = task[t].cursor /\ r.buffer = task[t].buffer
          /\ r.snapshot = task[t].snapshot
      BY <1>2, <1>3 DEF Fields
    <2>7. task[t].got \o items \in Seq(Events)
      BY <1>2, <2>4
    <2> HIDE DEF r
    <2>8. Step(t, r)
      BY <2>5 DEF r
    <2> QED
      BY <1>2, <1>3, <2>6, <2>7, <2>8, ReadingMoves, ZenonT(30) DEF Accepted
  <1> QED
    BY <1>4, <1>5

LEMMA FetchRead ==
  ASSUME NEW t, Reading(t), FetchEntries(t)
  PROVE  ReadInv'
  <1> DEFINE S == Entries(task[t].cursor, LastIndex(t))
  <1>1. PICK rows \in FirstOnes(S) :
          Step(t, IF rows = <<>> THEN [task[t] EXCEPT !.pc = "final"]
                  ELSE [task[t] EXCEPT !.buffer = rows])
    BY Zenon DEF FetchEntries
  <1>2. /\ DOMAIN task[t] = Fields /\ task[t].cursor \in Nat /\ task[t].got \in Seq(Events)
        /\ task[t].buffer \in Seq(Nat) /\ Highest \in Nat /\ ChainInv
    BY OpenFacts DEF Reading
  <1>3. task[t].pc = "entries" /\ task[t].buffer = <<>>
    BY DEF FetchEntries, Is, At
  <1>4. EndIndex(t) \in Nat /\ LastIndex(t) \in Nat /\ LastIndex(t) <= EndIndex(t)
    BY ReadingFacts
  <1>5. CASE rows = <<>>
    <2> DEFINE r == [task[t] EXCEPT !.pc = "final"]
    <2>1. /\ DOMAIN r = Fields /\ r.pc = "final" /\ r.args = task[t].args /\ r.began = task[t].began
          /\ r.got = task[t].got /\ r.cursor = task[t].cursor /\ r.buffer = task[t].buffer
          /\ r.snapshot = task[t].snapshot
      BY <1>2 DEF Fields
    <2>2. Step(t, r)
      BY <1>1, <1>5, Zenon
    <2> HIDE DEF r
    <2> QED
      BY <1>2, <1>3, <2>1, <2>2, ReadingMoves, Zenon DEF Accepted
  <1>6. CASE rows # <<>>
    <2>1. S \subseteq task[t].cursor .. LastIndex(t) /\ S \subseteq Nat /\ IsFiniteSet(S)
      <3>1. S \subseteq task[t].cursor .. LastIndex(t)
        BY DEF Entries
      <3>2. /\ task[t].cursor \in Int /\ LastIndex(t) \in Int
            /\ task[t].cursor .. LastIndex(t) \subseteq Nat
        BY <1>2, <1>4
      <3>3. IsFiniteSet(task[t].cursor .. LastIndex(t))
        BY <3>2, FS_Interval, Zenon
      <3> QED
        BY <3>1, <3>2, <3>3, FS_Subset, Zenon
    <2>2. rows \in Seq(Nat) /\ \A k \in DOMAIN rows : rows[k] \in S
      BY <2>1, FirstOnesList, Zenon
    <2> HIDE DEF S
    <2>3. \A k \in DOMAIN rows : rows[k] <= EndIndex(t)
      BY <1>2, <1>4, <2>1, <2>2
    <2>4. Step(t, [task[t] EXCEPT !.buffer = rows])
      BY <1>1, <1>6, Zenon
    <2> DEFINE r == [task[t] EXCEPT !.buffer = rows]
    <2>5. /\ DOMAIN r = Fields /\ r.pc = "entries" /\ r.args = task[t].args /\ r.began = task[t].began
          /\ r.got = task[t].got /\ r.cursor = task[t].cursor /\ r.buffer = rows
          /\ r.snapshot = task[t].snapshot
      BY <1>2, <1>3 DEF Fields
    <2> HIDE DEF r
    <2>6. Step(t, r)
      BY <2>4 DEF r
    <2> QED
      BY <1>2, <2>2, <2>3, <2>5, <2>6, ReadingMoves, Zenon DEF Accepted
  <1> QED
    BY <1>5, <1>6

\* Entries, and the end of the stream, with the updates between them.
LEMMA YieldRead ==
  ASSUME NEW t, Reading(t), YieldEntry(t)
  PROVE  ReadInv'
  <1> DEFINE buffer == task[t].buffer
             i == Head(buffer)
             gap == MakeCollapsedUpdate(task[t].snapshot, task[t].cursor, i)
             item == [kind |-> "entry", index |-> i, gap |-> gap]
             pc == IF Len(buffer) = 1 /\ i >= LastIndex(t) THEN "final" ELSE "entries"
             r == [task[t] EXCEPT !.buffer = Tail(@), !.cursor = i + 1, !.pc = pc, !.got = Append(@, item)]
  <1>1. /\ DOMAIN task[t] = Fields /\ task[t].cursor \in Nat /\ task[t].got \in Seq(Events)
        /\ buffer \in Seq(Nat) /\ buffer # <<>>
    BY OpenFacts DEF Reading, YieldEntry
  <1>2. \/ Step(t, r)
        \/ task[t].snapshot <= culled /\ Ends(t, <<Panic>>)
    BY DEF YieldEntry, Reads
  <1>3. EndIndex(t) \in Nat /\ \A k \in DOMAIN buffer : buffer[k] <= EndIndex(t)
    BY ReadingFacts
  <1>4. /\ i \in Nat /\ i <= EndIndex(t)
        /\ Tail(buffer) \in Seq(Nat) /\ \A k \in DOMAIN Tail(buffer) : Tail(buffer)[k] <= EndIndex(t)
        /\ Len(buffer) = 1 => Tail(buffer) = <<>>
    <2> HIDE DEF buffer
    <2>1. Len(buffer) \in Nat \ {0} /\ Head(buffer) = buffer[1] /\ DOMAIN buffer = 1 .. Len(buffer)
      BY <1>1
    <2>2. /\ Tail(buffer) \in Seq(Nat) /\ Len(Tail(buffer)) = Len(buffer) - 1
          /\ \A k \in 1 .. Len(buffer) - 1 : Tail(buffer)[k] = buffer[k + 1]
      BY <1>1
    <2>3. DOMAIN Tail(buffer) = 1 .. Len(buffer) - 1
      BY <2>2
    <2>4. \A k \in 1 .. Len(buffer) - 1 : k + 1 \in 1 .. Len(buffer)
      BY <2>1
    <2>5. \A k \in DOMAIN Tail(buffer) : Tail(buffer)[k] <= EndIndex(t)
      BY <1>3, <2>1, <2>2, <2>3, <2>4, Zenon
    <2>6. i \in Nat /\ i <= EndIndex(t)
      BY <1>1, <1>3, <2>1
    <2> QED
      BY <2>2, <2>5, <2>6
  <1>5. r.pc = pc /\ r.buffer = Tail(buffer) /\ r.cursor = i + 1 /\ r.got = Append(task[t].got, item)
        /\ DOMAIN r = Fields /\ r.args = task[t].args /\ r.began = task[t].began
        /\ r.snapshot = task[t].snapshot
    <2> HIDE DEF item, pc, i, buffer
    <2> QED
      BY <1>1 DEF Fields, buffer
  <1>6. gap \in UpdatesOf("generations") \cup {None}
    <2> HIDE DEF i, buffer
    <2>1. CASE task[t].cursor >= i \/ i = 0
      BY <2>1 DEF MakeCollapsedUpdate
    <2>2. CASE ~(task[t].cursor >= i \/ i = 0)
      <3>1. i - 1 \in Nat /\ i - 1 < EndIndex(t)
        BY <1>3, <1>4, <2>2
      <3>2. CollapsedUpdate(task[t].snapshot, "generations", task[t].cursor, i - 1) \in UpdatesOf("generations")
        BY <1>1, <3>1, GapType, Zenon
      <3> QED
        BY <2>2, <3>2 DEF MakeCollapsedUpdate
    <2> QED
      BY <2>1, <2>2
  <1>7. item \in Events
    <2> HIDE DEF i, gap
    <2> QED
      BY <1>4, <1>6 DEF Events
  <1>8. Append(task[t].got, item) \in Seq(Events)
    <2> HIDE DEF item
    <2> QED
      BY <1>1, <1>7
  <1>9. CASE Step(t, r)
    <2> HIDE DEF item, pc, i, buffer, r
    <2>1. r.pc \in {"final", "entries"} /\ (r.buffer = <<>> \/ r.pc = "entries")
      BY <1>4, <1>5 DEF pc
    <2>2. r.buffer \in Seq(Nat) /\ r.cursor \in Nat /\ r.got \in Seq(Events)
      BY <1>4, <1>5, <1>8
    <2> QED
      BY <1>4, <1>5, <1>9, <2>1, <2>2, ReadingMoves, ZenonT(30) DEF Accepted
  <1>10. CASE task[t].snapshot <= culled /\ Ends(t, <<Panic>>)
    BY <1>10, PanicRead, Zenon DEF Reading
  <1> QED
    BY <1>2, <1>9, <1>10

LEMMA CompleteRead ==
  ASSUME NEW t, Reading(t), Complete(t)
  PROVE  ReadInv'
  <1> DEFINE gap == IF EndIndex(t) = 0 THEN None
                    ELSE MakeFinalCollapsedUpdate(task[t].snapshot, task[t].cursor, LastIndex(t))
             item == [kind |-> "progress", index |-> LastIndex(t), gap |-> gap]
  <1>1. \/ Ends(t, <<item>>)
        \/ task[t].snapshot <= culled /\ Ends(t, <<Panic>>)
    BY ZenonT(30) DEF Complete, Reads
  <1>2. /\ EndIndex(t) \in Nat /\ LastIndex(t) \in Nat
        /\ EndIndex(t) > 0 => LastIndex(t) = EndIndex(t) - 1
    BY ReadingFacts
  <1>3. task[t].cursor \in Nat
    BY OpenFacts, ZenonT(30) DEF Reading
  <1>4. gap \in UpdatesOf("generations") \cup {None}
    <2>1. CASE EndIndex(t) = 0 \/ task[t].cursor > LastIndex(t)
      BY <2>1 DEF MakeFinalCollapsedUpdate
    <2>2. CASE ~(EndIndex(t) = 0 \/ task[t].cursor > LastIndex(t))
      <3>1. LastIndex(t) < EndIndex(t)
        BY <1>2, <2>2
      <3>2. CollapsedUpdate(task[t].snapshot, "generations", task[t].cursor, LastIndex(t))
              \in UpdatesOf("generations")
        BY <1>2, <1>3, <3>1, GapType, Zenon
      <3> QED
        BY <2>2, <3>2 DEF MakeFinalCollapsedUpdate
    <2> QED
      BY <2>1, <2>2
  <1>5. item \in Events
    <2> HIDE DEF gap
    <2> QED
      BY <1>2, <1>4 DEF Events
  <1>6. item # Panic
    <2> HIDE DEF item
    <2> QED
      BY <1>5, ResultsAreDistinct
  <1>7. CASE Ends(t, <<item>>)
    <2> HIDE DEF item
    <2> QED
      BY <1>6, <1>7, EndRead, Zenon DEF Reading, Open, Accepted, Streaming
  <1>8. CASE task[t].snapshot <= culled /\ Ends(t, <<Panic>>)
    BY <1>8, PanicRead DEF Reading
  <1> QED
    BY <1>1, <1>7, <1>8

------------------------------------------------------------------------------
(* The invariant.                                                          *)

LEMMA InitRead ==
  ASSUME Init
  PROVE  ReadInv
  <1>1. blocks = <<>> /\ culled = 0 /\ cache = None /\ cast \in Casts /\ task = [t \in cast.tasks |-> IdleTask]
    BY DEF Init
  <1>2. Highest = 0
    BY <1>1 DEF Highest
  <1>3. ChainInv
    BY <1>1, <1>2 DEF ChainInv
  <1>4. ASSUME NEW t \in cast.tasks PROVE TaskInv(t, task[t])
    <2>1. task[t] = IdleTask /\ task[t].pc = "idle" /\ task[t].got = <<>>
      BY <1>1 DEF IdleTask
    <2> QED
      BY <2>1 DEF TaskInv, QueryInv, SnapshotInv, Served, Accepted
  <1> QED
    BY <1>1, <1>3, <1>4 DEF ReadInv

LEMMA NextRead ==
  ASSUME ReadInv, [Next]_vars
  PROVE  ReadInv'
  <1>1. CASE SaveBlock
    BY <1>1, SaveRead
  <1>2. CASE Collect
    BY <1>2, CollectRead, Zenon
  <1>3. CASE PassTime \/ UNCHANGED vars
    <2>1. UNCHANGED <<cast, blocks, culled, cache, task>>
      BY <1>3 DEF PassTime, vars, readVars
    <2>2. ChainInv'
      BY <2>1, ZenonT(30) DEF ReadInv, ChainInv, Highest
    <2>3. ASSUME NEW t \in cast.tasks PROVE TaskInv(t, task[t])'
      BY <2>1, ZenonT(30) DEF ReadInv, TaskInv, QueryInv, SnapshotInv, FitsInv, Served, Highest, FirstFree, TreeAt
    <2> QED
      BY <2>1, <2>2, <2>3 DEF ReadInv, Highest
  <1>4. ASSUME NEW t \in cast.tasks,
               \/ Ask(t) \/ Acquire(t) \/ AcquireToken(t) \/ Disconnect(t)
               \/ FindBlock(t) \/ CheckAge(t) \/ CheckLoadable(t) \/ LoadSnapshot(t) \/ FindCutoff(t)
               \/ StreamDtimes(t) \/ FetchEntries(t) \/ YieldEntry(t) \/ Complete(t)
               \/ AskVersion(t) \/ CachedUpdate(t)
        PROVE  ReadInv'
    <2>1. StreamDtimes(t) \/ FetchEntries(t) \/ YieldEntry(t) \/ Complete(t) => Reading(t)
      BY Zenon DEF StreamDtimes, FetchEntries, YieldEntry, Complete, Is, At, Reading, Open, Accepted, Streaming
    <2>2. CASE Ask(t)
      BY <2>2, AskRead
    <2>3. CASE Acquire(t) \/ AcquireToken(t)
      BY <2>3, AcquireRead, Zenon
    <2>4. CASE Disconnect(t)
      BY <2>4, DisconnectRead
    <2>5. CASE FindBlock(t) \/ CheckAge(t) \/ CheckLoadable(t) \/ LoadSnapshot(t) \/ FindCutoff(t)
      BY <2>5, SnapshotRead
    <2>6. CASE StreamDtimes(t)
      BY <2>1, <2>6, DtimesRead
    <2>7. CASE FetchEntries(t)
      BY <2>1, <2>7, FetchRead, Zenon
    <2>8. CASE YieldEntry(t)
      BY <2>1, <2>8, YieldRead
    <2>9. CASE Complete(t)
      BY <2>1, <2>9, CompleteRead
    <2>10. CASE AskVersion(t) \/ CachedUpdate(t)
      BY <2>10, QueryStep
    <2> QED
      BY <1>4, <2>2, <2>3, <2>4, <2>5, <2>6, <2>7, <2>8, <2>9, <2>10, ZenonT(30)
  <1> QED
    BY <1>1, <1>2, <1>3, <1>4, ZenonT(30) DEF Next

\* What FitsInv says of each leaf, said of the range of the newest tree.
LEMMA InvFits ==
  ASSUME ReadInv, NEW t \in cast.tasks, t.kind = "update", task[t].got # <<>>
  PROVE  Fits(task[t])
  <1> DEFINE r == task[t]
             tree == r.args.tree
             a == r.args.start
             e == r.args.end
             got == r.got[1]
             newest == TreeAt(Highest, tree)
  <1>1. TaskInv(t, r)
    BY DEF ReadInv
  <1>2. Asked(t) /\ FitsInv(r)
    BY <1>1 DEF TaskInv, QueryInv, Asked
  <1>3. tree \in Trees /\ a \in Nat /\ e \in Nat /\ ChainFacts /\ Highest \in Nat
    BY <1>2, AskedFacts, ZenonT(30) DEF ChainFacts
  <1>4. got \notin {Err, Panic} =>
          /\ Len(got.leaves) = e - a + 1
          /\ \A k \in DOMAIN got.leaves :
               Rewritten(tree, got.leaves[k], SubSeq(newest, a + 1, e + 1)[k])
    <2> SUFFICES ASSUME got \notin {Err, Panic}
                 PROVE  /\ Len(got.leaves) = e - a + 1
                        /\ \A k \in DOMAIN got.leaves :
                             Rewritten(tree, got.leaves[k], SubSeq(newest, a + 1, e + 1)[k])
      BY Zenon
    <2>1. /\ got.leaves \in Seq(Leaf(tree)) /\ Len(got.leaves) = e - a + 1
          /\ a <= e /\ Highest > 0 /\ e < FirstFree(Highest, tree)
          /\ \A k \in 1 .. (e - a + 1) : Rewritten(tree, got.leaves[k], newest[a + k])
      BY <1>2, Zenon DEF FitsInv
    <2> HIDE DEF r, tree, a, e, got
    <2>2. Highest \in 1 .. Highest
      BY <1>3, <2>1
    <2>3. newest \in Seq(Leaf(tree)) /\ e < Len(newest) /\ Len(newest) \in Nat
      BY <1>3, <2>1, <2>2 DEF ChainFacts, FirstFree
    <2> HIDE DEF newest
    <2>4. DOMAIN got.leaves = 1 .. (e - a + 1)
      BY <2>1
    <2>5. \A i \in a + 1 .. e + 1 : newest[i] \in Leaf(tree)
      BY <1>3, <2>3
    <2>6. a + 1 \in Int /\ e + 1 \in Int
      BY <1>3
    <2>7. \A k \in 1 .. ((e + 1) - (a + 1) + 1) : SubSeq(newest, a + 1, e + 1)[k] = newest[(a + 1) + k - 1]
      BY <1>3, <2>1, <2>5, <2>6, SubSeqIsSeq
    <2>8. \A k \in 1 .. (e - a + 1) : SubSeq(newest, a + 1, e + 1)[k] = newest[a + k]
      <3> SUFFICES ASSUME NEW k \in 1 .. (e - a + 1)
                   PROVE  SubSeq(newest, a + 1, e + 1)[k] = newest[a + k]
        BY Zenon
      <3>1. k \in 1 .. ((e + 1) - (a + 1) + 1) /\ (a + 1) + k - 1 = a + k
        BY <1>3
      <3> QED
        BY <2>7, <3>1, Zenon
    <2> QED
      BY <2>1, <2>4, <2>8, Zenon
  <1>5. got = Err => ~(/\ r.began > 0 /\ a <= e /\ e < FirstFree(r.began, tree))
    BY <1>2, ZenonT(30) DEF FitsInv
  <1>6. got = Panic =>
          Highest - Retention > 0 /\ (e < FirstFree(Highest - Retention, tree) \/ r.began <= Highest - Retention)
    BY <1>2, Zenon DEF FitsInv
  <1> HIDE DEF got
  <1> QED
    BY <1>4, <1>5, <1>6, ResultsAreDistinct, ZenonT(30) DEF Fits, got

\* The trees only grow, apart from the ends of generations, as blocks are saved;
\* the collected states are older than Retention blocks; what a query or a
\* subscription reads lies on this chain, at a block that is no older than its
\* start allows.
THEOREM ReadsAreSound == Spec => []ReadInv
  BY InitRead, NextRead, PTL DEF Spec

\* The age check of the dustGenerations subscription: a snapshot that passes it is
\* served without a panic unless, while it is, the chain grows by what Retention
\* exceeds MaxSnapshotAge; for any number of requests, blocks and leaves.
THEOREM AcceptedAlwaysServed == Spec => []AcceptedIsServed
  <1>1. ReadInv => AcceptedIsServed
    BY ZenonT(30) DEF ReadInv, TaskInv, SnapshotInv, AcceptedIsServed
  <1> QED
    BY <1>1, ReadsAreSound, PTL

\* LedgerStateCache: whatever state is cached, an update answered from it is right
\* for the newest one, a range the tree had when the query began is not refused,
\* and a panic needs Retention blocks on top of the last leaf or of the query.
THEOREM UpdatesAlwaysFit == Spec => []UpdatesFit
  <1>1. ReadInv => UpdatesFit
    BY InvFits DEF UpdatesFit
  <1> QED
    BY <1>1, ReadsAreSound, PTL
==============================================================================
