----------------------------- MODULE LedgerReads -----------------------------
(***************************************************************************)
(* What indexer-api reads from ledger states while the chain-indexer saves *)
(* blocks and collects the ledger states of old ones: collapsed updates of *)
(* Merkle trees from a cached ledger state, and the snapshot that the      *)
(* dustGenerations subscription serves at one block.                       *)
(*                                                                         *)
(* Of a ledger state there are its three Merkle trees; a leaf of the       *)
(* generation tree has an owner and is rewritten when its generation ends. *)
(* A state is loaded lazily: reading from one that was collected meanwhile *)
(* may end in a panic.  Tasks are clients' requests; which ones there are  *)
(* is chosen initially.                                                    *)
(***************************************************************************)
EXTENDS SubscriptionQuotas, Paging

CONSTANTS
  Err, Panic,       \* a failed request, and one that panicked
  Casts,            \* the tasks of a behaviour, the leaves its blocks may add, and its
                    \* bounds on blocks and seconds
  Retention,        \* ledger_state_retention of the chain-indexer
  MaxSnapshotAge,   \* max_snapshot_age of dust generations
  BatchSize         \* batch_size of dust generations

\* What indexer-standalone asserts of its configuration.
ASSUME RetentionExceedsAge ==
  /\ {Retention, MaxSnapshotAge, BatchSize} \subseteq Nat
  /\ Retention > MaxSnapshotAge
  /\ BatchSize > 0

ASSUME CastsAreFinite == \A c \in Casts : IsFiniteSet(c.tasks)

Trees == {"zswap", "commitments", "generations"}

\* Requests, with arguments that are unsigned integers; a block is named by its id.
ASSUME CastsAreRequests ==
  \A c \in Casts : \A t \in c.tasks :
    /\ t.kind \in {"shielded", "dust", "update"}
    /\ t.kind = "dust" => \A a \in t.args : a.block \in Nat \ {0} /\ a.cutoff \in Nat
    /\ t.kind = "update" => \A a \in t.args : a.tree \in Trees /\ {a.start, a.end} \subseteq Nat

\* Leaves of the trees, and what is sent of them.
Generation == [owner : {"mine", "other"}, ended : BOOLEAN]
Leaf(tree) == IF tree = "generations" THEN Generation ELSE Nat
UpdatesOf(tree) == [start : Nat, end : Nat, leaves : Seq(Leaf(tree))]
Events == [kind : {"dtime"}, index : Nat]
            \cup [kind : {"entry", "progress"}, index : Nat, gap : UpdatesOf("generations") \cup {None}]

ASSUME ResultsAreDistinct ==
  /\ None \notin Nat
  /\ Err # Panic
  /\ \A tree \in Trees : Err \notin UpdatesOf(tree) /\ Panic \notin UpdatesOf(tree)
  /\ Err \notin Events /\ Panic \notin Events

VARIABLES
  cast,     \* of Casts
  blocks,   \* the saved blocks, by id (the height is one less): the trees after
            \* them, and the generations they ended
  culled,   \* the ledger states of the first `culled' blocks are collected
  cache,    \* LedgerStateCache: the block whose state is cached, or None
  writer,   \* the task that holds the cache's lock for writing, or None
  task      \* where each task is

readVars == <<cast, blocks, culled, cache, writer, task>>
vars == <<quotas, readVars>>

NoTrees == [tree \in Trees |-> <<>>]
TreeAt(n, tree) == IF n = None THEN <<>> ELSE blocks[n].trees[tree]
FirstFree(n, tree) == Len(TreeAt(n, tree))
Highest == Len(blocks)

------------------------------------------------------------------------------
(* The chain-indexer.                                                      *)

\* A block adds a leaf, ends a generation or does neither.
Grown(trees, tree, leaf) == [trees EXCEPT ![tree] = Append(@, leaf)]
Changes(trees) ==
  {[trees |-> trees, ended |-> <<>>]}
    \cup {[trees |-> Grown(trees, "zswap", Highest), ended |-> <<>>] : x \in cast.leaves \cap {"zswap"}}
    \cup {[trees |-> Grown(Grown(trees, "commitments", Highest), "generations",
                           [owner |-> owner, ended |-> FALSE]),
           ended |-> <<>>] : owner \in cast.leaves \cap {"mine", "other"}}
    \cup {[trees |-> [trees EXCEPT !["generations"][i].ended = TRUE], ended |-> <<i - 1>>] :
            i \in {j \in DOMAIN trees["generations"] : ~trees["generations"][j].ended}}

SaveBlock ==
  /\ Highest < cast.blocks
  /\ \E b \in Changes(IF Highest = 0 THEN NoTrees ELSE blocks[Highest].trees) :
       blocks' = Append(blocks, b)
  /\ UNCHANGED <<quotas, cast, culled, cache, writer, task>>

\* The states of all but the newest Retention blocks are unpersisted and, some
\* time later, collected.
Collect ==
  /\ culled < Highest - Retention
  /\ culled' = culled + 1
  /\ UNCHANGED <<quotas, cast, blocks, cache, writer, task>>

------------------------------------------------------------------------------
(* Tasks and their quotas.                                                 *)

At(t, pc) == t \in cast.tasks /\ task[t].pc = pc
Goes(t, pc) == task' = [task EXCEPT ![t].pc = pc]
Rest == UNCHANGED <<cast, blocks, culled, cache, writer>>

\* The client subscribes, or asks, with any argument.
Ask(t) ==
  /\ At(t, "idle") \/ At(t, "done")
  /\ \E args \in t.args :
       task' = [task EXCEPT ![t] =
         [pc |-> IF t.kind = "update" THEN "ask" ELSE "acquire", args |-> args, began |-> Highest,
          snapshot |-> None, cutoff |-> 0, cursor |-> 0, after |-> 0, buffer |-> <<>>, got |-> <<>>]]
  /\ UNCHANGED quotas /\ Rest

\* try_acquire: the connection's counter
Acquire(t) ==
  /\ At(t, "acquire")
  /\ IF MayCount(t.connection)
     THEN Count(t.connection) /\ Goes(t, IF t.session = None THEN "running" ELSE "counted")
     ELSE Goes(t, "done") /\ UNCHANGED counter
  /\ UNCHANGED <<buckets, clock, taken>> /\ Rest

\* Mutant: a refused token leaves the subscription counted.
AcquireTokenMutant(t) ==
  /\ At(t, "counted")
  /\ TryTake(t.session)
  /\ Goes(t, IF MayTake(t.session) THEN "running" ELSE "done")
  /\ UNCHANGED <<counter, clock>> /\ Rest
\* try_acquire: the session's bucket
AcquireToken(t) ==
  /\ At(t, "counted")
  /\ TryTake(t.session)
  /\ IF MayTake(t.session) THEN Goes(t, "running") /\ UNCHANGED counter
                           ELSE Goes(t, "done") /\ GiveBack(t.connection)
  /\ UNCHANGED clock /\ Rest

\* The stream ends, whether completed, failed or dropped by the client, and
\* drops its guard.
Streaming == {"running", "age", "loadable", "load", "cutoff", "dtimes", "entries", "final"}
Ends(t, items) ==
  /\ task' = [task EXCEPT ![t].pc = "done", ![t].got = @ \o items]
  /\ GiveBack(t.connection)
  /\ UNCHANGED <<buckets, clock, taken>> /\ Rest
Disconnect(t) ==
  /\ t \in cast.tasks /\ task[t].pc \in Streaming
  /\ Ends(t, <<Err>>)

Step(t, next) ==
  /\ task' = [task EXCEPT ![t] = next]
  /\ UNCHANGED quotas /\ Rest

PassTime ==
  /\ clock < cast.seconds
  /\ Tick
  /\ UNCHANGED <<counter, buckets, taken, readVars>>

------------------------------------------------------------------------------
(* The dustGenerations subscription of the owner of `mine'.                *)

Is(t, pc) == At(t, pc) /\ t.kind = "dust"

\* get_ledger_state_at: a hash that names no block is the client's error
FindBlock(t) ==
  /\ Is(t, "running")
  /\ IF task[t].args.block > Highest THEN Ends(t, <<Err>>)
     ELSE Step(t, [task[t] EXCEPT !.pc = "age", !.snapshot = task[t].args.block])

\* Mutant: any age will do.
FreshMutant(n) == TRUE
Fresh(n) == Highest - n <= MaxSnapshotAge
\* A snapshot that is too old is refused before it is looked for.
CheckAge(t) ==
  /\ Is(t, "age")
  /\ IF ~Fresh(task[t].snapshot) THEN Ends(t, <<Err>>)
     ELSE Step(t, [task[t] EXCEPT !.pc = "loadable", !.began = Highest])

\* root_loadable
CheckLoadable(t) ==
  /\ Is(t, "loadable")
  /\ IF task[t].snapshot <= culled THEN Ends(t, <<Err>>)
     ELSE Step(t, [task[t] EXCEPT !.pc = "load"])

\* Reading from the snapshot's state fails, if it fails, in a panic.
Reads(t, step) ==
  \/ step
  \/ task[t].snapshot <= culled /\ Ends(t, <<Panic>>)

LoadSnapshot(t) ==
  /\ Is(t, "load")
  /\ Reads(t, Step(t, [task[t] EXCEPT !.pc = "cutoff"]))

EndIndex(t) == FirstFree(task[t].snapshot, "generations")
LastIndex(t) == IF EndIndex(t) = 0 THEN 0 ELSE EndIndex(t) - 1

\* The id of the block at the cutoff height; 0, which means from the start,
\* for the height 0 or if there is no such block.
CutoffBlockId(height) == IF height = 0 \/ height >= Highest THEN 0 ELSE height + 1
FindCutoff(t) ==
  /\ Is(t, "cutoff")
  /\ Step(t, [task[t] EXCEPT !.pc = "dtimes", !.cutoff = CutoffBlockId(task[t].args.cutoff)])

\* The ends of the owner's generations, as events of the tables; the id of
\* an event is the block's, which has at most one.
Ended(i) == [kind |-> "dtime", index |-> i]
IsMine(i) == blocks[Highest].trees["generations"][i + 1].owner = "mine"
\* Mutant: to the tip instead of the snapshot.
DtimeUpdatesMutant(cutoff, upper, after) ==
  {n \in 1..Highest : n > cutoff /\ n > after /\ \E i \in DOMAIN blocks[n].ended : IsMine(blocks[n].ended[i])}
DtimeUpdates(cutoff, upper, after) ==
  {n \in 1..Highest : /\ n > cutoff /\ n <= upper /\ n > after
                      /\ \E i \in DOMAIN blocks[n].ended : IsMine(blocks[n].ended[i])}
FirstOnes(S) == Pages(S, BatchSize)

StreamDtimes(t) ==
  /\ Is(t, "dtimes")
  /\ \E rows \in FirstOnes(DtimeUpdates(task[t].cutoff, task[t].snapshot, task[t].after)) :
       IF rows = <<>> THEN Step(t, [task[t] EXCEPT !.pc = "entries"])
       ELSE Step(t, [task[t] EXCEPT !.after = rows[Len(rows)],
                       !.got = @ \o [k \in DOMAIN rows |-> Ended(blocks[rows[k]].ended[1])]])

\* A collapsed update of a tree from start to end, both included.
CollapsedUpdate(n, tree, start, end) ==
  [start |-> start, end |-> end, leaves |-> SubSeq(TreeAt(n, tree), start + 1, end + 1)]
MakeCollapsedUpdate(n, cursor, entry) ==
  IF cursor >= entry \/ entry = 0 THEN None ELSE CollapsedUpdate(n, "generations", cursor, entry - 1)
MakeFinalCollapsedUpdate(n, cursor, end) ==
  IF cursor > end THEN None ELSE CollapsedUpdate(n, "generations", cursor, end)

\* The owner's generations in the table, by index.
Entries(start, end) ==
  LET gens == TreeAt(IF Highest = 0 THEN None ELSE Highest, "generations")
  IN  {i \in start..end : i < Len(gens) /\ gens[i + 1].owner = "mine"}
FetchEntries(t) ==
  /\ Is(t, "entries") /\ task[t].buffer = <<>>
  /\ \E rows \in FirstOnes(Entries(task[t].cursor, LastIndex(t))) :
       Step(t, IF rows = <<>> THEN [task[t] EXCEPT !.pc = "final"]
               ELSE [task[t] EXCEPT !.buffer = rows])
YieldEntry(t) ==
  /\ Is(t, "entries") /\ task[t].buffer # <<>>
  /\ LET i   == Head(task[t].buffer)
         gap == MakeCollapsedUpdate(task[t].snapshot, task[t].cursor, i)
     IN  Reads(t, Step(t, [task[t] EXCEPT !.buffer = Tail(@), !.cursor = i + 1,
                            !.pc = IF Len(task[t].buffer) = 1 /\ i >= LastIndex(t)
                                   THEN "final" ELSE "entries",
                            !.got = Append(@, [kind |-> "entry", index |-> i, gap |-> gap])]))

\* The progress event completes the subscription.
Complete(t) ==
  /\ Is(t, "final")
  /\ Reads(t, Ends(t, <<[kind |-> "progress", index |-> LastIndex(t),
                         gap |-> IF EndIndex(t) = 0 THEN None
                                 ELSE MakeFinalCollapsedUpdate(task[t].snapshot, task[t].cursor,
                                                               LastIndex(t))]>>))

------------------------------------------------------------------------------
(* A query for a collapsed update, through LedgerStateCache.               *)

\* Mutant: off by one.
StaleMutant(tree, end) == cache = None \/ end > FirstFree(cache, tree)
Stale(tree, end) == end >= FirstFree(cache, tree)

\* The answer, from the state of block n: indices that are no range of the
\* tree are the client's error.
Answer(n, args) ==
  IF args.start > args.end \/ args.end >= FirstFree(n, args.tree) THEN Err
  ELSE CollapsedUpdate(n, args.tree, args.start, args.end)
Panics(t, n) ==
  /\ n <= culled
  /\ task' = [task EXCEPT ![t].pc = "done", ![t].got = <<Panic>>]
  /\ UNCHANGED <<quotas, cast, blocks, culled>>
Answers(t, n) ==
  \/ /\ task' = [task EXCEPT ![t].pc = "done", ![t].got = <<Answer(n, task[t].args)>>]
     /\ UNCHANGED <<quotas, cast, blocks, culled>>
  \/ Panics(t, n)

\* get_highest_ledger_state of the query: an error before the first block
AskVersion(t) ==
  /\ At(t, "ask")
  /\ Step(t, IF Highest = 0 THEN [task[t] EXCEPT !.pc = "done", !.got = <<Err>>]
             ELSE [task[t] EXCEPT !.pc = "check"])

\* Under the read lock.
CheckCache(t) ==
  /\ At(t, "check") /\ writer = None
  /\ IF Stale(task[t].args.tree, task[t].args.end)
     THEN Step(t, [task[t] EXCEPT !.pc = "lock"])
     ELSE Answers(t, cache) /\ UNCHANGED <<cache, writer>>

\* Under the write lock, which is kept while the database is asked.
LockCache(t) ==
  /\ At(t, "lock") /\ writer = None
  /\ IF Stale(task[t].args.tree, task[t].args.end)
     THEN /\ writer' = t /\ Goes(t, "key")
          /\ UNCHANGED <<quotas, cast, blocks, culled, cache>>
     ELSE Answers(t, cache) /\ UNCHANGED <<cache, writer>>
ReadKey(t) == At(t, "key") /\ Step(t, [task[t] EXCEPT !.pc = "loading", !.snapshot = Highest])
LoadState(t) ==
  /\ At(t, "loading")
  /\ writer' = None
  /\ \/ cache' = task[t].snapshot /\ Answers(t, task[t].snapshot)
     \/ cache' = cache /\ Panics(t, task[t].snapshot)

\* The three functions of LedgerStateCache, which differ in the tree.
CachedUpdate(t) == CheckCache(t) \/ LockCache(t) \/ ReadKey(t) \/ LoadState(t)

------------------------------------------------------------------------------

IdleTask == [pc |-> "idle", got |-> <<>>]
Init ==
  /\ QuotaInit
  /\ cast \in Casts
  /\ blocks = <<>> /\ culled = 0
  /\ cache = None /\ writer = None
  /\ task = [t \in cast.tasks |-> IdleTask]

Next ==
  \/ SaveBlock \/ Collect \/ PassTime
  \/ \E t \in cast.tasks :
       \/ Ask(t) \/ Acquire(t) \/ AcquireToken(t) \/ Disconnect(t)
       \/ FindBlock(t) \/ CheckAge(t) \/ CheckLoadable(t) \/ LoadSnapshot(t) \/ FindCutoff(t)
       \/ StreamDtimes(t) \/ FetchEntries(t) \/ YieldEntry(t) \/ Complete(t)
       \/ AskVersion(t) \/ CachedUpdate(t)

Spec == Init /\ [][Next]_vars

------------------------------------------------------------------------------

\* The places taken on a connection are those of the subscriptions that run or
\* are just asking for a token, and never more than it has: no refusal, error
\* or disconnect keeps one.
SlotsAreGivenBack ==
  \A c \in Connections :
    /\ counter[c] = Cardinality({t \in cast.tasks :
                       t.connection = c /\ task[t].pc \in Streaming \cup {"counted"}})
    /\ counter[c] <= MaxConcurrentPerConnection

\* A snapshot that passed the age check is served without a panic unless,
\* while it is, the chain grows by what Retention exceeds MaxSnapshotAge.
Served(r) ==
  r.got # <<>> /\ r.got[Len(r.got)] = Panic => Highest - r.began >= Retention - MaxSnapshotAge
AcceptedIsServed == \A t \in cast.tasks : t.kind = "dust" => Served(task[t])

\* A leaf as it was read, and as it is in a newer state: only the end of a
\* generation is ever written.
Rewritten(tree, old, new) ==
  IF tree = "generations" THEN old.owner = new.owner /\ (old.ended => new.ended) ELSE old = new

Fits(r) ==
  LET args == r.args
      old  == Highest - Retention
      got  == r.got[1]
      now  == SubSeq(TreeAt(Highest, args.tree), args.start + 1, args.end + 1)
  IN  CASE got = Err -> ~(/\ r.began > 0 /\ args.start <= args.end
                          /\ args.end < FirstFree(r.began, args.tree))
        [] got = Panic -> old > 0 /\ (args.end < FirstFree(old, args.tree) \/ r.began <= old)
        [] OTHER -> /\ Len(got.leaves) = args.end - args.start + 1
                    /\ \A k \in DOMAIN got.leaves : Rewritten(args.tree, got.leaves[k], now[k])

\* Collapsed updates from the cache, however old the cached state is: a range
\* that the tree has when it is asked for is answered, and with the leaves of
\* the newest state, exactly in the trees that only grow and but for
\* generations that ended meanwhile in the third.  A panic needs a last leaf
\* that was already there Retention blocks ago, so that nothing makes the cache
\* reload, or as many blocks saved during the query.
UpdatesFit ==
  \A t \in cast.tasks : t.kind = "update" /\ task[t].got # <<>> => Fits(task[t])

------------------------------------------------------------------------------
(* The inductive invariant behind AcceptedIsServed and UpdatesFit.         *)

Outgrows(tree, new, old) ==
  Len(old) <= Len(new) /\ \A k \in 1 .. Len(old) : Rewritten(tree, old[k], new[k])

AllTrees == [zswap : Seq(Nat), commitments : Seq(Nat), generations : Seq(Generation)]
ChainInv ==
  /\ blocks \in Seq([trees : AllTrees, ended : Seq(Nat)])
  /\ \A n, m \in 1 .. Highest : n <= m =>
       \A tree \in Trees : Outgrows(tree, blocks[m].trees[tree], blocks[n].trees[tree])
  /\ culled \in Nat /\ (culled > 0 => culled <= Highest - Retention)

\* What was answered, with each leaf's place in the newest tree.
FitsInv(r) ==
  LET args == r.args
      old  == Highest - Retention
      got  == r.got[1]
  IN  /\ got = Err => ~(/\ r.began > 0 /\ args.start <= args.end
                        /\ args.end < FirstFree(r.began, args.tree))
      /\ got = Panic => old > 0 /\ (args.end < FirstFree(old, args.tree) \/ r.began <= old)
      /\ got \notin {Err, Panic} =>
           /\ got.leaves \in Seq(Leaf(args.tree)) /\ Len(got.leaves) = args.end - args.start + 1
           /\ args.start <= args.end /\ Highest > 0 /\ args.end < FirstFree(Highest, args.tree)
           /\ \A k \in 1 .. (args.end - args.start + 1) :
                Rewritten(args.tree, got.leaves[k], TreeAt(Highest, args.tree)[args.start + k])

\* A query reads a state that is no older than the tip when it was asked.
QueryInv(t, r) ==
  /\ r.pc \in {"idle", "ask", "check", "lock", "key", "loading", "done"}
  /\ r.pc # "idle" => r.args \in t.args /\ r.began \in 0 .. Highest
  /\ r.pc \in {"check", "lock", "key", "loading"} => Highest > 0
  /\ r.pc = "loading" => r.snapshot \in 1 .. Highest /\ r.began <= r.snapshot
  /\ r.got # <<>> => r.pc # "idle" /\ FitsInv(r)

Accepted == {"loadable", "load", "cutoff", "dtimes", "entries", "final"}

\* A subscription past the age check reads a block that was then young enough; it
\* has sent events only, and the entries it has fetched are in the snapshot's tree.
SnapshotInv(t, r) ==
  /\ r.pc # "idle" => r.began \in 0 .. Highest
  /\ r.pc \notin {"idle", "done"} =>
       /\ r.args \in t.args /\ r.got \in Seq(Events)
       /\ r.cursor \in Nat /\ r.buffer \in Seq(Nat)
  /\ r.pc \in {"age"} \cup Accepted => r.snapshot \in 1 .. Highest
  /\ r.pc \in Accepted => r.began \in 1 .. Highest /\ r.began - r.snapshot <= MaxSnapshotAge
  /\ r.pc \notin {"idle", "done"} /\ r.buffer # <<>> =>
       r.pc = "entries" /\ \A k \in DOMAIN r.buffer : r.buffer[k] <= FirstFree(r.snapshot, "generations")
  /\ Served(r)

Fields == {"pc", "args", "began", "snapshot", "cutoff", "cursor", "after", "buffer", "got"}
TaskInv(t, r) ==
  /\ IF r.pc = "idle" THEN r = IdleTask ELSE DOMAIN r = Fields
  /\ t.kind = "update" => QueryInv(t, r)
  /\ t.kind # "update" => r.pc \in {"idle", "acquire", "counted", "done"} \cup Streaming
  /\ t.kind = "dust" => SnapshotInv(t, r)

ReadInv ==
  /\ ChainInv
  /\ cache = None \/ cache \in 1 .. Highest
  /\ cast \in Casts /\ DOMAIN task = cast.tasks
  /\ \A t \in cast.tasks : TaskInv(t, task[t])
==============================================================================
