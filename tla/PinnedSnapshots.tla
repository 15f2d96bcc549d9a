--------------------------- MODULE PinnedSnapshots ---------------------------
(***************************************************************************)
(* What the dustGenerations subscription of LedgerReads delivers as a      *)
(* whole, against the block it was asked for.                              *)
(***************************************************************************)
EXTENDS LedgerReads, SequencesExt

Completed(t) ==
  /\ t.kind = "dust" /\ task[t].got # <<>>
  /\ Last(task[t].got) \notin {Err, Panic} /\ Last(task[t].got).kind = "progress"
Kind(t, kind) == SelectSeq(task[t].got, LAMBDA item : item.kind = kind)
Segment(item) ==
  (IF item.gap = None THEN <<>> ELSE [k \in 1..(item.gap.end - item.gap.start + 1) |->
                                         item.gap.start + k - 1])
    \o (IF item.kind = "entry" THEN <<item.index>> ELSE <<>>)

\* What a completed dustGenerations stream delivered is determined by the
\* block that was asked for, whatever was saved while it ran: the ends of the
\* owner's generations between the cutoff and the block, all the entries they
\* own there, and updates from the block's own tree that fill every gap, so
\* that entries and gaps are each leaf exactly once.
Pinned(t) ==
  LET n       == task[t].snapshot
      gens    == blocks[n].trees["generations"]
      mine    == {i \in 0..(Len(gens) - 1) : gens[i + 1].owner = "mine"}
      entries == Kind(t, "entry")
      tail    == entries \o Kind(t, "progress")
      ends    == {m \in 1..n : /\ task[t].args.cutoff = 0 \/ m - 1 > task[t].args.cutoff
                               /\ ToSet(blocks[m].ended) \cap mine # {}}
  IN  /\ [k \in DOMAIN Kind(t, "dtime") |-> Kind(t, "dtime")[k].index]
           = [k \in 1..Cardinality(ends) |-> blocks[SetToSortSeq(ends, <)[k]].ended[1]]
      /\ {entries[k].index : k \in DOMAIN entries} = mine
      /\ FlattenSeq([k \in DOMAIN tail |-> Segment(tail[k])]) = [k \in DOMAIN gens |-> k - 1]
      /\ \A k \in DOMAIN tail : tail[k].gap # None =>
           tail[k].gap.leaves = SubSeq(gens, tail[k].gap.start + 1, tail[k].gap.end + 1)

\* Two corners are excepted.  If the tree is empty at the block, its last index
\* is taken to be 0 and a first entry that was saved since is delivered.  A
\* cutoff above the tip is taken for 0.
SnapshotIsPinned ==
  \A t \in cast.tasks :
    Completed(t) /\ EndIndex(t) > 0 /\ task[t].args.cutoff < task[t].snapshot => Pinned(t)
==============================================================================
