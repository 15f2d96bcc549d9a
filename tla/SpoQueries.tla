------------------------------ MODULE SpoQueries ------------------------------
(***************************************************************************)
(* The API's SPO queries, each a function of the tables the SPO indexer    *)
(* fills: who is registered, who sits in a committee, how the counts of    *)
(* registrations develop, which epoch it is.  spo_sk and sidechain_pubkey  *)
(* are the same string in every table, so every join is on sk; pool_id is  *)
(* the hash of the mainchain key and is named by it.                       *)
(***************************************************************************)
EXTENDS SpoIndexer, FiniteSetsExt

IdentitiesWith(sk) == {i \in identities : i.sk = sk}
IdentitiesOf(p) == {i \in identities : i.main = p}

\* COALESCE(si.pool_id, <key>): the pool of a key, else the key itself
IdKey(sk) ==
  IF IdentitiesWith(sk) = {} THEN <<NoPool, sk>>
                             ELSE <<(CHOOSE i \in IdentitiesWith(sk) : TRUE).main, "pool">>

\* get_spo_count
SpoCount == Cardinality(snapshots)

\* get_spo_list without a search or a limit: the identity of every pool with a
\* snapshot, in the order of their keys.  sidechain_pubkey is read as a String:
\* the query fails if it is NULL, as for a pool without an identity.
SpoListFails == \E p \in snapshots : IdentitiesOf(p) = {}
SpoList == {i \in identities : i.main \in snapshots}

\* get_spo_performance_by_spo_sk, latest epoch first
PerformanceBySk(sk) == {f \in performance : f.sk = sk}

\* get_spo_composite_by_pool_id; NoPool for its None
Composite(p) ==
  IF IdentitiesOf(p) = {} /\ p \notin Known THEN NoPool
  ELSE LET ids == IdentitiesOf(p)
       IN  [identity |-> ids, metadata |-> p \in Known,
            performance |-> IF ids = {} THEN {} ELSE PerformanceBySk((CHOOSE i \in ids : TRUE).sk)]

SeatsOf(e) == IF e \in DOMAIN membership THEN membership[e] ELSE <<>>

\* get_committee: a row for each seat and each identity that has its key, or
\* one without identity
Committee(e) ==
  LET seats == SeatsOf(e)
      Row(n, ids) == [position |-> n, sk |-> seats[n].sk, slots |-> seats[n].slots, ids |-> ids]
  IN  UNION {IF IdentitiesWith(seats[n].sk) = {} THEN {Row(n, {})}
             ELSE {Row(n, {i}) : i \in IdentitiesWith(seats[n].sk)} : n \in DOMAIN seats}

\* The epochs in which one of the three tables mentions pool p
MentionedIn(p) ==
  LET sks == {i.sk : i \in IdentitiesOf(p)}
  IN  {h.epoch_no : h \in {g \in history : g.sk \in sks}}
        \cup {e \in DOMAIN membership : \E n \in DOMAIN membership[e] : membership[e][n].sk \in sks}
        \cup {f.epoch_no : f \in {g \in performance : g.sk \in sks}}

\* Mutant: a pool no table mentions is never registered.
FirstSeenMutant(p, end) == IF MentionedIn(p) = {} THEN end + 1 ELSE Min(MentionedIn(p))

\* firsts_cur: a pool no table mentions counts from the end of the range
FirstSeen(p, end) ==
  LET mentioned == MentionedIn(p) IN IF mentioned = {} THEN end ELSE Min(mentioned)

Greatest(a, b) == IF a < b THEN b ELSE a

\* get_registered_totals_series: no row at all when no pool has a snapshot
RegisteredTotals(from, to) ==
  LET start == Least(from, to)
      end == Greatest(from, to)
      first == {<<p, FirstSeen(p, end)>> : p \in snapshots}
  IN  IF snapshots = {} THEN <<>>
      ELSE [e \in start..end |-> [total |-> Cardinality({f \in first : f[2] <= e}),
                                 newly |-> Cardinality({f \in first : f[2] = e})]]

\* The pools with a history row of that status in epoch e
PoolsWithStatus(e, valid) ==
  {IdKey(h.sk) : h \in {g \in history : g.epoch_no = e /\ g.valid = valid /\ IdentitiesWith(g.sk) # {}}}

\* get_registered_spo_series, one epoch of it
RegisteredStat(e) ==
  [federated |-> Cardinality({s.sk : s \in {t \in Range(SeatsOf(e)) : t.slots > 0}}),
   valid     |-> Cardinality(PoolsWithStatus(e, TRUE)),
   invalid   |-> Cardinality(PoolsWithStatus(e, FALSE))]

\* get_registered_presence, one epoch of it
Presence(e) ==
  {<<IdKey(h.sk), "history">> : h \in {g \in history : g.epoch_no = e}}
    \cup {<<IdKey(s.sk), "committee">> : s \in Range(SeatsOf(e))}
    \cup {<<IdKey(f.sk), "performance">> : f \in {g \in performance : g.epoch_no = e}}

\* get_registered_first_valid_epochs
FirstValidEpochs(upto) ==
  LET rows == {h \in history : h.valid /\ h.epoch_no <= upto}
  IN  [k \in {IdKey(h.sk) : h \in rows} |-> Min({h.epoch_no : h \in {g \in rows : IdKey(g.sk) = k}})]

\* get_current_epoch_info, extrapolated from saved epoch `last`
EpochInfo(last) ==
  LET ends == epochs[last].ends
      duration == ends - epochs[last].starts
      n == IF ends > now THEN 0 ELSE (now - ends) \div duration + 1
      begin == IF n = 0 THEN epochs[last].starts ELSE ends + (n - 1) * duration
  IN  [epoch_no |-> last + n, duration |-> duration,
       elapsed |-> Least(Greatest(now - begin, 0), duration)]

-----------------------------------------------------------------------------
SharesKey(r, i) == r.sk = i.sk \/ r.aura = i.aura

\* spo_list returns exactly the pools spo_count counts.  It fails only when a
\* pool was left without an identity because save_spo found one of its keys
\* taken by another pool; then spo_composite still knows the pool's metadata.
SpoListIsWhole ==
  IF SpoListFails
  THEN \A p \in snapshots :
         IdentitiesOf(p) = {} =>
           /\ \E r \in UNION Registrations, i \in identities : r.main = p /\ i.main # p /\ SharesKey(r, i)
           /\ Composite(p).metadata /\ Composite(p).performance = {}
  ELSE Cardinality(SpoList) = SpoCount /\ {r.main : r \in SpoList} = snapshots

\* get_committee's join neither loses nor doubles a seat, and the blocks a
\* validator is expected to produce (get_expected_blocks) differ by at most one
\* from the slots of one of its seats (committee_to_membership).
CommitteeIsWhole ==
  \A e \in DOMAIN membership :
    LET rows == Committee(e)
    IN  /\ Cardinality(rows) = Len(membership[e])
        /\ \A f \in performance : f.epoch_no = e =>
             \E row \in rows :
               /\ row.ids = IdentitiesWith(f.sk) /\ row.ids # {}
               /\ row.slots - f.expected \in {-1, 0, 1}

\* registered_totals_series ends at spo_count whenever its range reaches the
\* last saved epoch, from either end, and its two columns agree.
TotalsMeetCount ==
  \A from \in {0, MaxEpochs}, to \in 0..MaxEpochs :
    LET series == RegisteredTotals(from, to)
        end == Greatest(from, to)
    IN  snapshots # {} =>
          /\ (\A e \in DOMAIN epochs : e <= end) => series[end].total = SpoCount
          /\ \A e \in (Least(from, to) + 1)..end : series[e].total = series[e - 1].total + series[e].newly

\* The registration statistics agree with each other for every epoch: a pool
\* is valid or invalid, not both; whoever has a performance row also registered
\* and sat in the committee; a pool's first valid epoch is one in which it was
\* counted as valid.
RegistrationsAgree ==
  \A e \in DOMAIN epochs :
    LET rows == Presence(e)
        At(source) == {x[1] : x \in {y \in rows : y[2] = source}}
        stat == RegisteredStat(e)
        first == FirstValidEpochs(e)
    IN  /\ stat.valid + stat.invalid = Cardinality(At("history"))
        /\ At("performance") \subseteq At("history") \cap At("committee")
        /\ stat.federated <= Cardinality(At("committee"))
        /\ PoolsWithStatus(e, TRUE) \subseteq DOMAIN first
        /\ \A k \in DOMAIN first : k \in PoolsWithStatus(first[k], TRUE)

\* get_current_epoch_info does not depend on how far the indexer has got: every
\* saved epoch extrapolates to the same current epoch and to the time that has
\* elapsed in the node's.  Nothing is said of the number of that epoch.
EpochInfoKeepsPace ==
  \A last \in DOMAIN epochs :
    LET info == EpochInfo(last)
    IN  /\ info.elapsed = now % SlotsPerEpoch
        /\ \A other \in DOMAIN epochs : EpochInfo(other) = info

\* Queries that read the same tables on their own tell the same: lists and
\* counts, committees and expectations, series and registrations, and the
\* current epoch from whichever epoch was saved last.
SpoQueriesAgree ==
  SpoListIsWhole /\ CommitteeIsWhole /\ TotalsMeetCount /\ RegistrationsAgree /\ EpochInfoKeepsPace

-----------------------------------------------------------------------------
(* What the queries rely on: keys that are unique and that the tables share. *)

\* A seat of the committee of epoch e that expects as many slots as a
\* performance row of that epoch expects blocks, but for one.
IsSeatOf(e, f) ==
  \E n \in DOMAIN membership[e] :
    membership[e][n].sk = f.sk /\ membership[e][n].slots - f.expected \in {-1, 0, 1}

\* A pool without identity has been refused one for a key another pool holds.
WasRefused(p) ==
  \E r \in UNION Registrations, i \in identities : r.main = p /\ i.main # p /\ SharesKey(r, i)

TablesInv ==
  /\ identities \subseteq UNION Registrations
  /\ \A i, j \in identities : i.sk = j.sk \/ i.main = j.main => i = j
  /\ IsFiniteSet(history)
  /\ \A h \in history : /\ h.epoch_no \in DOMAIN epochs /\ h.valid \in BOOLEAN
                        /\ IdentitiesWith(h.sk) # {}
  /\ \A g, h \in history : g.sk = h.sk /\ g.epoch_no = h.epoch_no => g.valid = h.valid
  /\ \A e \in DOMAIN membership : \E c \in Committees \cup {<<>>} : membership[e] = Seats(c)
  /\ \A f \in performance : /\ f.epoch_no \in DOMAIN membership /\ IsSeatOf(f.epoch_no, f)
                            /\ IdentitiesWith(f.sk) # {}
                            /\ \E h \in history : h.sk = f.sk /\ h.epoch_no = f.epoch_no
  /\ \A p \in Known : IdentitiesOf(p) # {} \/ WasRefused(p)
=============================================================================
