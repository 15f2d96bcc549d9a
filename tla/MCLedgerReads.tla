---------------------------- MODULE MCLedgerReads ----------------------------
(***************************************************************************)
(* LedgerReads for TLC: subscriptions that compete for a connection and a  *)
(* session, a snapshot beside others and one on a growing chain, and pairs *)
(* of queries that share the cache.                                        *)
(***************************************************************************)
EXTENDS PinnedSnapshots

CONSTANTS Conn, Session

Shielded(id) == [id |-> id, kind |-> "shielded", connection |-> Conn, session |-> Session,
                 args |-> {None}]
Dust(id, heights, cutoffs) ==
  [id |-> id, kind |-> "dust", connection |-> Conn, session |-> None,
   args |-> [block : heights, cutoff : cutoffs]]
Update(id, tree, starts, ends) ==
  [id |-> id, kind |-> "update", connection |-> None, session |-> None,
   args |-> [tree : {tree}, start : starts, end : ends]]

MCCasts ==
  {[tasks |-> {Shielded(1), Shielded(2), Shielded(3)}, leaves |-> {}, blocks |-> 0, seconds |-> 4],
   [tasks |-> {Dust(1, {1}, {0}), Shielded(2), Shielded(3)}, leaves |-> {}, blocks |-> 1,
    seconds |-> 1],
   [tasks |-> {Dust(1, 1..4, 0..1)}, leaves |-> {"mine", "other"}, blocks |-> 4, seconds |-> 0],
   [tasks |-> {Update(1, "zswap", {0}, 0..1), Update(2, "generations", 0..1, {0})},
    leaves |-> {"zswap", "other"}, blocks |-> 3, seconds |-> 0],
   [tasks |-> {Update(1, "zswap", {0}, {0}), Update(2, "zswap", {0}, {1, 2})},
    leaves |-> {"zswap"}, blocks |-> 4, seconds |-> 0]}
==============================================================================
