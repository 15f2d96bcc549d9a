---------------------------- MODULE MCSpoIndexer ----------------------------
EXTENDS SpoQueries

Reg(sk, main, aura, valid) == [sk |-> sk, main |-> main, aura |-> aura, valid |-> valid]

\* Two pools and then a third between them: pool 1 may rotate its sidechain key,
\* and pool 2 registers with the aura key of pool 3.
MCRegistrations ==
  {{Reg("a", 1, "x", TRUE), Reg("b", 3, "y", TRUE)},
   {Reg("c", 1, "x", TRUE), Reg("b", 3, "y", TRUE), Reg("d", 2, "y", FALSE)}}

\* Seats do not divide the slots; a validator holds two of them.
MCCommittees == {<<"a", "c", "c">>}
=============================================================================
