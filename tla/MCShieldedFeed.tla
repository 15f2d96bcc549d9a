--------------------------- MODULE MCShieldedFeed ---------------------------
(***************************************************************************)
(* ShieldedFeed for TLC: a subscription to the transactions of any chain,  *)
(* and two that poll the progress of a wallet on one; polling sends and    *)
(* receives no messages.  Nothing starts behind the last transaction, so   *)
(* its size makes no difference.                                           *)
(***************************************************************************)
EXTENDS ShieldedFeed

CONSTANTS Sizes, Starts, Indexes

MCScenarios ==
  [size : {s \in [Tx -> Sizes] : s[MaxTx] = 1}, relevant : SUBSET Tx, saved : {MaxTx},
   starts : {Starts}, others : {{}}, indexes : {Indexes}, pollers : {{}}, transport : Transports]
    \cup
  [size : {[t \in Tx |-> 1]}, relevant : {Tx \ {1}}, saved : {MaxTx - 1}, starts : {{1}},
   others : {{MaxTx}}, indexes : {{}}, pollers : {Pollers}, transport : {"nats"}]
=============================================================================
