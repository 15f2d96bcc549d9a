---------------------------- MODULE MCWalletIndexer ----------------------------
(***************************************************************************)
(* WalletIndexer for TLC: the replicas are interchangeable.                *)
(***************************************************************************)
EXTENDS WalletIndexer, TLC

ReplicaSymmetry == Permutations(Replicas)

=============================================================================
