------------------------------- MODULE ChainLog -------------------------------
(***************************************************************************)
(* What the chain-indexer promises of the blocks it saves: the finalized   *)
(* chain in order, one block at a time, each exactly once, nothing else,   *)
(* and in the end all of it.  A block is its position in the chain.        *)
(***************************************************************************)
EXTENDS Naturals, Sequences

CONSTANT MaxBlocks   \* bound: blocks that are ever finalized

VARIABLES
  final,   \* blocks 1..final are finalized
  log      \* the blocks saved, oldest first

vars == <<final, log>>

Init ==
  /\ final = 0
  /\ log = <<>>

Finalize ==
  /\ final < MaxBlocks
  /\ final' = final + 1
  /\ UNCHANGED log

Record ==
  /\ Len(log) < final
  /\ log' = Append(log, Len(log) + 1)
  /\ UNCHANGED final

Next == Finalize \/ Record

Spec == Init /\ [][Next]_vars /\ WF_vars(Record)

=============================================================================
