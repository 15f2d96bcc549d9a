---------------------------- MODULE ProgressCache ----------------------------
(***************************************************************************)
(* The progress that subscriptions of one wallet or address poll, through  *)
(* the cache they share in an indexer-api process: an entry is served until*)
(* it expires, and the subscriptions that find none wait for one query.    *)
(* The pauses between polls are any length.                                *)
(***************************************************************************)
EXTENDS Naturals

CONSTANTS
  None,      \* Rust's Option::None
  Pollers    \* subscriptions of the wallet

ASSUME NoneIsNoIndex == None \notin Nat

VARIABLES
  entry,     \* the cached value, or None
  poller     \* each subscription: sleeping, waiting for the entry, loading it, or
             \* gone; what its query read; the indices it showed last

progress == <<entry, poller>>

ProgressInit ==
  /\ entry = None
  /\ poller = [p \in Pollers |-> [pc |-> "sleeping", read |-> None, last |-> None]]

Goes(p, pc) == [poller[p] EXCEPT !.pc = pc]
Shows(p, indices) == [pc |-> "sleeping", read |-> None, last |-> indices]
With(pc) == {p \in Pollers : poller[p].pc = pc}

\* try_get_with: the entry, or wait for one.
PollProgress(p) ==
  /\ poller[p].pc = "sleeping"
  /\ poller' = [poller EXCEPT ![p] = IF entry = None THEN Goes(p, "waiting") ELSE Shows(p, entry)]
  /\ UNCHANGED entry

\* Mutant: every subscription that finds no entry runs its query.
LoadMutant(p, indices) ==
  /\ poller[p].pc = "waiting"
  /\ poller' = [poller EXCEPT ![p].pc = "loading", ![p].read = indices]
  /\ UNCHANGED entry
\* One of those that wait runs its query.
Load(p, indices) ==
  /\ poller[p].pc = "waiting" /\ With("loading") = {}
  /\ poller' = [poller EXCEPT ![p].pc = "loading", ![p].read = indices]
  /\ UNCHANGED entry

\* Its result is cached, and is what all that wait get.
Store(p) ==
  /\ poller[p].pc = "loading"
  /\ entry' = poller[p].read
  /\ poller' = [q \in Pollers |-> IF q = p \/ poller[q].pc = "waiting"
                                  THEN Shows(q, poller[p].read) ELSE poller[q]]

\* Its error ends the subscriptions of all that wait.
LoadFails(p) ==
  /\ poller[p].pc = "loading"
  /\ poller' = [q \in Pollers |-> IF q = p \/ poller[q].pc = "waiting"
                                  THEN Goes(q, "gone") ELSE poller[q]]
  /\ UNCHANGED entry

\* time_to_live has passed, or the cache is at max_capacity.
Expire ==
  /\ entry # None
  /\ entry' = None
  /\ UNCHANGED poller

\* Mutant: the wait for a query that is not run any more goes on.
LeaveMutant(p) ==
  /\ poller[p].pc \in {"sleeping", "waiting", "loading"}
  /\ poller' = [q \in Pollers |-> IF q = p THEN Goes(p, "gone")
                  ELSE IF poller[p].pc = "loading" /\ poller[q].pc = "waiting"
                       THEN Goes(q, "orphaned") ELSE poller[q]]
  /\ UNCHANGED entry
\* The client ends its subscription, which drops the query it runs.
Leave(p) ==
  /\ poller[p].pc # "gone"
  /\ poller' = [poller EXCEPT ![p] = Goes(p, "gone")]
  /\ UNCHANGED entry
==============================================================================
