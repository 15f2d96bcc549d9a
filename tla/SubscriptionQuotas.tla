-------------------------- MODULE SubscriptionQuotas --------------------------
(***************************************************************************)
(* The quotas of GraphQL subscriptions: how many are active on a WebSocket *)
(* connection, and how fast a session may start new ones.  A subscription  *)
(* is counted on its connection first, asks its session's token bucket     *)
(* next, and gives its place on the connection back when it ends.          *)
(*                                                                         *)
(* A token is Minute parts, of which the bucket gains                      *)
(* MaxSessionSubscriptionsPerMinute each second; time is in seconds.       *)
(***************************************************************************)
EXTENDS Integers, Sequences

CONSTANTS
  None,
  Connections, Sessions,
  MaxConcurrentPerConnection,         \* max_concurrent_per_connection
  MaxSessionSubscriptionsPerMinute,   \* max_session_subscriptions_per_minute
  Minute                              \* the seconds of a minute

ASSUME QuotaConfig ==
  {MaxConcurrentPerConnection, MaxSessionSubscriptionsPerMinute, Minute} \subseteq Nat \ {0}

ASSUME NoneIsNoBucket == None \notin [tokens : Nat, last : Nat]

VARIABLES
  counter,   \* active subscriptions per connection
  buckets,   \* the token bucket of each session, None before its first use
  clock,     \* the time now
  taken      \* when a session's tokens were taken

quotas == <<counter, buckets, clock, taken>>

QuotaInit ==
  /\ counter = [c \in Connections |-> 0]
  /\ buckets = [s \in Sessions |-> None]
  /\ clock = 0
  /\ taken = [s \in Sessions |-> <<>>]

\* fetch_update on the connection's counter
MayCount(c) == counter[c] < MaxConcurrentPerConnection
Count(c) == counter' = [counter EXCEPT ![c] = @ + 1]
GiveBack(c) == counter' = [counter EXCEPT ![c] = @ - 1]

Capacity == MaxSessionSubscriptionsPerMinute * Minute
TokenBucketNew == [tokens |-> Capacity, last |-> clock]
\* Mutant: idle time beyond a full bucket counts.
RefilledMutant(bucket) == bucket.tokens + (clock - bucket.last) * MaxSessionSubscriptionsPerMinute
Refilled(bucket) ==
  LET tokens == bucket.tokens + (clock - bucket.last) * MaxSessionSubscriptionsPerMinute
  IN  IF tokens < Capacity THEN tokens ELSE Capacity
MayTake(s) == Refilled(IF buckets[s] = None THEN TokenBucketNew ELSE buckets[s]) >= Minute
\* try_take, after or_insert_with
TryTake(s) ==
  LET tokens == Refilled(IF buckets[s] = None THEN TokenBucketNew ELSE buckets[s])
  IN  /\ buckets' = [buckets EXCEPT ![s] =
           [tokens |-> IF MayTake(s) THEN tokens - Minute ELSE tokens, last |-> clock]]
      /\ taken' = IF MayTake(s) THEN [taken EXCEPT ![s] = Append(@, clock)] ELSE taken

Tick == clock' = clock + 1

\* A session never starts more subscriptions in any stretch of time than a
\* full bucket and what it gains meanwhile allow.
RateIsBounded ==
  \A s \in Sessions : \A i, j \in DOMAIN taken[s] :
    i <= j => (j - i + 1) * Minute
                <= Capacity + (taken[s][j] - taken[s][i]) * MaxSessionSubscriptionsPerMinute
==============================================================================
