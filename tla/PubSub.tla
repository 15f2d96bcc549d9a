-------------------------------- MODULE PubSub --------------------------------
(***************************************************************************)
(* One subscription to one topic of the pub/sub layer, as its two          *)
(* implementations provide it: NATS in the cloud build, broadcast channels *)
(* of the one process in the standalone build.  The modules of the         *)
(* subscriptions extend this one; its operators are conjuncts of their     *)
(* actions.                                                                *)
(***************************************************************************)
EXTENDS Integers, Sequences

CONSTANTS
  Transports,  \* the builds to consider: "nats" for cloud, "in_mem" for standalone
  Capacity     \* what a broadcast channel retains

ASSUME TransportsAssumption == Transports \subseteq {"nats", "in_mem"}
ASSUME CapacityAssumption  == Capacity \in Nat \ {0}

VARIABLES
  transport, \* what this build uses
  link,      \* "unopened", "down" (no subscription at the broker) or "up"
  queue,     \* messages published and not yet received
  lagged,    \* a broadcast channel dropped messages since the last receive
  panicked   \* a task was given a topic it does not know

channel == <<transport, link, queue, lagged, panicked>>

InMemTopics == {"BlockIndexed", "WalletIndexed", "UnshieldedUtxoIndexed"}

Known(topic) == transport = "nats" \/ topic \in InMemTopics

ChannelInit == /\ transport \in Transports
               /\ link = "unopened" /\ queue = <<>> /\ lagged = FALSE /\ panicked = FALSE

\* Mutant: the broadcast receiver is created when it is first polled.
OpenMutant(topic) ==
  /\ panicked' = ~Known(topic)
  /\ link' = "down"
  /\ UNCHANGED <<transport, queue, lagged>>

\* subscribe: the in-memory receiver exists at once; the NATS subscription is
\* made when the stream is first polled.
Open(topic) ==
  /\ panicked' = ~Known(topic)
  /\ link' = IF transport = "in_mem" THEN "up" ELSE "down"
  /\ UNCHANGED <<transport, queue, lagged>>

\* Polling the NATS stream while there is no subscription makes one, again after
\* the last one ended.
Connect ==
  /\ link = "down"
  /\ link' = "up"
  /\ UNCHANGED <<transport, queue, lagged, panicked>>

\* The NATS subscription ends; what has arrived stays readable.
Disconnect ==
  /\ transport = "nats"
  /\ link = "up"
  /\ link' = "down"
  /\ UNCHANGED <<transport, queue, lagged, panicked>>

\* publish.  A message nobody is subscribed to is gone; NATS may lose any other;
\* a full broadcast channel drops the oldest.
Publish(topic, message) ==
  /\ panicked' = (panicked \/ ~Known(topic))
  /\ \/ /\ link = "up"
        /\ Known(topic)
        /\ IF transport = "in_mem" /\ Len(queue) = Capacity
           THEN queue' = Append(Tail(queue), message) /\ lagged' = TRUE
           ELSE queue' = Append(queue, message) /\ lagged' = lagged
     \/ /\ transport = "nats" \/ link # "up" \/ ~Known(topic)
        /\ UNCHANGED <<queue, lagged>>
  /\ UNCHANGED <<transport, link>>

\* The next message of the stream.
Receive(message) ==
  /\ ~lagged
  /\ queue # <<>>
  /\ message = Head(queue)
  /\ queue' = Tail(queue)
  /\ UNCHANGED <<transport, link, lagged, panicked>>

\* The broadcast receiver fell behind: the stream's next item is an error.
ReceiveLagged ==
  /\ lagged
  /\ lagged' = FALSE
  /\ UNCHANGED <<transport, link, queue, panicked>>

===============================================================================
