----------------------------- MODULE WalletIndexer -----------------------------
(***************************************************************************)
(* Indexing one wallet.  indexer-api connects and disconnects the wallet   *)
(* and keeps its session active; the chain-indexer saves transactions and  *)
(* announces their highest id; replicas of the wallet-indexer list the     *)
(* active wallets and scan the transactions table for those relevant to    *)
(* the wallet, forward from where it was first connected and, after a      *)
(* reconnect with a lower start index, backward.                           *)
(*                                                                         *)
(* Wallets share nothing but the tables, so one wallet is modelled.  An    *)
(* announcement may be delayed or lost; any replica may stop between two   *)
(* steps and come back.                                                    *)
(***************************************************************************)
EXTENDS Integers, FiniteSets

CONSTANTS
  Replicas,       \* instances of the wallet-indexer
  MaxId,          \* bound: transaction ids
  MaxPerBlock,    \* bound: transactions of a block
  BatchSize,      \* transaction_batch_size
  StartIndexes,   \* start indexes wallets connect with
  MaxSessions,    \* bound: sessions ever created
  MaxExpiries,    \* bound: how often the TTL passes without activity
  MaxStops        \* bound: how often a replica stops

ASSUME BoundsAssumption == /\ MaxId \in Nat /\ MaxPerBlock \in Nat
                           /\ MaxSessions \in Nat /\ MaxExpiries \in Nat /\ MaxStops \in Nat
ASSUME BatchSizeAssumption  == BatchSize \in Nat \ {0}
ASSUME StartIndexAssumption == StartIndexes \subseteq Nat

VARIABLES
  kind,      \* transactions table: what each is, from the wallet's point of view
  saved,     \* transactions 1..saved are in the table
  wallet,    \* the row of the wallets table, NoWallet before the first connect
  recorded,  \* relevant_transactions of the wallet
  session,   \* session_id, 0 for NULL
  sessions,  \* how many sessions were created
  recent,    \* last_active is within the TTL
  expiries,  \* how often it got older than that
  worker,    \* per replica: the task working on the wallet
  listing,   \* per replica: the active_wallet_ids stream
  maxSeen,   \* per replica: max_transaction_id
  inbox,     \* per replica: BlockIndexed events on the way, their ids
  notified,  \* what was recorded when WalletIndexed was last published
  failed,    \* an insert broke a unique constraint
  stops      \* how often a replica stopped

tables  == <<kind, saved, wallet, recorded>>
account == <<session, sessions, recent, expiries>>
vars    == <<tables, account, worker, listing, maxSeen, inbox, notified,
             failed, stops>>

Id       == 1 .. MaxId
Kind     == {"relevant", "regular", "system"}
Unsaved  == "unsaved"
Infinity == MaxId + 1     \* u64::MAX
NoWallet == [wanted |-> -1, first |-> -1, last |-> -1, origin |-> -1, ahead |-> FALSE]

Regular  == {t \in 1 .. saved : kind[t] # "system"}
Relevant == {t \in 1 .. saved : kind[t] = "relevant"}

Idle    == [at |-> "idle", wanted |-> 0, batch |-> {}]
Unasked == [at |-> "stopped", listed |-> FALSE]

-----------------------------------------------------------------------------
(* indexer-api: sessions.                                                  *)

\* The smaller of two.
Lower(a, b) == IF a <= b THEN a ELSE b

\* ON CONFLICT: only a lower start index replaces the wanted one.
Reconnected(w, start) == [w EXCEPT !.wanted = Lower(@, start)]

\* connect_wallet.  `origin' remembers where the row was created and `ahead' that
\* the transaction there was not saved yet.
Connect(start) ==
  /\ sessions < MaxSessions
  /\ wallet' = IF wallet = NoWallet
               THEN [wanted |-> start, first |-> start, last |-> start,
                     origin |-> start, ahead |-> start > saved]
               ELSE Reconnected(wallet, start)
  /\ sessions' = sessions + 1
  /\ session' = sessions + 1
  /\ recent' = TRUE
  /\ UNCHANGED <<kind, saved, recorded, expiries, worker, listing, maxSeen, inbox,
                 notified, failed, stops>>

\* disconnect_wallet: a session that was replaced or ended matches no row.
Disconnect(s) ==
  /\ session = s
  /\ session' = 0
  /\ UNCHANGED <<tables, sessions, recent, expiries, worker, listing, maxSeen,
                 inbox, notified, failed, stops>>

\* keep_wallet_active, called by the wallet's subscriptions.
KeepActive ==
  /\ session # 0
  /\ recent' = TRUE
  /\ UNCHANGED <<tables, session, sessions, expiries, worker, listing, maxSeen,
                 inbox, notified, failed, stops>>

\* The TTL passes without activity.  Nothing reads last_active of a wallet that
\* has no session, and connecting sets it.
TimePasses ==
  /\ session # 0 /\ recent
  /\ expiries < MaxExpiries
  /\ recent' = FALSE
  /\ expiries' = expiries + 1
  /\ UNCHANGED <<tables, session, sessions, worker, listing, maxSeen, inbox,
                 notified, failed, stops>>

-----------------------------------------------------------------------------
(* The chain-indexer: save_block, then BlockIndexed.                       *)

\* A block of n transactions is saved.  BlockIndexed carries the highest regular
\* id of the block, if any; it reaches only some of the running replicas.
SaveBlock(n) ==
  LET new == saved + 1 .. saved + n
      ids == {t \in new : kind'[t] # "system"}
  IN  /\ saved + n <= MaxId
      /\ saved' = saved + n
      /\ \E k \in [new -> Kind] :
           kind' = [t \in Id |-> IF t \in new THEN k[t] ELSE kind[t]]
      /\ \E reached \in SUBSET {r \in Replicas : listing[r].at # "stopped"} :
           inbox' = [r \in Replicas |->
                       IF r \in reached
                       THEN inbox[r] \cup {t \in ids : \A u \in ids : u <= t}
                       ELSE inbox[r]]
      /\ UNCHANGED <<wallet, recorded, account, worker, listing, maxSeen, notified,
                     failed, stops>>

\* block_indexed_task: events arrive in the order they were published.
ReceiveBlockIndexed(r) ==
  /\ \E id \in inbox[r] :
       /\ \A other \in inbox[r] : id <= other
       /\ inbox' = [inbox EXCEPT ![r] = @ \ {id}]
       /\ maxSeen' = [maxSeen EXCEPT ![r] = IF @ = Infinity \/ @ < id THEN id ELSE @]
  /\ UNCHANGED <<tables, account, worker, listing, notified, failed, stops>>

-----------------------------------------------------------------------------
(* wallet-indexer: the stream of active wallets.                           *)

\* active_wallet_ids reads the rows that have a session; the next query is an
\* update if one of them is outdated.
ListWallets(r) ==
  /\ listing[r].at = "cycling"
  /\ listing' = [listing EXCEPT ![r] =
                   [at |-> IF session # 0 /\ ~recent THEN "expiring" ELSE "cycling",
                    listed |-> session # 0 /\ recent]]
  /\ UNCHANGED <<tables, account, worker, maxSeen, inbox, notified, failed, stops>>

\* Mutant: the session is ended on the strength of what was read before.
OutdatedMutant == TRUE

\* The update applies to a row that is still outdated.
Outdated == ~recent

\* End the session of the row read as outdated, unless the database refuses the
\* update for now; the list is the rows read as active.
ExpireSessions(r) ==
  /\ listing[r].at = "expiring"
  /\ session' \in IF Outdated THEN {0, session} ELSE {session}
  /\ listing' = [listing EXCEPT ![r].at = "cycling"]
  /\ UNCHANGED <<tables, sessions, recent, expiries, worker, maxSeen, inbox,
                 notified, failed, stops>>

\* The wallet is in the list being cycled, which may be outdated itself.
Listed(r) == listing[r].listed

-----------------------------------------------------------------------------
(* wallet-indexer: index_wallet.                                           *)

\* Mutant: no lock among the replicas.
LockIsFreeMutant(r) == worker[r].at = "idle"

\* The replica's semaphore, and the advisory lock held to the end of the
\* database transaction.
LockIsFree(r) ==
  /\ worker[r].at = "idle"
  /\ \A other \in Replicas : worker[other].at \notin {"backward", "forward"}

\* get_transactions_in_range: the highest regular ids in [from, to).
BackwardBatch(from, to) ==
  {t \in Regular : /\ from <= t /\ t < to
                   /\ Cardinality({u \in Regular : t < u /\ u < to}) < BatchSize}

\* get_transactions: the lowest regular ids from on.
ForwardBatch(from) ==
  {t \in Regular : /\ from <= t
                   /\ Cardinality({u \in Regular : from <= u /\ u < t}) < BatchSize}

\* Lock the wallet, read it and fetch the transactions of the backward gap.
ScanBackward(r) ==
  /\ listing[r].at = "cycling"
  /\ Listed(r)
  /\ LockIsFree(r)
  /\ wallet.first > wallet.wanted
  /\ worker' = [worker EXCEPT ![r] =
                  [at |-> "backward", wanted |-> wallet.wanted,
                   batch |-> BackwardBatch(wallet.wanted, wallet.first)]]
  /\ UNCHANGED <<tables, account, listing, maxSeen, inbox, notified, failed, stops>>

\* Mutant: the scan starts behind the first transaction it should read.
ForwardFromMutant == wallet.last + 2

ForwardFrom == wallet.last + 1

\* Without a gap: fetch the transactions after the last one, unless the events
\* say that there are none; finding none ends the task without a commit.
ScanForward(r) ==
  /\ listing[r].at = "cycling"
  /\ Listed(r)
  /\ LockIsFree(r)
  /\ wallet.first <= wallet.wanted
  /\ wallet.last < maxSeen[r]
  /\ ForwardBatch(ForwardFrom) # {}
  /\ worker' = [worker EXCEPT ![r] = [at |-> "forward", wanted |-> wallet.wanted,
                                       batch |-> ForwardBatch(ForwardFrom)]]
  /\ UNCHANGED <<tables, account, listing, maxSeen, inbox, notified, failed, stops>>

Found(r) == worker[r].batch \cap Relevant

\* Mutant: the test for having found something is inverted.
RecordMutant(r, row) ==
  IF Found(r) \cap recorded # {}
  THEN /\ failed' = TRUE
       /\ worker' = [worker EXCEPT ![r] = Idle]
       /\ UNCHANGED <<recorded, wallet>>
  ELSE /\ recorded' = recorded \cup Found(r)
       /\ wallet' = row
       /\ worker' = [worker EXCEPT ![r] = IF Found(r) # {} THEN Idle
                                          ELSE [Idle EXCEPT !.at = "committed"]]
       /\ UNCHANGED failed

\* Inserting a transaction twice for the wallet breaks a unique constraint and
\* rolls everything back; the error ends the process.
Record(r, row) ==
  IF Found(r) \cap recorded # {}
  THEN /\ failed' = TRUE
       /\ worker' = [worker EXCEPT ![r] = Idle]
       /\ UNCHANGED <<recorded, wallet>>
  ELSE /\ recorded' = recorded \cup Found(r)
       /\ wallet' = row
       /\ worker' = [worker EXCEPT ![r] = IF Found(r) = {} THEN Idle
                                          ELSE [Idle EXCEPT !.at = "committed"]]
       /\ UNCHANGED failed

\* Mutant: a gap without transactions leaves the first index where it is.
NewFirstMutant(r) ==
  IF worker[r].batch = {} THEN {wallet.first}
  ELSE {t \in worker[r].batch : \A u \in worker[r].batch : t <= u}

\* The lowest transaction of the batch, or the wanted index read with the wallet
\* if there was none.
NewFirst(r) ==
  IF worker[r].batch = {} THEN {worker[r].wanted}
  ELSE {t \in worker[r].batch : \A u \in worker[r].batch : t <= u}

\* save_backward_relevant_transactions and commit.
CommitBackward(r) ==
  /\ worker[r].at = "backward"
  /\ \E id \in NewFirst(r) : Record(r, [wallet EXCEPT !.first = id])
  /\ UNCHANGED <<kind, saved, account, listing, maxSeen, inbox, notified, stops>>

\* save_relevant_transactions and commit.
CommitForward(r) ==
  /\ worker[r].at = "forward"
  /\ \E id \in worker[r].batch :
       /\ \A other \in worker[r].batch : other <= id
       /\ Record(r, [wallet EXCEPT !.last = id])
  /\ UNCHANGED <<kind, saved, account, listing, maxSeen, inbox, notified, stops>>

\* Publish WalletIndexed after the commit, if anything was found.
PublishWalletIndexed(r) ==
  /\ worker[r].at = "committed"
  /\ worker' = [worker EXCEPT ![r] = Idle]
  /\ notified' = recorded
  /\ UNCHANGED <<tables, account, listing, maxSeen, inbox, failed, stops>>

-----------------------------------------------------------------------------
(* Replicas come and go; an open database transaction is rolled back.      *)

StartReplica(r) ==
  /\ listing[r].at = "stopped"
  /\ listing' = [listing EXCEPT ![r].at = "cycling"]
  /\ UNCHANGED <<tables, account, worker, maxSeen, inbox, notified, failed, stops>>

StopReplica(r) ==
  /\ listing[r].at # "stopped"
  /\ stops < MaxStops
  /\ stops' = stops + 1
  /\ worker' = [worker EXCEPT ![r] = Idle]
  /\ listing' = [listing EXCEPT ![r] = Unasked]
  /\ maxSeen' = [maxSeen EXCEPT ![r] = Infinity]
  /\ inbox' = [inbox EXCEPT ![r] = {}]
  /\ UNCHANGED <<tables, account, notified, failed>>

Init ==
  /\ kind = [t \in Id |-> Unsaved]
  /\ saved = 0
  /\ wallet = NoWallet
  /\ recorded = {}
  /\ session = 0
  /\ sessions = 0
  /\ recent = FALSE
  /\ expiries = 0
  /\ worker = [r \in Replicas |-> Idle]
  /\ listing = [r \in Replicas |-> Unasked]
  /\ maxSeen = [r \in Replicas |-> Infinity]
  /\ inbox = [r \in Replicas |-> {}]
  /\ notified = {}
  /\ failed = FALSE
  /\ stops = 0

\* The task that cycles through the active wallets.
Listing(r) == StartReplica(r) \/ ListWallets(r) \/ ExpireSessions(r)

\* index_wallet, from taking the lock to publishing what was found.
Indexing(r) ==
  \/ ScanBackward(r)
  \/ ScanForward(r)
  \/ CommitBackward(r)
  \/ CommitForward(r)
  \/ PublishWalletIndexed(r)

Next ==
  \/ \E start \in StartIndexes : Connect(start)
  \/ \E s \in 1 .. sessions : Disconnect(s)
  \/ KeepActive
  \/ TimePasses
  \/ \E n \in 1 .. MaxPerBlock : SaveBlock(n)
  \/ \E r \in Replicas :
       ReceiveBlockIndexed(r) \/ Listing(r) \/ Indexing(r) \/ StopReplica(r)

Spec == Init /\ [][Next]_vars

\* Every task of a running replica is scheduled, and the wallet's client keeps
\* its subscription open.
FairSpec ==
  /\ Spec
  /\ WF_vars(KeepActive)
  /\ \A r \in Replicas :
       /\ WF_vars(ReceiveBlockIndexed(r))
       /\ WF_vars(Listing(r))
       /\ WF_vars(Indexing(r))

-----------------------------------------------------------------------------
(* Properties.                                                             *)

\* Tables and replicas have these types; in particular only relevant transactions
\* are recorded and only recorded ones are notified.
TypeOK ==
  /\ \A t \in Id : kind[t] \in IF t <= saved THEN Kind ELSE {Unsaved}
  /\ saved \in 0 .. MaxId
  /\ wallet = NoWallet \/ (/\ {wallet.wanted, wallet.first, wallet.last} \subseteq Nat
                           /\ wallet.origin \in StartIndexes /\ wallet.ahead \in BOOLEAN)
  /\ recorded \subseteq Relevant
  /\ session \in 0 .. sessions
  /\ sessions \in 0 .. MaxSessions
  /\ recent \in BOOLEAN
  /\ expiries \in 0 .. MaxExpiries
  /\ \A r \in Replicas :
       /\ worker[r].at \in {"idle", "backward", "forward", "committed"}
       /\ worker[r].batch \subseteq Regular
       /\ listing[r].at \in {"stopped", "cycling", "expiring"}
       /\ maxSeen[r] \in Id \cup {Infinity}
       /\ inbox[r] \subseteq Id
  /\ notified \subseteq recorded
  /\ failed \in BOOLEAN
  /\ stops \in 0 .. MaxStops

\* Two replicas never record the same transaction for a wallet, whose unique
\* constraint would bring one of them down.
NeverRecordedTwice == ~failed

\* What is recorded lies between the wallet's two cursors, and what is relevant
\* between them is recorded, whatever the batches, reconnects and stops: no scan
\* reaches beyond the cursors and none skips a transaction.  Nothing is said of
\* the transaction at the wallet's first start index, nor of those below it when
\* the wallet was created ahead of the saved transactions.
CursorsBoundRecorded ==
  LET between == {t \in Relevant : wallet.first <= t /\ t <= wallet.last}
  IN  /\ recorded \subseteq between
      /\ \A t \in between \ recorded :
           t = wallet.origin \/ (wallet.ahead /\ t < wallet.origin)

\* The cursors only move apart: no commit undoes another's progress.
CursorsMoveApart ==
  [][wallet # NoWallet => /\ wallet'.first <= wallet.first
                          /\ wallet'.last >= wallet.last
                          /\ wallet'.wanted <= wallet.wanted]_vars

\* The wallet-indexer never ends a session that is active: only its client does.
ActiveSessionsSurvive ==
  [][session # 0 /\ session' = 0 /\ recent => Disconnect(session)]_vars

Connected == session # 0 /\ wallet # NoWallet

\* While the client stays connected, both scans get where they should: a
\* transaction that a running replica was told of is recorded in the end, and
\* the gap that a lower start index opens is closed.
ScansFinish ==
  /\ \A t \in Id :
       (<>[]Connected /\ <>[](\E r \in Replicas : maxSeen[r] \in t .. MaxId))
         => <>[](kind[t] = "relevant" /\ t > wallet.origin => t \in recorded)
  /\ <>[]Connected => <>[](wallet.first = wallet.wanted)

\* Each commit that records something is followed by an event that makes known
\* all there is by then, so also what an earlier event failed to.  The exception
\* is a replica that stops in between: what it committed stays unannounced until
\* the wallet's next event.
RecordedIsNotified ==
  /\ [][recorded' # recorded => \E r \in Replicas : worker'[r].at = "committed"]_vars
  /\ \A r \in Replicas :
       worker[r].at = "committed" ~> (notified = recorded \/ listing[r].at = "stopped")

=============================================================================
