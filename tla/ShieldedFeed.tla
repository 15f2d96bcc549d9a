----------------------------- MODULE ShieldedFeed -----------------------------
(***************************************************************************)
(* The subscription to a wallet's shielded transactions.  Unlike the       *)
(* feeds of LiveFeed it follows its table by position in the zswap state   *)
(* tree: each transaction covers the range of indexes [lo, hi) its         *)
(* commitments were inserted at, and the subscription goes on from the end *)
(* of the last range it sent, filling gaps with collapsed updates.  The    *)
(* table, relevant_transactions, is written by the wallet-indexer, which   *)
(* scans forward and, after a reconnect with a lower start index, backward *)
(* (module WalletIndexer, here with one transaction per batch).            *)
(***************************************************************************)
EXTENDS PubSub, ProgressCache, Paging

CONSTANTS
  MaxTx,       \* bound: regular transactions of the chain
  Scenarios,   \* chains, as the commitments each transaction inserts, which of them
               \* are the wallet's and how many are saved at first, with the clients
               \* there are: start indexes the wallet connects with, ids other
               \* wallets start at or reach, zswap indexes to start at, and
               \* subscriptions that poll progress, and the transport
  BatchSize    \* batch_size of the subscription

ASSUME MaxTxAssumption   == MaxTx \in Nat
ASSUME ScenarioAssumption ==
  \A s \in Scenarios : /\ s.size \in [1 .. MaxTx -> Nat] /\ s.relevant \subseteq 1 .. MaxTx
                       /\ s.saved \in 0 .. MaxTx
                       /\ s.starts \subseteq Nat /\ s.others \subseteq Nat
                       /\ s.indexes \subseteq Nat /\ s.pollers \subseteq Pollers
ASSUME BatchAssumption   == BatchSize \in Nat \ {0}

VARIABLES
  scenario,   \* of Scenarios
  tip,        \* transactions 1 .. tip are saved
  others,     \* the highest last_indexed_transaction_id of other wallets
  wallet,     \* the wallet's cursors wanted, first and last, and where it started
  recorded,   \* relevant_transactions of the wallet
  unsent,     \* a WalletIndexed message is to be published
  session,    \* the wallet has a session
  phase,      \* where the subscription is
  origin,     \* the index the client started at
  cursor,     \* the index driving the subscription
  next,       \* the index the running storage stream goes on from
  buffer,     \* transactions fetched and not yet sent
  sent        \* what the client got

index == <<tip, others, wallet, recorded, unsent>>
vars  == <<scenario, progress, index, session, phase, origin, cursor, next, buffer, sent, channel>>

Tx      == 1 .. MaxTx
Message == {"WalletIndexed"}
NoGap   == <<>>

\* zswap_first_free before and after applying the transaction.
Hi[t \in 0 .. MaxTx] == IF t = 0 THEN 0 ELSE Hi[t - 1] + scenario.size[t]
Lo(t) == Hi[t - 1]

-----------------------------------------------------------------------------
(* The chain, the wallet-indexer and the wallet's sessions.                *)

\* save_block of the chain-indexer.
SaveTransaction ==
  /\ tip < MaxTx
  /\ tip' = tip + 1
  /\ UNCHANGED <<scenario, progress, others, wallet, recorded, unsent, session, phase, origin,
                 cursor, next, buffer, sent, channel>>

\* Another wallet connects with this start index, which may lie ahead of the
\* chain, or is indexed up to it.
IndexOther(i) ==
  /\ others < i
  /\ others' = i
  /\ UNCHANGED <<scenario, progress, tip, wallet, recorded, unsent, session, phase, origin,
                 cursor, next, buffer, sent, channel>>

Record(t) ==
  /\ recorded' = recorded \cup ({t} \cap scenario.relevant)
  /\ unsent' = (unsent \/ t \in scenario.relevant)

\* The forward scan commits the next transaction.
ScanForward ==
  /\ wallet.first <= wallet.wanted
  /\ wallet.last < tip
  /\ wallet' = [wallet EXCEPT !.last = @ + 1]
  /\ Record(wallet.last + 1)
  /\ UNCHANGED <<scenario, progress, tip, others, session, phase, origin, cursor, next, buffer,
                 sent, channel>>

\* The backward scan commits the one before the first it has; when there is none,
\* it has got to the wanted index.
ScanBackward ==
  /\ wallet.first > wallet.wanted
  /\ LET below == {t \in 1 .. tip : wallet.wanted <= t /\ t < wallet.first}
     IN  \/ \E t \in below : /\ \A u \in below : u <= t
                             /\ wallet' = [wallet EXCEPT !.first = t]
                             /\ Record(t)
         \/ /\ below = {}
            /\ wallet' = [wallet EXCEPT !.first = wallet.wanted]
            /\ UNCHANGED <<recorded, unsent>>
  /\ UNCHANGED <<scenario, progress, tip, others, session, phase, origin, cursor, next, buffer,
                 sent, channel>>

\* Connect again; only a lower start index replaces the wanted one.
ConnectWallet(s) ==
  /\ session' = TRUE
  /\ wallet' = [wallet EXCEPT !.wanted = IF s < @ THEN s ELSE @]
  /\ UNCHANGED <<scenario, progress, tip, others, recorded, unsent, phase, origin, cursor, next,
                 buffer, sent, channel>>

DisconnectWallet ==
  /\ session' = FALSE
  /\ UNCHANGED <<scenario, progress, index, phase, origin, cursor, next, buffer, sent, channel>>

\* WalletIndexed is published after the commit.
Announce ==
  /\ unsent
  /\ Publish("WalletIndexed", "WalletIndexed")
  /\ unsent' = FALSE
  /\ UNCHANGED <<scenario, progress, tip, others, wallet, recorded, session, phase, origin, cursor,
                 next, buffer, sent>>

\* The wallet-indexer of the cloud build stops between the two.
StopIndexer ==
  /\ transport = "nats"
  /\ unsent
  /\ unsent' = FALSE
  /\ UNCHANGED <<scenario, progress, tip, others, wallet, recorded, session, phase, origin, cursor,
                 next, buffer, sent, channel>>

-----------------------------------------------------------------------------
(* The subscription.                                                       *)

\* shielded_transactions: a session that is unknown is the client's error.
Subscribe(i) ==
  /\ phase = "idle"
  /\ session
  /\ Open("WalletIndexed")
  /\ origin' = i /\ cursor' = i /\ next' = i
  /\ phase' = "fetching"
  /\ UNCHANGED <<scenario, progress, index, session, buffer, sent>>

\* get_relevant_transactions: of a wallet with a session, those that start at the
\* index or later, by id, at most a batch.
Batches(i) == Pages(IF session THEN {t \in recorded : Lo(t) >= i} ELSE {}, BatchSize)

\* The storage stream runs its next query; an empty batch ends it.
Fetch ==
  /\ phase = "fetching"
  /\ buffer = <<>>
  /\ buffer' \in Batches(next)
  /\ IF buffer' = <<>>
     THEN phase' = "waiting" /\ UNCHANGED next
     ELSE next' = Hi[buffer'[Len(buffer')]] /\ UNCHANGED phase
  /\ UNCHANGED <<scenario, progress, index, session, origin, cursor, sent, channel>>

\* The collapsed update sent along: the indexes between the cursor and the
\* transaction, if any.
Gap(t) == IF cursor < Lo(t) THEN <<cursor, Lo(t) - 1>> ELSE NoGap

\* Mutants: the end of the range is taken for its last index; the stream goes on
\* from the start of the range.
GoOnMutant(t) == Hi[t] + 1
\* The end index is exclusive.
GoOn(t) == Hi[t]

\* make_relevant_transaction; the client takes it.
Yield ==
  /\ buffer # <<>>
  /\ sent' = Append(sent, [tx |-> Head(buffer), gap |-> Gap(Head(buffer))])
  /\ cursor' = GoOn(Head(buffer))
  /\ buffer' = Tail(buffer)
  /\ UNCHANGED <<scenario, progress, index, session, phase, origin, next, channel>>

\* The stream of messages is polled when there is nothing left to send.
Poll ==
  /\ phase = "waiting"
  /\ Connect
  /\ UNCHANGED <<scenario, progress, index, session, phase, origin, cursor, next, buffer, sent>>

Wake ==
  /\ phase = "waiting"
  /\ Receive("WalletIndexed")
  /\ phase' = "fetching"
  /\ next' = cursor
  /\ UNCHANGED <<scenario, progress, index, session, origin, cursor, buffer, sent>>

Fail ==
  /\ phase = "waiting"
  /\ ReceiveLagged
  /\ phase' = "failed"
  /\ UNCHANGED <<scenario, progress, index, session, origin, cursor, next, buffer, sent>>

Drop ==
  /\ Disconnect
  /\ UNCHANGED <<scenario, progress, index, session, phase, origin, cursor, next, buffer, sent>>

-----------------------------------------------------------------------------
(* The progress of the wallet.                                             *)

\* MAX(last_indexed_transaction_id) of the wallets.
LastIndexed == IF wallet.last < others THEN others ELSE wallet.last

\* get_highest_zswap_end_indices, one statement: of the chain, of the last
\* transaction checked for any wallet, if there is a regular one with its id, and
\* of the last recorded for the wallet, if it has a session.
HighestZswapEndIndices ==
  [highest  |-> IF tip > 0 THEN Hi[tip] ELSE None,
   checked  |-> IF LastIndexed \in 1 .. tip THEN Hi[LastIndexed] ELSE None,
   relevant |-> IF session /\ recorded # {}
                THEN Hi[CHOOSE t \in recorded : \A u \in recorded : u <= t] ELSE None]

\* make_progress of a subscription.
MakeProgress(p) ==
  /\ \/ PollProgress(p)
     \/ Load(p, HighestZswapEndIndices)
     \/ Store(p)
  /\ UNCHANGED <<scenario, index, session, phase, origin, cursor, next, buffer, sent, channel>>

EndProgress(p) ==
  /\ LoadFails(p) \/ Leave(p)
  /\ UNCHANGED <<scenario, index, session, phase, origin, cursor, next, buffer, sent, channel>>

ExpireProgress ==
  /\ Expire
  /\ UNCHANGED <<scenario, index, session, phase, origin, cursor, next, buffer, sent, channel>>

-----------------------------------------------------------------------------

Init ==
  /\ scenario \in Scenarios
  /\ tip = scenario.saved
  /\ others = 0
  /\ \E s \in scenario.starts : wallet = [wanted |-> s, first |-> s, last |-> s, start |-> s]
  /\ recorded = {}
  /\ unsent = FALSE
  /\ session = TRUE
  /\ phase = "idle"
  /\ origin = 0 /\ cursor = 0 /\ next = 0
  /\ buffer = <<>> /\ sent = <<>>
  /\ ChannelInit /\ transport = scenario.transport
  /\ ProgressInit

Next ==
  \/ SaveTransaction
  \/ \E i \in scenario.others : IndexOther(i)
  \/ ScanForward
  \/ ScanBackward
  \/ \E s \in scenario.starts : ConnectWallet(s)
  \/ DisconnectWallet
  \/ Announce
  \/ StopIndexer
  \/ \E i \in scenario.indexes : Subscribe(i)
  \/ Fetch
  \/ Yield
  \/ Poll
  \/ Wake
  \/ Fail
  \/ Drop
  \/ \E p \in scenario.pollers : MakeProgress(p) \/ EndProgress(p)
  \/ ExpireProgress

Spec == Init /\ [][Next]_vars

\* Tasks are scheduled, queries and polls return, and the client keeps reading.
FairSpec ==
  /\ Spec
  /\ WF_vars(Announce)
  /\ WF_vars(Fetch)
  /\ WF_vars(Yield)
  /\ WF_vars(Wake)
  /\ WF_vars(Fail)
  /\ \A p \in Pollers : WF_vars(p \in scenario.pollers /\ MakeProgress(p))

-----------------------------------------------------------------------------
(* Properties.                                                             *)

\* What the client gets fits together: each transaction comes with a collapsed
\* update for exactly the indexes between the end of what it got before and the
\* transaction, so its tree has neither a hole nor an index twice, across
\* disconnects, reconnects and lost messages.
SentFitsTogether ==
  \A n \in DOMAIN sent :
    LET before == IF n = 1 THEN origin ELSE Hi[sent[n - 1].tx]
        item   == sent[n]
    IN  IF item.gap = NoGap THEN Lo(item.tx) = before
        ELSE item.gap[1] = before /\ item.gap[2] = Lo(item.tx) - 1 /\ before < Lo(item.tx)

\* The transactions found by scanning forward.
Forward == {t \in recorded : t > wallet.start}

\* A transaction a forward scan recorded is sent once a message published after it
\* has arrived, as long as the wallet keeps its session and the subscription does
\* not fail.
AnnouncedIsSent ==
  \A t \in Tx :
    (/\ t \in Forward /\ Lo(t) >= origin /\ queue # <<>> /\ ~unsent)
      ~> (~session \/ phase = "failed" \/ \E n \in DOMAIN sent : sent[n].tx = t)

AsShown(i) == IF i = None THEN 0 ELSE i

GoesForward(old, new) ==
  /\ AsShown(old.highest) <= AsShown(new.highest)
  /\ AsShown(old.checked) <= AsShown(new.checked) \/ new.checked = None
  /\ AsShown(old.relevant) <= AsShown(new.relevant) \/ new.relevant = None

\* No more is checked than there is, and what is relevant was checked.
InOrder(v) ==
  /\ AsShown(v.checked) <= AsShown(v.highest)
  /\ v.checked # None => AsShown(v.relevant) <= v.checked

\* The progress a client sees fits together and does not go back, although every
\* subscription of the wallet may have run the query.  The exceptions are falls to
\* zero: of the relevant index, when the wallet has no session; of the checked
\* one, which is that of all wallets, while the last id one of them has, by its
\* start index, is that of no regular transaction.
ProgressGoesForward ==
  [][\A p \in Pollers :
       LET old == poller[p].last
           new == poller'[p].last
       IN  new # old => InOrder(new) /\ (old # None => GoesForward(old, new))]_vars

\* A subscription that polls its progress gets it, or ends, although the one
\* that runs the query for it may end before it returns.
PollsAreAnswered ==
  \A p \in Pollers : []<>(poller[p].pc \in {"sleeping", "gone"})

-----------------------------------------------------------------------------
(* The inductive invariant behind SentFitsTogether.                        *)

\* Types; what is recorded is saved, and not beyond the wallet's last cursor.
TypeOK ==
  /\ scenario \in Scenarios
  /\ wallet \in [wanted : Int, first : Int, last : Nat, start : Int]
  /\ tip \in 0 .. MaxTx /\ others \in Nat
  /\ wallet.first <= wallet.last
  /\ recorded \subseteq {t \in 1 .. tip : t <= wallet.last}
  /\ phase \in {"idle", "fetching", "waiting", "failed"}
  /\ origin \in Nat /\ cursor \in Nat /\ next \in Nat
  /\ buffer \in Seq(Tx)
  /\ sent \in Seq([tx : Tx, gap : {NoGap} \cup (Nat \X Nat)])

\* The subscription goes on from the end of what it sent last.
CursorIsEnd ==
  /\ cursor = IF sent = <<>> THEN origin ELSE Hi[sent[Len(sent)].tx]
  /\ phase = "idle" => sent = <<>>

\* What is fetched starts at the cursor or later, in the order of the chain, and
\* the storage stream goes on from its end.
BufferFollows ==
  /\ phase # "fetching" => buffer = <<>>
  /\ phase = "fetching" => next = IF buffer = <<>> THEN cursor ELSE Hi[buffer[Len(buffer)]]
  /\ buffer # <<>> => cursor <= Lo(buffer[1])
  /\ \A i, j \in DOMAIN buffer : i < j => buffer[i] < buffer[j]

IndInv == TypeOK /\ CursorIsEnd /\ BufferFollows /\ SentFitsTogether

(* And the one behind ProgressGoesForward.  What was read is not ahead of  *)
(* the tables, what is shown is not ahead of what is cached or being read, *)
(* and nothing is read while there is an entry.                            *)

Indices == [highest : Nat \cup {None}, checked : Nat \cup {None}, relevant : Nat \cup {None}]

IsReached(v) ==
  /\ v \in Indices
  /\ InOrder(v)
  /\ AsShown(v.highest) <= Hi[tip]
  /\ v.checked # None => \E t \in 1 .. tip : t <= LastIndexed /\ v.checked <= Hi[t]
  /\ v.relevant # None => \E t \in recorded : v.relevant <= Hi[t]

Shown(p) == poller[p].last

PollersOK ==
  /\ poller \in [Pollers -> [pc : {"sleeping", "waiting", "loading", "gone"},
                             read : Indices \cup {None}, last : Indices \cup {None}]]
  /\ entry # None => With("waiting") = {} /\ With("loading") = {}
  /\ \A p, q \in With("loading") : p = q

ReadIsReached ==
  /\ entry # None => IsReached(entry)
  /\ \A p \in With("loading") : IsReached(poller[p].read)
  /\ \A p \in Pollers : Shown(p) # None => IsReached(Shown(p))

ShownIsBehind ==
  \A p \in Pollers : Shown(p) # None =>
    /\ entry # None => GoesForward(Shown(p), entry)
    /\ \A q \in With("loading") : GoesForward(Shown(p), poller[q].read)

ProgressInv == PollersOK /\ ReadIsReached /\ ShownIsBehind
===============================================================================
