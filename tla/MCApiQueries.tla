---------------------------- MODULE MCApiQueries ----------------------------
(* Queries of every kind while a chain of ledger 9 is indexed.             *)
EXTENDS ApiQueries, MCIndexing

Latest == [by |-> "latest", at |-> 0]
ByHeight(h) == [by |-> "height", at |-> h]
ByHash(h) == [by |-> "hash", at |-> h]

\* a second generation of the same owner
More == [Dust EXCEPT !.hash = "s8",
           !.events = <<[Ev("DustInitialUtxo") EXCEPT !.night = <<<<"i1", 0>>, 1>>, !.owner = "p",
                          !.value = 1]>>]

ApiBodies ==
  { [b EXCEPT !.inherents = IF b.name = "dust" THEN Append(@, System(More)) ELSE @,
              !.events = IF b.name = "bridge"
                         THEN @ \o <<Bridged("UnapprovedTransfer", "s9", 2, "alice", None),
                                     Bridged("ReserveTransfer", "s7", 3, None, None)>>
                         ELSE SelectSeq(@, LAMBDA e : e.event # "Deregistration")] :
      b \in {x \in MCBodies : x.name \notin {"upgrade", "flush"}} }
ApiGeneses == {g \in MCGeneses : g.version = 2000000}

MCRequests ==
  { [kind |-> "block", offset |-> o, address |-> "c"] : o \in {Latest, ByHeight(1), ByHash(2)} }
    \cup { [kind |-> "transaction", offset |-> o] :
             o \in {[by |-> "hash", at |-> "t2"], [by |-> "id", at |-> "t4"]} }
    \cup { [kind |-> "contract", offset |-> o, address |-> "c"] :
             o \in {Latest, ByHeight(1), ByHash(3)} }
    \cup { [kind |-> k, key |-> "k"] : k \in {"dust", "status"} }
    \cup { [kind |-> "pool", height |-> h] : h \in {None, 1} }
    \cup { [kind |-> "balance", address |-> "alice"] }

Unfiltered == [address |-> "c", types |-> None, prefixes |-> {}, from |-> None, to |-> None, hash |-> None]
MCEventFilters ==
  { Unfiltered, [Unfiltered EXCEPT !.types = {"Misc"}], [Unfiltered EXCEPT !.types = {}], [Unfiltered EXCEPT !.address = "d"],
    [Unfiltered EXCEPT !.from = 2], [Unfiltered EXCEPT !.from = 3, !.to = 1], [Unfiltered EXCEPT !.to = 2],
    [Unfiltered EXCEPT !.hash = "t2"], [Unfiltered EXCEPT !.prefixes = {[name |-> "sender", prefix |-> <<1>>]}],
    [Unfiltered EXCEPT !.prefixes = {[name |-> "sender", prefix |-> <<1>>],
                              [name |-> "tokenType", prefix |-> <<9, 9>>]}] }
MCNullifierPrefixes == {<<7>>, <<7, 254>>, <<7, 254, 2>>, <<7, 255>>, <<7, 255, 3>>, <<8>>}
==============================================================================
