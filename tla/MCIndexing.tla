------------------------------ MODULE MCIndexing ------------------------------
(* A small chain for Indexing: what its blocks may contain.                *)
EXTENDS Indexing

Late == 1000000   \* a time to live nobody reaches

Tx(h) ==
  [hash |-> h, kind |-> "standard", ttl |-> Late, ids |-> <<h>>, actions |-> <<>>,
   intents |-> <<>>, fails |-> {}, events |-> <<>>, cost |-> 1, stateCost |-> 1,
   owner |-> None, value |-> 0, fee |-> 0, outs |-> <<>>]
Ev(type) ==
  [seg |-> 0, type |-> type, com |-> None, address |-> None, night |-> None, owner |-> None,
   value |-> 0, ctime |-> 0, dtime |-> 0, index |-> 0, nullifier |-> None, log |-> None,
   entry |-> None, struct |-> None, data |-> None]
Intent(id) == [id |-> id, gouts |-> <<>>, gins |-> <<>>, fouts |-> <<>>, fins |-> <<>>]
Action(variant, entry, seg) ==
  [variant |-> variant, address |-> "c", entry |-> entry, seg |-> seg]
Regular(raw) == [variant |-> "Regular", raw |-> raw]
System(raw) == [variant |-> "System", raw |-> raw]
Pay(owner, value) == [owner |-> owner, value |-> value]
Utxo(owner, value, id, seg, no) == [owner |-> owner, value |-> value, hash |-> <<id, seg>>, no |-> no]

Log(entry, seg) ==
  LET struct == [sender |-> [to |-> "Contract", bytes |-> <<1, 2>>], tokenType |-> <<9, 9>>, amount |-> 0]
  IN  [Ev("ContractLog") EXCEPT !.log = "UnshieldedBurn", !.address = "c", !.entry = entry, !.seg = seg,
         !.struct = struct, !.data = Cell(Flat(Layout("UnshieldedBurn"), struct))]

\* bootstrap: its intent expires with the genesis block
T0 == [Tx("t0") EXCEPT !.ttl = 60, !.intents = <<[Intent("i0") EXCEPT !.gouts = <<Pay("alice", 9)>>]>>,
         !.events = <<[Ev("ZswapOutput") EXCEPT !.com = "z0"]>>]
\* expires between two slots after genesis and the block three slots later
T1 == [Tx("t1") EXCEPT !.ttl = 75, !.cost = 3, !.stateCost = 3, !.actions = <<Action("Deploy", None, 0)>>,
         !.intents = <<[Intent("i1") EXCEPT !.gins = <<Utxo("alice", 9, "i0", 0, 0)>>,
                          !.gouts = <<Pay("alice", 4), Pay("bob", 1)>>, !.fouts = <<Pay("bob", 4)>>]>>,
         !.events = <<[Ev("ZswapInput") EXCEPT !.nullifier = <<7, 254, 3>>],
                      [Ev("ZswapOutput") EXCEPT !.com = "z1", !.address = "c"],
                      [Ev("ContractDeploy") EXCEPT !.address = "c"]>>]
\* a segment fails, with a call like one of the next segment; its calls cost
\* more than they seem to
T2 == [Tx("t2") EXCEPT !.fails = {1}, !.stateCost = 2,
         !.actions = <<Action("Call", "e", 0), Action("Call", "f", 1), Action("Call", "f", 2)>>,
         !.intents = <<[Intent("i2") EXCEPT !.gins = <<Utxo("bob", 4, "i1", 1, 0)>>,
                          !.gouts = <<Pay("carol", 2)>>, !.fouts = <<Pay("carol", 1)>>],
                       [Intent("i3") EXCEPT !.gouts = <<Pay("carol", 1)>>, !.fouts = <<Pay("bob", 7)>>,
                          !.fins = <<Utxo("bob", 1, "i1", 0, 1)>>]>>,
         !.events = <<Log("e", 0), Log("f", 1), Log("f", 2), [Ev("ZswapOutput") EXCEPT !.com = "z2", !.seg = 2],
                      [Ev("DustSpend") EXCEPT !.nullifier = <<7, 255, 3>>]>>]
Claim == [Tx("t4") EXCEPT !.kind = "bridge_claim", !.owner = "alice", !.value = 4]

Dust == [Tx("s1") EXCEPT !.kind = "dust",
           !.events = <<[Ev("DustInitialUtxo") EXCEPT !.night = <<<<"i1", 0>>, 0>>, !.owner = "p",
                          !.value = 4]>>]
Undust == [Tx("s2") EXCEPT !.kind = "dust",
             !.events = <<[Ev("DtimeUpdate") EXCEPT !.night = <<<<"i1", 0>>, 0>>, !.dtime = 100]>>]
Params == [Tx("s5") EXCEPT !.cost = 5, !.kind = "parameters", !.events = <<Ev("ParamChange")>>]
Transfer == [Tx("s3") EXCEPT !.kind = "bridge", !.owner = "alice", !.value = 5, !.fee = 1]
Flush == [Tx("s6") EXCEPT !.kind = "flush"]
Treasury == [Tx("s4") EXCEPT !.kind = "treasury", !.outs = <<Pay("carol", 3)>>,
               !.events = <<[Ev("ZswapOutput") EXCEPT !.com = "z4"]>>]

Body(name) ==
  [name |-> name, inherents |-> <<>>, extrinsics |-> <<>>, events |-> <<>>, session |-> None,
   spec |-> None, since |-> 0, d |-> None, tc |-> None, gap |-> 1]
Bridged(variant, hash, amount, recipient, count) ==
  [event |-> variant, hash |-> hash, amount |-> amount, recipient |-> recipient, count |-> count]
Reg(event, utxo) == [event |-> event, key |-> "k", dust |-> "p", utxo |-> utxo]

MCBodies ==
  { [Body("open") EXCEPT !.gap = 3, !.extrinsics = <<Regular(T1)>>, !.d = 2],
    [Body("call") EXCEPT !.extrinsics = <<System(Treasury), Regular(T2), Regular(Claim)>>],
    [Body("dust") EXCEPT !.inherents = <<System(Dust)>>, !.session = <<"y", "z", "x">>,
       !.events = <<Reg("Registration", None), Reg("MappingAdded", 1)>>, !.tc = "terms"],
    [Body("undust") EXCEPT !.inherents = <<System(Params), System(Undust)>>, !.session = <<"z", "y">>,
       !.events = <<Reg("MappingRemoved", 1), Reg("Deregistration", None)>>, !.d = 1],
    [Body("bridge") EXCEPT !.inherents = <<System(Transfer)>>, !.since = 2000000,
       !.extrinsics = <<Regular(Claim)>>,
       !.events = <<Bridged("UserTransfer", "s3", 5, "alice", None)>>],
    [Body("flush") EXCEPT !.inherents = <<System(Flush)>>, !.since = 2000000,
       !.events = <<Bridged("SubminimalFlushTransfer", "s6", 1, None, 2),
                    Bridged("ReserveTransfer", "s7", 3, None, None)>>],
    [Body("upgrade") EXCEPT !.spec = 2000000, !.extrinsics = <<Regular(T2)>>] }

MCGeneses ==
  { [Body("genesis") EXCEPT !.extrinsics = <<Regular(T0)>>, !.session = <<"x", "y">>, !.d = 1]
      @@ [post |-> post, time |-> 60000, version |-> version,
          pre |-> LedgerNew(LedgerVersion(ProtocolVersion(version))),
          mappings |-> <<[key |-> "k", dust |-> "p", utxo |-> 0]>>] :
      <<post, version>> \in {<<FALSE, 1000000>>, <<TRUE, 2000000>>} }
==============================================================================
