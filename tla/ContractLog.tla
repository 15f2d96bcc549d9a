---------------------------- MODULE ContractLog ----------------------------
(* The payload of a contract log, from the contract to the attributes of    *)
(* the contract event.  A payload is the concatenation of the fields of the *)
(* event's struct, in one atom that drops its trailing zero bytes.  Bytes   *)
(* are numbers, widths are constants.                                       *)
EXTENDS Integers, Sequences, SequencesExt

CONSTANTS
  Absent,   \* the optional value that is missing
  Bytes32Size, Uint128Size, CiphertextSize, PayloadSize

ASSUME LogSizes ==
  /\ {Bytes32Size, Uint128Size, CiphertextSize, PayloadSize} \subseteq Nat \ {0}
  /\ Uint128Size < Bytes32Size

Zeros(n) == [i \in 1..n |-> 0]

------------------------------------------------------------------------------
(* The contract and the ledger.                                             *)

\* Each struct: the names, kinds and widths of its fields, and how many of
\* its first fields the decoder wants in full.
Bytes(name, n) == [name |-> name, kind |-> "bytes", size |-> n]
Uint(name) == [name |-> name, kind |-> "uint", size |-> Uint128Size]
MaybeBytes(name, n) == [name |-> name, kind |-> "maybe_bytes", size |-> n]
MaybeUint(name) == [name |-> name, kind |-> "maybe_uint", size |-> Uint128Size]
Either(name) == [name |-> name, kind |-> "either", size |-> Bytes32Size]
Layout(type) ==
  CASE type = "ShieldedSpend" -> <<Bytes("nullifier", Bytes32Size)>>
    [] type = "ShieldedReceive" ->
         <<Bytes("commitment", Bytes32Size), MaybeBytes("ciphertext", CiphertextSize),
           MaybeBytes("contractAddress", Bytes32Size)>>
    [] type = "ShieldedMint" ->
         <<Bytes("commitment", Bytes32Size), Bytes("domainSep", Bytes32Size), MaybeUint("amount")>>
    [] type = "ShieldedBurn" -> <<Bytes("nullifier", Bytes32Size), MaybeUint("amount")>>
    [] type = "UnshieldedSpend" ->
         <<Either("sender"), Bytes("domainSep", Bytes32Size), Bytes("tokenType", Bytes32Size),
           Uint("amount")>>
    [] type = "UnshieldedReceive" ->
         <<Either("recipient"), Bytes("domainSep", Bytes32Size), Bytes("tokenType", Bytes32Size),
           Uint("amount")>>
    [] type = "UnshieldedMint" ->
         <<Bytes("domainSep", Bytes32Size), Bytes("tokenType", Bytes32Size), Uint("amount")>>
    [] type = "UnshieldedBurn" ->
         <<Either("sender"), Bytes("tokenType", Bytes32Size), Uint("amount")>>
    [] type \in {"Paused", "Unpaused"} -> <<>>
    [] type = "Misc" -> <<Bytes("name", Bytes32Size), Bytes("payload", PayloadSize)>>

LogEventTypes ==
  {"ShieldedSpend", "ShieldedReceive", "ShieldedMint", "ShieldedBurn", "UnshieldedSpend",
   "UnshieldedReceive", "UnshieldedMint", "UnshieldedBurn", "Paused", "Unpaused", "Misc"}

LittleEndian(v) == [i \in 1..Uint128Size |-> (v \div 256^(i - 1)) % 256]

\* serialize: an optional value is preceded by a tag and all zero when
\* missing; an alternative has room for both of its sides.
Serialize(field, v) ==
  CASE field.kind = "bytes" -> v
    [] field.kind = "uint" -> LittleEndian(v)
    [] field.kind = "maybe_bytes" -> IF v = Absent THEN Zeros(field.size + 1) ELSE <<1>> \o v
    [] field.kind = "maybe_uint" ->
         IF v = Absent THEN Zeros(field.size + 1) ELSE <<1>> \o LittleEndian(v)
    [] field.kind = "either" ->
         IF v.to = "User" THEN <<1>> \o v.bytes \o Zeros(field.size)
         ELSE <<0>> \o Zeros(field.size) \o v.bytes

\* An atom holds no trailing zeros.
ValueAtom(bytes) ==
  SubSeq(bytes, 1, CHOOSE n \in 0..Len(bytes) : /\ n = 0 \/ bytes[n] # 0
                                                /\ \A k \in (n + 1)..Len(bytes) : bytes[k] = 0)
Flat(layout, struct) ==
  FlattenSeq([k \in DOMAIN layout |-> Serialize(layout[k], struct[layout[k].name])])
Cell(bytes) == [cell |-> TRUE, atoms |-> <<ValueAtom(bytes)>>]

------------------------------------------------------------------------------
(* The indexer.                                                             *)

EitherSize == 1 + 2 * Bytes32Size

ExtractFlatBytes(data, min, max) ==
  IF ~data.cell THEN Absent
  ELSE IF Len(data.atoms) # 1 THEN Absent
  ELSE IF Len(data.atoms[1]) \notin min..max THEN Absent
  ELSE data.atoms[1] \o Zeros(max - Len(data.atoms[1]))

\* Offsets count from 0, and what could not be extracted yields the default
\* of the attribute.
Slice(bytes, offset, n) == SubSeq(bytes, offset + 1, offset + n)
TakeBytes(bytes, offset, n) == IF bytes = Absent THEN <<>> ELSE Slice(bytes, offset, n)
FromLeBytes(s) == FoldRight(LAMBDA b, n : b + 256 * n, s, 0)
TakeUint128Le(bytes, offset) ==
  IF bytes = Absent THEN 0 ELSE FromLeBytes(Slice(bytes, offset, Uint128Size))
TakeMaybeBytes(bytes, offset, n) ==
  IF bytes = Absent THEN Absent
  ELSE IF bytes[offset + 1] = 0 THEN Absent
  ELSE Slice(bytes, offset + 1, n)
TakeMaybeUint128Le(bytes, offset) ==
  IF bytes = Absent THEN Absent
  ELSE IF bytes[offset + 1] = 0 THEN Absent
  ELSE FromLeBytes(Slice(bytes, offset + 1, Uint128Size))
\* Mutant: the value follows the tag, whichever side it is of.
TakeEitherAddressMutant(bytes, offset) ==
  IF bytes = Absent THEN [to |-> "User", bytes |-> <<>>]
  ELSE [to |-> IF bytes[offset + 1] = 0 THEN "Contract" ELSE "User",
        bytes |-> Slice(bytes, offset + 1, Bytes32Size)]
TakeEitherAddress(bytes, offset) ==
  IF bytes = Absent THEN [to |-> "User", bytes |-> <<>>]
  ELSE IF bytes[offset + 1] = 0
  THEN [to |-> "Contract", bytes |-> Slice(bytes, offset + 1 + Bytes32Size, Bytes32Size)]
  ELSE [to |-> "User", bytes |-> Slice(bytes, offset + 1, Bytes32Size)]

ShieldedSpend(data) ==
  LET b == ExtractFlatBytes(data, Bytes32Size, Bytes32Size)
  IN  [nullifier |-> TakeBytes(b, 0, Bytes32Size)]
ShieldedReceive(data) ==
  LET b == ExtractFlatBytes(data, Bytes32Size, 2 * Bytes32Size + CiphertextSize + 2)
  IN  [commitment |-> TakeBytes(b, 0, Bytes32Size),
       ciphertext |-> TakeMaybeBytes(b, Bytes32Size, CiphertextSize),
       contractAddress |-> TakeMaybeBytes(b, Bytes32Size + 1 + CiphertextSize, Bytes32Size)]
ShieldedMint(data) ==
  LET b == ExtractFlatBytes(data, 2 * Bytes32Size, 2 * Bytes32Size + 1 + Uint128Size)
  IN  [commitment |-> TakeBytes(b, 0, Bytes32Size),
       domainSep |-> TakeBytes(b, Bytes32Size, Bytes32Size),
       amount |-> TakeMaybeUint128Le(b, 2 * Bytes32Size)]
ShieldedBurn(data) ==
  LET b == ExtractFlatBytes(data, Bytes32Size, Bytes32Size + 1 + Uint128Size)
  IN  [nullifier |-> TakeBytes(b, 0, Bytes32Size), amount |-> TakeMaybeUint128Le(b, Bytes32Size)]
UnshieldedSpend(data) ==
  LET b == ExtractFlatBytes(data, EitherSize + 2 * Bytes32Size,
                            EitherSize + 2 * Bytes32Size + Uint128Size)
  IN  [sender |-> TakeEitherAddress(b, 0), domainSep |-> TakeBytes(b, EitherSize, Bytes32Size),
       tokenType |-> TakeBytes(b, EitherSize + Bytes32Size, Bytes32Size),
       amount |-> TakeUint128Le(b, EitherSize + 2 * Bytes32Size)]
UnshieldedReceive(data) ==
  LET b == ExtractFlatBytes(data, EitherSize + 2 * Bytes32Size,
                            EitherSize + 2 * Bytes32Size + Uint128Size)
  IN  [recipient |-> TakeEitherAddress(b, 0), domainSep |-> TakeBytes(b, EitherSize, Bytes32Size),
       tokenType |-> TakeBytes(b, EitherSize + Bytes32Size, Bytes32Size),
       amount |-> TakeUint128Le(b, EitherSize + 2 * Bytes32Size)]
UnshieldedMint(data) ==
  LET b == ExtractFlatBytes(data, 2 * Bytes32Size, 2 * Bytes32Size + Uint128Size)
  IN  [domainSep |-> TakeBytes(b, 0, Bytes32Size), tokenType |-> TakeBytes(b, Bytes32Size, Bytes32Size),
       amount |-> TakeUint128Le(b, 2 * Bytes32Size)]
UnshieldedBurn(data) ==
  LET b == ExtractFlatBytes(data, EitherSize + Bytes32Size, EitherSize + Bytes32Size + Uint128Size)
  IN  [sender |-> TakeEitherAddress(b, 0), tokenType |-> TakeBytes(b, EitherSize, Bytes32Size),
       amount |-> TakeUint128Le(b, EitherSize + Bytes32Size)]
Misc(data) ==
  LET b == ExtractFlatBytes(data, Bytes32Size, Bytes32Size + PayloadSize)
  IN  [name |-> TakeBytes(b, 0, Bytes32Size), payload |-> TakeBytes(b, Bytes32Size, PayloadSize)]

MakeContractEventAttributes(type, data) ==
  CASE type = "ShieldedSpend"     -> ShieldedSpend(data)
    [] type = "ShieldedReceive"   -> ShieldedReceive(data)
    [] type = "ShieldedMint"      -> ShieldedMint(data)
    [] type = "ShieldedBurn"      -> ShieldedBurn(data)
    [] type = "UnshieldedSpend"   -> UnshieldedSpend(data)
    [] type = "UnshieldedReceive" -> UnshieldedReceive(data)
    [] type = "UnshieldedMint"    -> UnshieldedMint(data)
    [] type = "UnshieldedBurn"    -> UnshieldedBurn(data)
    [] type \in {"Paused", "Unpaused"} -> <<>>
    [] type = "Misc"              -> Misc(data)

\* The attributes of a contract event that can be searched for.
IndexableNames(type) ==
  CASE type \in {"ShieldedSpend", "ShieldedBurn"} -> <<"nullifier">>
    [] type = "ShieldedReceive"   -> <<"commitment", "ciphertext">>
    [] type = "ShieldedMint"      -> <<"commitment", "domainSep">>
    [] type = "UnshieldedSpend"   -> <<"sender", "domainSep", "tokenType">>
    [] type = "UnshieldedReceive" -> <<"recipient", "domainSep", "tokenType">>
    [] type = "UnshieldedMint"    -> <<"domainSep", "tokenType">>
    [] type = "UnshieldedBurn"    -> <<"sender", "tokenType">>
    [] OTHER -> <<>>
IndexedBytes(name, v) == IF name \in {"sender", "recipient"} THEN v.bytes ELSE v
IndexableContractFields(event) ==
  LET names == SelectSeq(IndexableNames(event.type), LAMBDA n : event.attributes[n] # Absent)
  IN  [k \in DOMAIN names |->
        [name |-> names[k], value |-> IndexedBytes(names[k], event.attributes[names[k]])]]
==============================================================================
