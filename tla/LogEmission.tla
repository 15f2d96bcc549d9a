---------------------------- MODULE LogEmission ----------------------------
(* One contract log: emitted by a contract, applied by the indexer, stored  *)
(* with the fields it can be searched for.                                  *)
EXTENDS ContractLog

CONSTANTS ByteValues   \* the bytes that payloads are made of

ASSUME BytesAreBytes == {0, 1} \subseteq ByteValues /\ ByteValues \subseteq 0..255

VARIABLES
  emitted,   \* the type, struct and kind of a log, or Absent
  item,      \* what the ledger's event carries of it, or Absent
  event      \* the ledger event the indexer made, or Absent

vars == <<emitted, item, event>>

Strings(n) == [1..n -> ByteValues]
Values(field) ==
  CASE field.kind = "bytes" -> Strings(field.size)
    [] field.kind = "uint" -> {FromLeBytes(s) : s \in Strings(field.size)}
    [] field.kind = "maybe_bytes" -> Strings(field.size) \cup {Absent}
    [] field.kind = "maybe_uint" -> {FromLeBytes(s) : s \in Strings(field.size)} \cup {Absent}
    [] field.kind = "either" -> [to : {"User", "Contract"}, bytes : Strings(field.size)]

Init == emitted = Absent /\ item = Absent /\ event = Absent

\* Assigns one more field of the struct a value, in any way.
Structs(layout) ==
  FoldLeft(LAMBDA some, field : {[n \in DOMAIN s \cup {field.name} |->
                                    IF n = field.name THEN v ELSE s[n]] :
                                   <<s, v>> \in some \X Values(field)},
           {<<>>}, layout)

\* A contract emits a struct of one of the types.
Emit(type) ==
  /\ emitted = Absent
  /\ \E struct \in Structs(Layout(type)) :
       /\ emitted' = [type |-> type, struct |-> struct, as |-> "layout"]
       /\ item' = Cell(Flat(Layout(type), struct))
  /\ UNCHANGED event

\* A contract compiled before domainSep was added to the struct, or before the
\* optional fields of ShieldedReceive changed places, as they still are in what
\* Compact emits: the same fields, of the same size.
Superseded(type) ==
  IF type = "ShieldedReceive" THEN LET l == Layout(type) IN <<l[1], l[3], l[2]>>
  ELSE SelectSeq(Layout(type), LAMBDA f : f.name # "domainSep")
EmitSuperseded ==
  /\ emitted = Absent
  /\ \E type \in {"UnshieldedSpend", "UnshieldedReceive", "ShieldedReceive"} :
       \E struct \in Structs(Superseded(type)) :
         /\ emitted' = [type |-> type, struct |-> struct, as |-> "superseded"]
         /\ item' = Cell(Flat(Superseded(type), struct))
  /\ UNCHANGED event

\* Data that is no cell, or of another number of atoms than one.
EmitOther ==
  /\ emitted = Absent
  /\ \E type \in LogEventTypes, atoms \in {<<>>, <<<<1>>, <<1>>>>}, cell \in BOOLEAN :
       /\ emitted' = [type |-> type, struct |-> <<>>, as |-> "other"]
       /\ item' = [cell |-> cell, atoms |-> atoms]
  /\ UNCHANGED event

\* The indexer, applying the transaction.
Decode ==
  /\ item # Absent /\ event = Absent
  /\ event' = [type |-> emitted.type,
               attributes |-> MakeContractEventAttributes(emitted.type, item)]
  /\ UNCHANGED <<emitted, item>>

Next == (\E type \in LogEventTypes : Emit(type)) \/ EmitSuperseded \/ EmitOther \/ Decode
Spec == Init /\ [][Next]_vars

------------------------------------------------------------------------------
(* Properties.                                                              *)

\* The fields an event must have in full, so that only values that may be
\* zero or missing are stripped with their zeros.
Leading(type) ==
  SelectSeq(Layout(type), LAMBDA f : f.kind \in {"bytes", "either"} /\ f.name # "payload")
EndsInZero(type, struct) ==
  /\ Leading(type) # <<>>
  /\ LET bytes == Flat(Leading(type), struct) IN bytes[Len(bytes)] = 0

Default(field) ==
  CASE field.kind = "bytes" -> <<>>
    [] field.kind = "uint" -> 0
    [] field.kind = "either" -> [to |-> "User", bytes |-> <<>>]
    [] OTHER -> Absent
Defaults(type) ==
  [n \in {f.name : f \in ToSet(Layout(type))} |->
     Default(CHOOSE f \in ToSet(Layout(type)) : f.name = n)]

\* make_contract_event_attributes gives back the struct the contract emitted:
\* any stripping of amounts, optional fields and payloads is undone.  If the
\* last of the leading fields ends in a zero byte, or the layout is an older
\* one or no event's at all, it may give up and leave the defaults, but never
\* comes to other values, with one exception: of a ShieldedReceive in the older
\* order only the commitment is right, and the rest if it is missing.
DecodedIsEmitted ==
  event # Absent =>
    \/ emitted.as = "layout" /\ event.attributes = emitted.struct
    \/ /\ event.attributes = Defaults(emitted.type)
       /\ emitted.as = "layout" => EndsInZero(emitted.type, emitted.struct)
    \/ /\ emitted.as = "superseded" /\ emitted.type = "ShieldedReceive"
       /\ event.attributes.commitment = emitted.struct.commitment
       /\ {emitted.struct.ciphertext, emitted.struct.contractAddress} = {Absent} =>
            event.attributes = emitted.struct
==============================================================================
