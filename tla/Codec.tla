------------------------------- MODULE Codec --------------------------------
(***************************************************************************)
(* The binary records the node keeps and sends: accounts, validators, the  *)
(* snapshots of the validator set, contract metadata, the transactions     *)
(* with the payloads of the contract and registration kinds, events and    *)
(* the block message they travel in.  Each Encode and each Decode of the   *)
(* code is the order of its fields and the form in which it writes or      *)
(* reads them; a record is a function from the names of its fields.  A     *)
(* record may be cut short on its way.                                     *)
(*                                                                         *)
(* Bytes are numbers below 256.  An integer or address of fixed width is   *)
(* one byte, a hash two, an amount two (16 in the code); the prefix of a   *)
(* variable length keeps its width of 4 (the count of a list too, which is *)
(* 8 wide in the code for a snapshot) or 1.                                *)
(* What a block message leaves out (evidence, the commit proof) is no      *)
(* field here: module Node has the loss of the proof.                      *)
(***************************************************************************)
EXTENDS Naturals, Sequences, TLC
LOCAL INSTANCE SequencesExt

CONSTANTS MaxVarBytesLength, MaxSigLen

ASSUME CodecAssumption == MaxVarBytesLength \in 1 .. 255 /\ MaxSigLen \in 1 .. 255

VARIABLE record  \* a record on its way: what was written, the bytes, what was read

codecVars == <<record>>

Uint(f) == <<f, "uint">>
HashField(f) == <<f, "hash">>
AmountField(f) == <<f, "amount">>
VarBytes(f) == <<f, "bytes">>
Sig(f) == <<f, "signature">>
List(f, kind) == <<f, kind>>

AccountEncode ==
  <<Uint("Address"), AmountField("Balance"), Uint("Nonce"), HashField("StorageRoot"),
    HashField("CodeHash"), Uint("Permissions"), Uint("PublicKey")>>
AccountDecode ==
  <<Uint("Address"), AmountField("Balance"), Uint("Nonce"), HashField("StorageRoot"),
    HashField("CodeHash"), Uint("Permissions"), Uint("PublicKey")>>

ValidatorEncode ==
  <<Uint("ConsensusID"), Uint("PublicKey"), Uint("OperatorAddress"), Uint("RewardAddress"),
    AmountField("BondedStake"), Uint("Status"), Uint("CommissionRate"), Uint("VotingPower"),
    Uint("JailedUntil"), Uint("ActivationEpoch"), Uint("UnstakeEpoch")>>
ValidatorDecode ==
  <<Uint("ConsensusID"), Uint("PublicKey"), Uint("OperatorAddress"), Uint("RewardAddress"),
    AmountField("BondedStake"), Uint("Status"), Uint("CommissionRate"), Uint("VotingPower"),
    Uint("JailedUntil"), Uint("ActivationEpoch"), Uint("UnstakeEpoch")>>

(* The hash is read with Read, not with ReadFull.                          *)
SnapshotEncode ==
  <<Uint("Epoch"), List("Validators", "validator"), Uint("TotalPower"), HashField("SetHash")>>
SnapshotDecode ==
  <<Uint("Epoch"), List("Validators", "validator"), Uint("TotalPower"),
    <<"SetHash", "some of hash">>>>

(* writeVarUint64 writes the bytes of the number as variable bytes, behind *)
(* their length; readVarUint64 takes the first byte it sees for the number *)
(* or for its width.                                                       *)
MetadataEncode ==
  <<HashField("ContractID"), HashField("CodeHash"), Uint("Deployer"), <<"BlockHeight", "varuint">>>>
MetadataDecode ==
  <<HashField("ContractID"), HashField("CodeHash"), Uint("Deployer"), <<"BlockHeight", "varuint">>>>

DeployEncode ==
  <<Uint("Sender"), Uint("Nonce"), VarBytes("WasmCode"), HashField("CodeHash"), Uint("MaxFee"),
    Uint("GasLimit"), Sig("Signature")>>

\* Mutant of DeployDecode: the limit is read before the fee.
DeployDecodeSwapped ==
  <<Uint("Sender"), Uint("Nonce"), VarBytes("WasmCode"), HashField("CodeHash"), Uint("GasLimit"),
    Uint("MaxFee"), Sig("Signature")>>

(* The hash taken of the code is overwritten by the one that is read.      *)
DeployDecode ==
  <<Uint("Sender"), Uint("Nonce"), VarBytes("WasmCode"), HashField("CodeHash"), Uint("MaxFee"),
    Uint("GasLimit"), Sig("Signature")>>

CallEncode ==
  <<Uint("Sender"), Uint("Nonce"), HashField("ContractID"), VarBytes("Entrypoint"),
    VarBytes("Calldata"), Uint("MaxFee"), Uint("GasLimit"), Sig("Signature")>>
CallDecode ==
  <<Uint("Sender"), Uint("Nonce"), HashField("ContractID"), VarBytes("Entrypoint"),
    VarBytes("Calldata"), Uint("MaxFee"), Uint("GasLimit"), Sig("Signature")>>

RegistrationEncode ==
  <<Uint("Address"), Uint("PubKey"), Uint("Stake"), Uint("Commission")>>
RegistrationDecode ==
  <<Uint("Address"), Uint("PubKey"), Uint("Stake"), Uint("Commission")>>

(* A transaction without its type is a standard one.                       *)
TransactionEncode ==
  <<Uint("Version"), Uint("ChainID"), HashField("IntentID"), Uint("Sender"), Uint("Nonce"),
    VarBytes("Payload"), VarBytes("Constraints"), Uint("MaxFee"), Uint("GasLimit"),
    Uint("Timestamp"), Sig("Signature"), Uint("TxType")>>
TransactionDecode ==
  <<Uint("Version"), Uint("ChainID"), HashField("IntentID"), Uint("Sender"), Uint("Nonce"),
    VarBytes("Payload"), VarBytes("Constraints"), Uint("MaxFee"), Uint("GasLimit"),
    Uint("Timestamp"), Sig("Signature"), <<"TxType", "uint or 0">>>>

EventEncode ==
  <<HashField("ContractID"), VarBytes("Topic"), VarBytes("Data"), Uint("BlockHeight"),
    Uint("TxIndex")>>
EventDecode ==
  <<HashField("ContractID"), VarBytes("Topic"), VarBytes("Data"), Uint("BlockHeight"),
    Uint("TxIndex")>>

(* A block without the number of its events has none.                      *)
BlockEncode ==
  <<Uint("Version"), Uint("Height"), HashField("PreviousHash"), HashField("StateRoot"),
    HashField("TxRoot"), HashField("ReceiptRoot"), HashField("ValidatorRoot"),
    HashField("ValidatorSetHash"), Uint("Epoch"), Uint("Timestamp"), Uint("Proposer"),
    List("Transactions", "transaction"), Uint("TotalFees"), Uint("ValidatorShare"),
    Uint("BurnShare"), Uint("TreasuryShare"), <<"Signature", "long signature">>,
    List("Events", "event")>>
BlockDecode ==
  <<Uint("Version"), Uint("Height"), HashField("PreviousHash"), HashField("StateRoot"),
    HashField("TxRoot"), HashField("ReceiptRoot"), HashField("ValidatorRoot"),
    HashField("ValidatorSetHash"), Uint("Epoch"), Uint("Timestamp"), Uint("Proposer"),
    List("Transactions", "transaction"), Uint("TotalFees"), Uint("ValidatorShare"),
    Uint("BurnShare"), Uint("TreasuryShare"), <<"Signature", "long signature">>,
    <<"Events", "events or none">>>>

Writes ==
  [account |-> AccountEncode, validator |-> ValidatorEncode, snapshot |-> SnapshotEncode,
   metadata |-> MetadataEncode, deploy |-> DeployEncode, call |-> CallEncode,
   registration |-> RegistrationEncode, transaction |-> TransactionEncode,
   event |-> EventEncode, block |-> BlockEncode]
Reads ==
  [account |-> AccountDecode, validator |-> ValidatorDecode, snapshot |-> SnapshotDecode,
   metadata |-> MetadataDecode, deploy |-> DeployDecode, call |-> CallDecode,
   registration |-> RegistrationDecode, transaction |-> TransactionDecode,
   event |-> EventDecode, block |-> BlockDecode]
Kinds == DOMAIN Writes

(* Amount.MarshalBinary leaves out leading zeros; the records keep amounts *)
(* at the end of a buffer of fixed size.                                   *)
MarshalBinary(x) == IF x = 0 THEN <<>> ELSE IF x < 256 THEN <<x>> ELSE <<x \div 256, x % 256>>
Buffer(b) == [i \in 1 .. 2 - Len(b) |-> 0] \o b
UnmarshalBinary(b) == 256 * b[1] + b[2]

PutUint32(n) == <<0, 0, 0, n>>
GetUint32(b) == 256 * (256 * (256 * b[1] + b[2]) + b[3]) + b[4]

(* Numbers below 2^16: one byte, or a mark and two.                        *)
VarUint64(n) == IF n < 253 THEN <<n>> ELSE <<253, n \div 256, n % 256>>

writeVarBytes(b) == PutUint32(Len(b)) \o b

RECURSIVE Encoded(_, _)

WriteField(as, x) ==
  CASE as = "uint" -> <<x>>
    [] as = "hash" -> x
    [] as = "amount" -> Buffer(MarshalBinary(x))
    [] as = "signature" -> <<Len(x)>> \o x
    [] as \in {"bytes", "long signature"} -> writeVarBytes(x)
    [] as = "varuint" -> writeVarBytes(VarUint64(x))
    [] as \in Kinds -> PutUint32(Len(x)) \o FlattenSeq([i \in DOMAIN x |-> Encoded(as, x[i])])

Encoded(kind, v) ==
  FlattenSeq([i \in DOMAIN Writes[kind] |-> WriteField(Writes[kind][i][2], v[Writes[kind][i][1]])])

RECURSIVE CanEncode(_, _)
(* writeVarBytes refuses what is longer than it would read, the            *)
(* transactions a signature whose length is no uint8.                      *)
CanEncode(kind, v) ==
  \A i \in DOMAIN Writes[kind] :
    LET x == v[Writes[kind][i][1]]
    IN  CASE Writes[kind][i][2] = "bytes" -> Len(x) <= MaxVarBytesLength
          [] Writes[kind][i][2] = "signature" -> Len(x) <= 255
          [] Writes[kind][i][2] \in Kinds -> \A j \in DOMAIN x : CanEncode(Writes[kind][i][2], x[j])
          [] OTHER -> TRUE

Got(x, rest) == [ok |-> TRUE, x |-> x, rest |-> rest]
Unread == [ok |-> FALSE]
From(s, n) == SubSeq(s, n, Len(s))

\* io.Reader.Read, content with less; as mutant of ReadFull, used everywhere.
ReadSome(s, n) ==
  IF Len(s) >= n THEN Got(SubSeq(s, 1, n), From(s, n + 1))
  ELSE Got(s \o [i \in 1 .. n - Len(s) |-> 0], <<>>)

ReadFull(s, n) ==
  IF Len(s) >= n THEN Got(SubSeq(s, 1, n), From(s, n + 1)) ELSE Unread

Map(r, op(_)) == IF r.ok THEN Got(op(r.x), r.rest) ELSE r

readVarBytes(s) ==
  LET n == Map(ReadFull(s, 4), GetUint32)
  IN  IF n.ok /\ n.x <= MaxVarBytesLength THEN ReadFull(n.rest, n.x) ELSE Unread

readVarUint64(s) ==
  LET first == ReadFull(s, 1)
  IN  IF first.ok /\ first.x[1] = 253
      THEN Map(ReadFull(first.rest, 2), UnmarshalBinary) ELSE Map(first, Head)

RECURSIVE Decoded(_, _)

(* As many records as the count says.                                      *)
ReadList(kind, s) ==
  LET n == Map(ReadFull(s, 4), GetUint32)
      Another(r, i) == IF r.ok THEN LET next == Decoded(kind, r.rest)
                                    IN  Map(next, LAMBDA x : Append(r.x, x)) ELSE r
  IN  IF n.ok THEN FoldLeft(Another, Got(<<>>, n.rest), [i \in 1 .. n.x |-> i]) ELSE Unread

ReadField(as, s) ==
  CASE as = "uint" -> Map(ReadFull(s, 1), Head)
    [] as = "hash" -> ReadFull(s, 2)
    [] as = "some of hash" -> IF s = <<>> THEN Unread ELSE ReadSome(s, 2)
    [] as = "amount" -> Map(ReadFull(s, 2), UnmarshalBinary)
    [] as = "signature" -> LET n == ReadFull(s, 1)
                           IN  IF n.ok THEN ReadFull(n.rest, n.x[1]) ELSE Unread
    [] as = "long signature" -> LET n == Map(ReadFull(s, 4), GetUint32)
                                IN  IF n.ok /\ n.x <= MaxSigLen THEN ReadFull(n.rest, n.x)
                                    ELSE Unread
    [] as = "bytes" -> readVarBytes(s)
    [] as = "varuint" -> readVarUint64(s)
    [] as = "uint or 0" -> IF s = <<>> THEN Got(0, s) ELSE Map(ReadFull(s, 1), Head)
    [] as = "events or none" -> IF ReadFull(s, 4).ok THEN ReadList("event", s) ELSE Got(<<>>, s)
    [] as \in Kinds -> ReadList(as, s)

Decoded(kind, s) ==
  FoldLeft(LAMBDA r, field :
             IF r.ok THEN Map(ReadField(field[2], r.rest), LAMBDA x : (field[1] :> x) @@ r.x) ELSE r,
           Got(<<>>, s), Reads[kind])

(* A block goes in an envelope, whose length nobody compares.              *)
BlockMessageType == 1
EncodeMessage(kind, v) ==
  LET payload == Encoded(kind, v)
  IN  IF kind = "block" THEN <<BlockMessageType>> \o PutUint32(Len(payload)) \o payload
      ELSE payload
DecodeMessage(kind, s) ==
  IF kind # "block" THEN Decoded(kind, s)
  ELSE IF Len(s) < 6 \/ s[1] # BlockMessageType THEN Unread ELSE Decoded(kind, From(s, 6))

RECURSIVE Sample(_, _, _)
(* Records whose fields tell each other apart: small or large numbers, and *)
(* variable fields of length n.  The signature of a block is one the keys  *)
(* can give: never longer than its reader takes.                           *)
Sample(kind, large, n) ==
  LET Fields == Writes[kind]
      Value(as, i) ==
        CASE as = "uint" -> IF large THEN 200 + i ELSE i
          [] as = "hash" -> <<i, 100 + i>>
          [] as = "amount" -> IF large THEN 256 * i ELSE i
          [] as = "varuint" -> IF large THEN 253 + n ELSE n
          [] as \in {"bytes", "signature"} -> [j \in 1 .. n |-> i + j]
          [] as = "long signature" -> [j \in 1 .. (IF n > MaxSigLen THEN MaxSigLen ELSE n) |-> i + j]
          [] as \in Kinds -> [j \in 1 .. (IF n > 2 THEN 2 ELSE n) |-> Sample(as, large, n + 1 - j)]
  IN  [f \in {Fields[i][1] : i \in DOMAIN Fields} |->
         LET i == CHOOSE k \in DOMAIN Fields : Fields[k][1] = f IN Value(Fields[i][2], i)]

Nothing == [at |-> "none"]

CodecInit == record = Nothing

Encode(kind, large, n) ==
  LET v == Sample(kind, large, n)
  IN  /\ record = Nothing /\ CanEncode(kind, v)
      /\ record' = [at |-> "sent", kind |-> kind, value |-> v,
                    bytes |-> EncodeMessage(kind, v), whole |-> TRUE]

(* The reader gets the first n bytes only.                                 *)
CutShort(n) ==
  /\ record.at = "sent" /\ record.whole /\ n < Len(record.bytes)
  /\ record' = [record EXCEPT !.bytes = SubSeq(@, 1, n), !.whole = FALSE]

Decode ==
  /\ record.at = "sent"
  /\ record' = [at |-> "read", kind |-> record.kind, value |-> record.value,
                whole |-> record.whole, got |-> DecodeMessage(record.kind, record.bytes)]

CodecNext ==
  \/ \E kind \in Kinds, large \in BOOLEAN, n \in 0 .. MaxVarBytesLength + 1 : Encode(kind, large, n)
  \/ \E n \in 0 .. 255 : CutShort(n)
  \/ Decode

Agree(fields) == \A f \in fields : record.got.x[f] = record.value[f]

(* What may be missing from a record that is read all the same.            *)
MayMiss(kind) ==
  CASE kind = "transaction" -> {"TxType"}
    [] kind = "block" -> {"Events"}
    [] kind = "snapshot" -> {"SetHash"}
    [] kind = "metadata" -> {"BlockHeight"}
    [] OTHER -> {}

(* A reader returns what was written or refuses it.  A whole record is read *)
(* to its last byte, whatever the lengths of its variable parts, since      *)
(* records follow each other in the snapshot of a set and in a block; one   *)
(* that was cut short is refused, or lacks its optional end only.  The      *)
(* height of contract metadata is the exception: readVarUint64 takes the    *)
(* length for it.                                                           *)
ReadsBack ==
  record.at = "read" =>
    /\ record.whole =>
         /\ record.got.ok
         /\ record.kind # "metadata" => record.got.rest = <<>> /\ Agree(DOMAIN record.value)
         /\ record.kind = "metadata" => Agree(DOMAIN record.value \ {"BlockHeight"})
    /\ ~record.whole /\ record.got.ok =>
         /\ MayMiss(record.kind) # {}
         /\ Agree(DOMAIN record.value \ MayMiss(record.kind))
=============
