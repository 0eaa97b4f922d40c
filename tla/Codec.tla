------------------------------- MODULE Codec -------------------------------
(***************************************************************************)
(* The wire format (crates/rdows-core/src): a 24-byte header and a payload *)
(* per opcode.  A sender encodes a message, the frame may be altered on    *)
(* its way as another implementation or a broken relay would, and the      *)
(* receiver decodes it.                                                    *)
(*                                                                         *)
(* Sizes in bytes are the code's.  A frame is a sequence of bytes; the     *)
(* integers of more than one byte are big-endian numbers in base Radix,    *)
(* which is 256 in the code and may be smaller here, so that a 16-bit      *)
(* count wraps in a frame that TLC can hold.  The payload of every opcode  *)
(* is a fixed part, given as a table of fields, and a tail: the            *)
(* scatter/gather entries, the data, the description or the optional       *)
(* L_Key.  buf is what is left of the frame after the header.              *)
(*                                                                         *)
(* A definition named Bad... is a plausible fault of the one after it; no  *)
(* specification refers to it.                                             *)
(***************************************************************************)
EXTENDS Integers, SequencesExt

CONSTANTS
    Radix,          \* values of a byte in a multi-byte integer: 256
    Messages,       \* messages that may be sent
    MaxCut,         \* bound: a frame is cut, or a byte changed, up to here
    Trailers,       \* bytes a frame may carry after its payload
    Lengths,        \* values another sender may put into payload_length
    StrangeBytes    \* values another sender may put into a byte

VARIABLES
    overflow_checks,    \* the build: TRUE if integer overflow panics
    sent,               \* the message being sent
    wire,               \* its frame
    change,             \* how the frame was altered
    got                 \* what RdowsMessage::decode returned

codecVars == <<overflow_checks, sent, wire, change, got>>

HEADER_SIZE == 24
RDOWS_VERSION == 1
SG_ENTRY_SIZE == 16

NoMessage == [opcode |-> "none"]
Nothing == [result |-> "none"]
Ok(x) == [result |-> "Ok", value |-> x]
Err(e) == [result |-> e]
Panic == [result |-> "Panic"]

-----------------------------------------------------------------------------
\* Integers and tables of fields.

\* put_u16, put_u32 and put_u64 of a value cast to that width.
Put(n, width) == [i \in 1 .. width |-> (n \div Radix ^ (width - i)) % Radix]

\* get_u16, get_u32, get_u64.
Get(bytes) == FoldLeft(LAMBDA n, b : n * Radix + b, 0, bytes)

\* A table is a sequence of pairs <<name, width>>.
Offset(table, i) == FoldLeft(LAMBDA n, f : n + f[2], 0, SubSeq(table, 1, i - 1))

Size(table) == Offset(table, Len(table) + 1)

Names(table) == {table[i][1] : i \in DOMAIN table} \ {"reserved"}

PutFields(table, fields) ==
    FlattenSeq([i \in DOMAIN table |->
        Put(IF table[i][1] = "reserved" THEN 0 ELSE fields[table[i][1]], table[i][2])])

GetFields(table, buf) ==
    [name \in Names(table) |->
        LET i == CHOOSE j \in DOMAIN table : table[j][1] = name
            from == Offset(table, i)
        IN  Get(SubSeq(buf, from + 1, from + table[i][2]))]

-----------------------------------------------------------------------------
\* Opcodes, error codes and the layouts.

Opcode ==
    [Connect |-> 1, ConnectAck |-> 2, Disconnect |-> 3, MrReg |-> 16,
     MrRegAck |-> 17, MrDereg |-> 18, MrDeregAck |-> 19, Send |-> 32,
     SendData |-> 33, RecvComp |-> 34, Write |-> 48, WriteData |-> 49,
     WriteComp |-> 50, ReadReq |-> 64, ReadResp |-> 65, AtomicReq |-> 80,
     AtomicResp |-> 81, Ack |-> 96, CreditUpdate |-> 97, Error |-> 240]

OpcodeOf(byte) == CHOOSE op \in DOMAIN Opcode : Opcode[op] = byte

\* ErrInternal is the largest 16-bit number.
ErrorCode ==
    [Success |-> 0, ErrProtoVersion |-> 1, ErrUnknownOpcode |-> 2,
     ErrInvalidPd |-> 3, ErrInvalidLkey |-> 4, ErrInvalidMkey |-> 5,
     ErrAccessDenied |-> 6, ErrBounds |-> 7, ErrAlignment |-> 8,
     ErrPayloadSize |-> 9, ErrRnr |-> 16, ErrCqOverflow |-> 32,
     ErrSeqGap |-> 48, ErrTimeout |-> 64, ErrInternal |-> Radix ^ 2 - 1]

BadErrorOf(n) ==
    IF \E e \in DOMAIN ErrorCode : ErrorCode[e] = n
    THEN CHOOSE e \in DOMAIN ErrorCode : ErrorCode[e] = n
    ELSE "InvalidErrorCode"

\* ErrorCode::try_from(n).unwrap_or(ErrInternal).
ErrorOf(n) ==
    IF \E e \in DOMAIN ErrorCode : ErrorCode[e] = n
    THEN CHOOSE e \in DOMAIN ErrorCode : ErrorCode[e] = n
    ELSE "ErrInternal"

Header ==
    <<<<"flags", 2>>, <<"session_id", 4>>, <<"sequence", 4>>, <<"wrid", 8>>,
      <<"payload_length", 4>>>>

ScatterGatherEntry == <<<<"lkey", 4>>, <<"offset", 8>>, <<"length", 4>>>>

ConnectPayload ==
    <<<<"pd", 4>>, <<"capability_flags", 4>>, <<"max_msg_size", 4>>, <<"icc", 4>>>>

MrRegPayload ==
    <<<<"pd", 4>>, <<"access_flags", 4>>, <<"region_len", 8>>>>

MrRegAckPayload ==
    <<<<"pd", 4>>, <<"lkey", 4>>, <<"rkey", 4>>, <<"status", 2>>, <<"reserved", 2>>>>

MrDeregPayload == <<<<"pd", 4>>, <<"lkey", 4>>>>

MrDeregAckPayload == <<<<"status", 2>>, <<"reserved", 6>>>>

SendPayload == <<<<"count", 2>>, <<"reserved", 2>>>>

WritePayload ==
    <<<<"rkey", 4>>, <<"reserved", 4>>, <<"remote_va", 8>>, <<"length", 8>>>>

ReadReqPayload ==
    <<<<"rkey", 4>>, <<"reserved", 4>>, <<"remote_va", 8>>, <<"read_len", 8>>,
      <<"local_lkey", 4>>, <<"reserved", 4>>, <<"local_va", 8>>>>

ReadRespPayload == <<<<"fragment_offset", 8>>>>

ErrorPayload ==
    <<<<"error_code", 2>>, <<"reserved", 2>>, <<"failing_seq", 4>>, <<"desc_len", 2>>>>

CreditUpdatePayload == <<<<"credit_increment", 4>>, <<"reserved", 4>>>>

AtomicReqPayload ==
    <<<<"rkey", 4>>, <<"atomic_type", 1>>, <<"reserved", 3>>, <<"remote_va", 8>>,
      <<"operand1", 8>>, <<"operand2", 8>>>>

AtomicRespPayload == <<<<"original_value", 8>>, <<"status", 2>>, <<"reserved", 6>>>>

\* The fixed part of the payload of each opcode.
FixedPart ==
    [Connect |-> ConnectPayload, ConnectAck |-> ConnectPayload, Disconnect |-> <<>>,
     MrReg |-> MrRegPayload, MrRegAck |-> MrRegAckPayload, MrDereg |-> MrDeregPayload,
     MrDeregAck |-> MrDeregAckPayload, Send |-> SendPayload, SendData |-> <<>>,
     RecvComp |-> <<>>, Write |-> WritePayload, WriteData |-> <<>>,
     WriteComp |-> <<>>, ReadReq |-> ReadReqPayload, ReadResp |-> ReadRespPayload,
     AtomicReq |-> AtomicReqPayload, AtomicResp |-> AtomicRespPayload, Ack |-> <<>>,
     CreditUpdate |-> CreditUpdatePayload, Error |-> ErrorPayload]

-----------------------------------------------------------------------------
\* Encoding.

\* The sequences of seqs, one after the other; by halves, as there may be many.
Joined(seqs) ==
    LET join[i \in Nat, j \in Nat] ==
            IF i = j THEN seqs[i]
            ELSE LET m == (i + j) \div 2 IN join[i, m] \o join[m + 1, j]
    IN  IF seqs = <<>> THEN <<>> ELSE join[1, Len(seqs)]

PutEntries(sg_list) ==
    Joined([i \in DOMAIN sg_list |-> PutFields(ScatterGatherEntry, sg_list[i])])

\* The count is sg_list.len() as u16.
EncodeSend(p) ==
    PutFields(SendPayload, [count |-> Len(p.sg_list)]) \o PutEntries(p.sg_list)

EncodeWrite(p) == PutFields(WritePayload, p) \o PutEntries(p.sg_list)

\* suggested_lkey is an Option: a sequence of one L_Key or none.
EncodeMrReg(p) ==
    PutFields(MrRegPayload, p)
        \o (IF p.suggested_lkey = <<>> THEN <<>> ELSE Put(p.suggested_lkey[1], 4))

\* U+FFFD, the replacement character, in UTF-8.
Replacement == <<239, 191, 189>>

BadEncodeError(p) ==
    PutFields(ErrorPayload,
              [error_code |-> ErrorCode[p.error_code], failing_seq |-> p.failing_seq,
               desc_len |-> Len(SelectSeq(p.description, LAMBDA b : b \notin {191, 189}))])
        \o p.description

\* The length is desc_bytes.len() as u16.
EncodeError(p) ==
    PutFields(ErrorPayload,
              [error_code |-> ErrorCode[p.error_code], failing_seq |-> p.failing_seq,
               desc_len |-> Len(p.description)])
        \o p.description

EncodeReadResp(p) == PutFields(ReadRespPayload, p) \o p.data

EncodePayload(m) ==
    CASE m.opcode = "Send" -> EncodeSend(m.payload)
      [] m.opcode = "Write" -> EncodeWrite(m.payload)
      [] m.opcode = "MrReg" -> EncodeMrReg(m.payload)
      [] m.opcode = "Error" -> EncodeError(m.payload)
      [] m.opcode = "ReadResp" -> EncodeReadResp(m.payload)
      [] m.opcode \in {"SendData", "WriteData"} -> m.payload.data
      [] OTHER -> PutFields(FixedPart[m.opcode], m.payload)

\* The message as its frame describes it: encode overwrites payload_length.
Framed(m) ==
    [m EXCEPT !.header.payload_length = Len(EncodePayload(m)) % Radix ^ 4]

EncodeHeader(m) ==
    <<RDOWS_VERSION, Opcode[m.opcode]>> \o PutFields(Header, m.header)

Encode(m) == EncodeHeader(Framed(m)) \o EncodePayload(m)

-----------------------------------------------------------------------------
\* Decoding.

\* Subtraction of usize values in a build without overflow checks.
WrappingSub(a, b) == (a - b) % Radix ^ 8

\* Vec::with_capacity refuses more than isize::MAX bytes.
CapacityOverflow(count) == count * SG_ENTRY_SIZE > Radix ^ 8 \div 2 - 1

GetEntries(buf, count) ==
    [i \in 1 .. count |->
        GetFields(ScatterGatherEntry,
                  SubSeq(buf, (i - 1) * SG_ENTRY_SIZE + 1, i * SG_ENTRY_SIZE))]

Rest(table, buf) == SubSeq(buf, Size(table) + 1, Len(buf))

TooShort(table, buf) == Len(buf) < Size(table)

DecodeFixed(table, buf) ==
    IF TooShort(table, buf) THEN Err("PayloadTooShort")
    ELSE Ok(GetFields(table, buf))

BadDecodeMrReg(pl, buf) ==
    IF TooShort(MrRegPayload, buf) THEN Err("PayloadTooShort")
    ELSE LET rest == Rest(MrRegPayload, buf)
         IN  Ok([suggested_lkey |-> IF Len(rest) >= 4
                                    THEN <<Get(SubSeq(rest, 1, 4))>> ELSE <<>>]
                    @@ GetFields(MrRegPayload, buf))

BadUncheckedMrReg(pl, buf) ==
    IF TooShort(MrRegPayload, buf) THEN Err("PayloadTooShort")
    ELSE LET rest == Rest(MrRegPayload, buf)
         IN  IF overflow_checks /\ pl < 16 THEN Panic
             ELSE Ok([suggested_lkey |-> IF WrappingSub(pl, 16) >= 4 /\ Len(rest) >= 4
                                         THEN <<Get(SubSeq(rest, 1, 4))>> ELSE <<>>]
                        @@ GetFields(MrRegPayload, buf))

DecodeMrReg(pl, buf) ==
    IF TooShort(MrRegPayload, buf) THEN Err("PayloadTooShort")
    ELSE LET rest == Rest(MrRegPayload, buf)
         IN  Ok([suggested_lkey |-> IF pl >= 20 /\ Len(rest) >= 4
                                    THEN <<Get(SubSeq(rest, 1, 4))>> ELSE <<>>]
                    @@ GetFields(MrRegPayload, buf))

BadDecodeSend(buf) ==
    IF TooShort(SendPayload, buf) THEN Err("PayloadTooShort")
    ELSE LET count == Get(SubSeq(buf, 1, 2))
             rest == Rest(SendPayload, buf)
             whole == Len(rest) \div SG_ENTRY_SIZE
         IN  Ok([sg_list |-> GetEntries(rest, IF count < whole THEN count ELSE whole)])

DecodeSend(buf) ==
    IF TooShort(SendPayload, buf) THEN Err("PayloadTooShort")
    ELSE LET count == GetFields(SendPayload, buf).count
             rest == Rest(SendPayload, buf)
         IN  IF Len(rest) < count * SG_ENTRY_SIZE THEN Err("PayloadTooShort")
             ELSE Ok([sg_list |-> GetEntries(rest, count)])

\* payload_length - 24 is not checked against underflow.  An allocation below
\* isize::MAX, up to 4 GiB for a large payload_length, is taken to succeed.
DecodeWrite(pl, buf) ==
    IF TooShort(WritePayload, buf) THEN Err("PayloadTooShort")
    ELSE LET count == WrappingSub(pl, Size(WritePayload)) \div SG_ENTRY_SIZE
             rest == Rest(WritePayload, buf)
         IN  IF \/ overflow_checks /\ pl < Size(WritePayload)
                \/ CapacityOverflow(count)
             THEN Panic
             ELSE IF Len(rest) < count * SG_ENTRY_SIZE THEN Err("PayloadTooShort")
             ELSE Ok([sg_list |-> GetEntries(rest, count)] @@ GetFields(WritePayload, buf))

\* payload_length - 8 is not checked against underflow.
DecodeReadResp(pl, buf) ==
    IF TooShort(ReadRespPayload, buf) THEN Err("PayloadTooShort")
    ELSE LET data_len == WrappingSub(pl, Size(ReadRespPayload))
             rest == Rest(ReadRespPayload, buf)
         IN  IF overflow_checks /\ pl < Size(ReadRespPayload) THEN Panic
             ELSE IF Len(rest) < data_len THEN Err("PayloadTooShort")
             ELSE Ok([data |-> SubSeq(rest, 1, data_len)] @@ GetFields(ReadRespPayload, buf))

\* The length of the UTF-8 character that begins with a byte; 0 if none does.
CharLen(b) ==
    CASE b < 128 -> 1
      [] b \in 194 .. 223 -> 2
      [] b \in 224 .. 239 -> 3
      [] b \in 240 .. 244 -> 4
      [] OTHER -> 0

\* The bytes that may follow the first k of a character that begins with b.
Continuations(b, k) ==
    CASE k = 1 /\ b = 224 -> 160 .. 191
      [] k = 1 /\ b = 237 -> 128 .. 159
      [] k = 1 /\ b = 240 -> 144 .. 191
      [] k = 1 /\ b = 244 -> 128 .. 143
      [] OTHER -> 128 .. 191

\* How many bytes from i on are a character or the beginning of one.
CharBytes(bytes, i) ==
    Max({0} \cup {n \in 1 .. CharLen(bytes[i]) :
            /\ i + n - 1 <= Len(bytes)
            /\ \A k \in 1 .. n - 1 : bytes[i + k] \in Continuations(bytes[i], k)})

\* The byte at i continues what begins up to three bytes before it.
Continues(bytes, i) ==
    \E k \in 1 .. 3 : k < i /\ k < CharBytes(bytes, i - k)

\* String::from_utf8_lossy: whole characters stay, and the beginning of one that
\* is not completed, or a byte that belongs to none, becomes U+FFFD.
Lossy(bytes) ==
    Joined([i \in DOMAIN bytes |->
        CASE Continues(bytes, i) -> <<>>
          [] OTHER ->
               IF CharBytes(bytes, i) = CharLen(bytes[i]) /\ CharLen(bytes[i]) > 0
               THEN SubSeq(bytes, i, i + CharLen(bytes[i]) - 1)
               ELSE Replacement])

DecodeError(buf) ==
    IF TooShort(ErrorPayload, buf) THEN Err("PayloadTooShort")
    ELSE LET fixed == GetFields(ErrorPayload, buf)
             rest == Rest(ErrorPayload, buf)
         IN  Ok([error_code |-> ErrorOf(fixed.error_code),
                 failing_seq |-> fixed.failing_seq,
                 description |-> IF fixed.desc_len <= Len(rest)
                                 THEN Lossy(SubSeq(rest, 1, fixed.desc_len)) ELSE <<>>])

\* SEND_DATA and WRITE_DATA.
DecodeData(pl, buf) ==
    IF Len(buf) < pl THEN Err("PayloadTooShort")
    ELSE Ok([data |-> SubSeq(buf, 1, pl)])

DecodePayload(op, pl, buf) ==
    CASE op = "MrReg" -> DecodeMrReg(pl, buf)
      [] op = "Send" -> DecodeSend(buf)
      [] op = "Write" -> DecodeWrite(pl, buf)
      [] op = "ReadResp" -> DecodeReadResp(pl, buf)
      [] op = "Error" -> DecodeError(buf)
      [] op \in {"SendData", "WriteData"} -> DecodeData(pl, buf)
      [] OTHER -> DecodeFixed(FixedPart[op], buf)

Decode(bytes) ==
    IF Len(bytes) < HEADER_SIZE THEN Err("HeaderTooShort")
    ELSE IF bytes[1] # RDOWS_VERSION THEN Err("InvalidVersion")
    ELSE IF \A op \in DOMAIN Opcode : Opcode[op] # bytes[2] THEN Err("InvalidOpcode")
    ELSE LET op == OpcodeOf(bytes[2])
             header == GetFields(Header, SubSeq(bytes, 3, HEADER_SIZE))
             p == DecodePayload(op, header.payload_length,
                                SubSeq(bytes, HEADER_SIZE + 1, Len(bytes)))
         IN  IF p.result # "Ok" THEN p
             ELSE Ok([opcode |-> op, header |-> header, payload |-> p.value])

-----------------------------------------------------------------------------
\* A frame on its way.

CodecInit ==
    /\ overflow_checks \in BOOLEAN
    /\ sent = NoMessage
    /\ wire = <<>>
    /\ change = "none"
    /\ got = Nothing

Send(m) ==
    /\ sent = NoMessage
    /\ sent' = m
    /\ wire' = Encode(m)
    /\ UNCHANGED <<overflow_checks, change, got>>

\* One alteration of a frame in flight.
Alter(how, bytes) ==
    /\ sent # NoMessage /\ got = Nothing /\ change = "none"
    /\ change' = how
    /\ wire' = bytes
    /\ UNCHANGED <<overflow_checks, sent, got>>

Cut == \E n \in 0 .. MaxCut : n < Len(wire) /\ Alter("cut", SubSeq(wire, 1, n))

Trail == \E bytes \in Trailers : Alter("trail", wire \o bytes)

Relength == \E n \in Lengths :
    Alter("length", SubSeq(wire, 1, 20) \o Put(n, 4) \o SubSeq(wire, 25, Len(wire)))

\* Bytes outside the header's first two and a description stay digits, so an
\* ERROR whose description has other bytes stays an ERROR.
Poke ==
    \E i \in 1 .. MaxCut, b \in StrangeBytes :
        /\ i <= Len(wire)
        /\ b < Radix \/ i \in {1, 2} \/ (sent.opcode = "Error" /\ i > HEADER_SIZE + 10)
        /\ i = 2 => ToSet(SubSeq(wire, 3, Len(wire))) \subseteq 0 .. Radix - 1
        /\ Alter("byte", [wire EXCEPT ![i] = b])

Receive ==
    /\ sent # NoMessage /\ got = Nothing
    /\ got' = Decode(wire)
    /\ UNCHANGED <<overflow_checks, sent, wire, change>>

\* The receiver is done with the frame.
Handled ==
    /\ got # Nothing
    /\ sent' = NoMessage
    /\ wire' = <<>>
    /\ change' = "none"
    /\ got' = Nothing
    /\ UNCHANGED overflow_checks

CodecNext ==
    \/ \E m \in Messages : Send(m)
    \/ Cut
    \/ Trail
    \/ Relength
    \/ Poke
    \/ Receive
    \/ Handled

CodecSpec == CodecInit /\ [][CodecNext]_codecVars

-----------------------------------------------------------------------------

Fits(table, fields) ==
    \A i \in DOMAIN table : table[i][1] # "reserved" =>
        fields[table[i][1]] \in 0 .. Radix ^ table[i][2] - 1

\* Whatever bytes arrive, decode returns an error, panics (PanicsOnlyOnUnderflow
\* says when), or returns a message whose fields are in the ranges of their
\* types and whose opcode and error code are members of their enumerations
\* (RdowsMessage::decode).
CodecTypeOK ==
    /\ change \in {"none", "cut", "trail", "length", "byte"}
    /\ got.result \in {"none", "Ok", "HeaderTooShort", "InvalidVersion",
                       "InvalidOpcode", "PayloadTooShort", "Panic"}
    /\ got.result = "Ok" =>
         LET m == got.value
         IN  /\ m.opcode \in DOMAIN Opcode
             /\ Fits(Header, m.header)
             /\ IF m.opcode = "Error" THEN m.payload.error_code \in DOMAIN ErrorCode
                ELSE m.opcode # "Send" => Fits(FixedPart[m.opcode], m.payload)
             /\ m.opcode \in {"Send", "Write"} =>
                  \A i \in DOMAIN m.payload.sg_list :
                      Fits(ScatterGatherEntry, m.payload.sg_list[i])

Wrapped(s) == SubSeq(s, 1, Len(s) % Radix ^ 2)

\* What a receiver may make of a message: a scatter/gather list or a
\* description of 2^16 or more loses all but its length modulo 2^16, and a
\* character cut by that loss is replaced.
Received(m) ==
    CASE m.opcode = "Send" -> [Framed(m) EXCEPT !.payload.sg_list = Wrapped(@)]
      [] m.opcode = "Error" -> [Framed(m) EXCEPT !.payload.description = Lossy(Wrapped(@))]
      [] OTHER -> Framed(m)

\* A frame that arrives as it was sent, or with bytes after its payload, is
\* decoded to the message that was sent: every count, length and optional
\* field is found where encode put it (RdowsMessage::encode and decode).
RoundTrip ==
    got # Nothing /\ change \in {"none", "trail"} => got = Ok(Received(sent))

\* A frame that lost its end is refused, or what it lost was optional: the
\* suggested L_Key of an MR_REG or the description of an ERROR.  No list and
\* no data is ever cut short silently (the length checks of every decode).
ShortFramesRefused ==
    (got.result = "Ok" /\ change = "cut") =>
        \/ got.value = Received(sent)
        \/ /\ sent.opcode = "MrReg"
           /\ got.value = [Framed(sent) EXCEPT !.payload.suggested_lkey = <<>>]
        \/ /\ sent.opcode = "Error"
           /\ got.value = [Framed(sent) EXCEPT !.payload.description = <<>>]

\* The lengths of a message's list and description fit their 16-bit fields.
FitsItsCounts(m) ==
    /\ m.opcode = "Send" => Len(m.payload.sg_list) < Radix ^ 2
    /\ m.opcode = "Error" => Len(m.payload.description) < Radix ^ 2

\* Whatever was decoded, from whatever bytes, can be sent on: encoding it and
\* decoding that gives the same message again, replaced characters, unknown
\* error codes and ignored bytes included.  Only a description of 2^16 bytes or
\* more is exempt: replaced characters are longer than what they replace, so
\* decode can return one (from_utf8_lossy in ErrorPayload::decode).
SentOnUnchanged ==
    (got.result = "Ok" /\ FitsItsCounts(got.value)) =>
        Decode(Encode(got.value)) = Ok(Framed(got.value))

\* The unchecked subtractions go wrong only for a WRITE or READ_RESP whose
\* payload_length is smaller than its fixed part, which encode never writes;
\* every other frame, however altered, is decoded or refused
\* (WritePayload::decode, ReadRespPayload::decode).
PanicsOnlyOnUnderflow ==
    got = Panic =>
        /\ \/ wire[2] = Opcode.Write /\ Get(SubSeq(wire, 21, 24)) < Size(WritePayload)
           \/ wire[2] = Opcode.ReadResp /\ Get(SubSeq(wire, 21, 24)) < Size(ReadRespPayload)
        /\ change \in {"length", "byte"}

=============================================================================
