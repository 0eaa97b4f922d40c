------------------------------ MODULE MCCodec ------------------------------
(***************************************************************************)
(* Codec for TLC, with decimal digits for bytes: a 16-bit number stays     *)
(* below 100 and a 32-bit one below 10000.  Every opcode is sent with      *)
(* fields of distinct digits, all zero and all maximal, and with tails of  *)
(* each length that matters: lists around 100 entries wrap their count,    *)
(* a description of 100 bytes wraps its length, or is cut in a character.  *)
(***************************************************************************)
EXTENDS Codec

\* Field i of a table: digits i+1, i+2, ..., or all zero, or all nine.
Digits(pattern, i, width) ==
    Get([k \in 1 .. width |-> CASE pattern = "distinct" -> (i + k) % Radix
                                [] pattern = "zero" -> 0
                                [] pattern = "max" -> Radix - 1])

Fields(table, pattern) ==
    [name \in Names(table) |->
        LET i == CHOOSE j \in DOMAIN table : table[j][1] = name
        IN  Digits(pattern, i, table[i][2])]

Patterns == {"distinct", "zero", "max"}

Message(op, pattern, payload) ==
    [opcode |-> op,
     header |-> [Fields(Header, pattern) EXCEPT !.payload_length = 0],
     payload |-> payload]

Entries(n) == [i \in 1 .. n |-> Fields(ScatterGatherEntry, "distinct")]

Variable == {"Send", "SendData", "Write", "WriteData", "ReadResp", "Error", "MrReg"}

Data == {<<>>, <<9>>, <<7, 0, 9>>}

\* A character of each length: U+0006, U+00E9, U+FFFD and U+1F496.
Wide == <<6, 195, 169>> \o Replacement \o <<240, 159, 146, 150>>

Errors ==
    [error_code : DOMAIN ErrorCode, failing_seq : {12}, description : {<<6, 5>>}] \cup
    [error_code : {"ErrRnr"}, failing_seq : {9999},
     description : {[i \in 1 .. n |-> 6] : n \in {0, 1, 99, 100, 101}}
         \cup {Wide, [i \in 1 .. 98 |-> 6] \o Wide}]

MCMessages ==
    UNION {
        {Message(op, p, Fields(FixedPart[op], p)) :
            op \in DOMAIN Opcode \ Variable, p \in Patterns},
        {Message("MrReg", p, [suggested_lkey |-> k] @@ Fields(MrRegPayload, p)) :
            p \in Patterns, k \in {<<>>, <<1234>>}},
        {Message("Send", "distinct", [sg_list |-> Entries(n)]) :
            n \in {0, 1, 2, 99, 100, 101}},
        {Message("Write", p, [sg_list |-> Entries(n)] @@ Fields(WritePayload, p)) :
            p \in Patterns, n \in 0 .. 2},
        {Message(op, "distinct", [data |-> d]) :
            op \in {"SendData", "WriteData"}, d \in Data},
        {Message("ReadResp", p, [data |-> d] @@ Fields(ReadRespPayload, p)) :
            p \in Patterns, d \in Data},
        {Message("Error", "distinct", e) : e \in Errors} }

MCTrailers == {<<9>>, <<9, 9, 9, 9>>, [i \in 1 .. SG_ENTRY_SIZE |-> 1]}
=============================================================================
