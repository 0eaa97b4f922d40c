------------------------------- MODULE Client -------------------------------
(***************************************************************************)
(* The client library: lib.rs, verbs.rs, connection.rs and completion.rs   *)
(* of crates/rdows-client.                                                 *)
(*                                                                         *)
(* Every verb takes &mut self, so one verb is under way at a time.  It     *)
(* runs in up to three steps, cut where it awaits: the request goes out    *)
(* ("data" is next for SEND and WRITE, "recv" for the rest), the data      *)
(* frame follows, and an answer is taken.  The application numbers its     *)
(* work requests; the sequence number of the first frame serves as wrid.   *)
(* An entry of the completion queue tells whether the request succeeded:   *)
(* the rest of it is copied from the call and the answer.                  *)
(***************************************************************************)
EXTENDS Session
LOCAL INSTANCE Folds

CONSTANTS
    CqCapacity,     \* ConnectConfig.cq_capacity
    SgLists,        \* scatter/gather lists the application uses
    LocalWrites     \* arguments of write_local_mr: [offset, data]

VARIABLES
    phase,          \* "start", "connecting", "idle", "data", "recv" or "gone"
    call,           \* the verb under way and its arguments
    c_next_seq, c_expected, send_credits, cq, local_mrs

clientVars == <<phase, call, c_next_seq, c_expected, send_credits, cq, local_mrs>>

ASSUME ClientAssumption == CqCapacity \in Nat

NoCall == [verb |-> "none"]
WorkRequests == {"post_send", "rdma_write", "rdma_read", "post_atomic"}
TwoFrames == {"post_send", "rdma_write"}

ClientInit ==
    /\ phase = "start"
    /\ call = NoCall
    /\ c_next_seq = 0
    /\ c_expected = 0
    /\ send_credits = 0
    /\ cq = <<>>
    /\ local_mrs = <<>>
-----------------------------------------------------------------------------
(* connection::send_message: it can fail once the other end has gone.       *)

\* Does not wrap the sequence number.
BadEmit(length, msg) ==
    /\ c2s' = Append(c2s, [seq |-> c_next_seq, payload_length |-> length, msg |-> msg])
    /\ c_next_seq' = c_next_seq + 1

Emit(length, msg) ==
    /\ c2s' = Append(c2s, [seq |-> c_next_seq, payload_length |-> length, msg |-> msg])
    /\ c_next_seq' = Succ(c_next_seq)

\* The verb returns to the application.
Return ==
    /\ phase' = "idle"
    /\ call' = NoCall

SendFails ==
    /\ state = "Closed"
    /\ Return
    /\ c_next_seq' = Succ(c_next_seq)
    /\ UNCHANGED c2s
-----------------------------------------------------------------------------
(* connect                                                                  *)

Connect ==
    /\ phase = "start"
    /\ phase' = "connecting"
    /\ Emit(0, [op |-> "Connect", max_msg_size |-> DefaultMaxMsgSize])
    /\ UNCHANGED <<call, c_expected, send_credits, cq, local_mrs, s2c>>

TakeConnectAck ==
    /\ phase = "connecting" /\ s2c # <<>>
    /\ s2c' = Tail(s2c)
    /\ LET m == Head(s2c).msg
       IN  IF m.op = "ConnectAck"
           THEN /\ c_expected' = Succ(Head(s2c).seq)
                /\ send_credits' = m.icc
                /\ phase' = "idle"
           ELSE /\ phase' = "gone"
                /\ UNCHANGED <<c_expected, send_credits>>
    /\ UNCHANGED <<call, c_next_seq, cq, local_mrs, c2s>>

ConnectFails ==
    /\ phase = "connecting" /\ s2c = <<>> /\ state = "Closed"
    /\ phase' = "gone"
    /\ UNCHANGED <<call, c_next_seq, c_expected, send_credits, cq, local_mrs, channels>>
-----------------------------------------------------------------------------
(* The start of a verb: the checks that return at once, then the request.   *)

\* Offsets and lengths are such that their sum is a usize: the code adds them
\* unchecked, here and where it places the data of a READ_RESP or of
\* write_local_mr.
SgStatus(sg) ==
    IF sg.lkey \notin DOMAIN local_mrs THEN "ErrInvalidLkey"
    ELSE IF sg.offset + sg.length > Len(local_mrs[sg.lkey].local_buf) THEN "ErrBounds"
    ELSE "Ok"

Least(S) == CHOOSE i \in S : \A j \in S : i <= j

\* The status of the first entry that fails.
GatherStatus(sg_list) ==
    LET bad == {i \in DOMAIN sg_list : SgStatus(sg_list[i]) # "Ok"}
    IN  IF bad = {} THEN "Ok" ELSE SgStatus(sg_list[Least(bad)])

\* The cells of the entries, one after the other.
Gather(sg_list) ==
    LET Cells(i) == LET sg == sg_list[i]
                    IN  SubSeq(local_mrs[sg.lkey].local_buf,
                               sg.offset + 1, sg.offset + sg.length)
    IN  MapThenFoldSet(LAMBDA s, t : s \o t, <<>>, Cells, Least, DOMAIN sg_list)

\* Leaves it to the push to notice that the queue is full.
BadCqFull == FALSE
CqFull == Len(cq) >= CqCapacity

\* A refused call changes nothing.
Refusal(c) ==
    IF c.verb \in WorkRequests /\ CqFull THEN "ErrCqOverflow"
    ELSE IF c.verb = "post_send" /\ send_credits = 0 THEN "SendCreditsExhausted"
    ELSE IF c.verb \in TwoFrames THEN GatherStatus(c.sg_list)
    ELSE "Ok"

Request(c) ==
    CASE c.verb = "reg_mr" ->
            [op |-> "MrReg", pd |-> 1, access_flags |-> c.access_flags,
             region_len |-> c.region_len]
      [] c.verb = "dereg_mr" -> [op |-> "MrDereg", pd |-> 1, lkey |-> c.lkey]
      [] c.verb = "post_send" -> [op |-> "Send", wrid |-> c_next_seq]
      [] c.verb = "rdma_write" ->
            [op |-> "Write", wrid |-> c_next_seq, rkey |-> c.rkey, remote_va |-> c.remote_va]
      [] c.verb = "rdma_read" ->
            [op |-> "ReadReq", wrid |-> c_next_seq, rkey |-> c.rkey,
             remote_va |-> c.remote_va, read_len |-> c.read_len]
      [] c.verb = "post_atomic" ->
            [op |-> "AtomicReq", wrid |-> c_next_seq, rkey |-> c.rkey,
             remote_va |-> c.remote_va, atomic_type |-> c.atomic_type,
             operand1 |-> c.operand1, operand2 |-> c.operand2]

\* What the call still needs after its request: the wrid, and the gathered data.
Begun(c) ==
    IF c.verb \in TwoFrames
    THEN [c EXCEPT !.wrid = c_next_seq, !.data = Gather(c.sg_list), !.sg_list = <<>>]
    ELSE IF c.verb \in WorkRequests THEN [c EXCEPT !.wrid = c_next_seq]
    ELSE c

Begin(c) ==
    /\ phase = "idle"
    /\ Refusal(c) = "Ok"
    /\ \/ SendFails
       \/ /\ Emit(0, Request(c))
          /\ call' = Begun(c)
          /\ phase' = IF c.verb \in TwoFrames THEN "data" ELSE "recv"
    /\ UNCHANGED <<c_expected, send_credits, cq, local_mrs, s2c>>

RegMr(access_flags, region_len) ==
    Begin([verb |-> "reg_mr", access_flags |-> access_flags, region_len |-> region_len])

DeregMr(lkey) == Begin([verb |-> "dereg_mr", lkey |-> lkey])

PostSend(sg_list) ==
    Begin([verb |-> "post_send", sg_list |-> sg_list, wrid |-> 0, data |-> <<>>])

RdmaWrite(rkey, remote_va, sg_list) ==
    Begin([verb |-> "rdma_write", rkey |-> rkey, remote_va |-> remote_va,
           sg_list |-> sg_list, wrid |-> 0, data |-> <<>>])

RdmaRead(rkey, remote_va, read_len, local_lkey, local_va) ==
    Begin([verb |-> "rdma_read", rkey |-> rkey, remote_va |-> remote_va,
           read_len |-> read_len, lkey |-> local_lkey, local_va |-> local_va, wrid |-> 0])

PostAtomic(rkey, remote_va, atomic_type, operand1, operand2) ==
    Begin([verb |-> "post_atomic", rkey |-> rkey, remote_va |-> remote_va,
           atomic_type |-> atomic_type, operand1 |-> operand1, operand2 |-> operand2,
           wrid |-> 0])

\* The second frame of SEND and WRITE.  Its size is not compared with the
\* negotiated maximum.
SendData ==
    /\ phase = "data"
    /\ \/ /\ Emit(Len(call.data),
                  IF call.verb = "post_send" THEN [op |-> "SendData"]
                  ELSE [op |-> "WriteData", data |-> call.data])
          /\ phase' = "recv"
          /\ UNCHANGED call
       \/ SendFails
    /\ UNCHANGED <<c_expected, send_credits, cq, local_mrs, s2c>>
-----------------------------------------------------------------------------
(* The end of a verb: recv_app_message, then the match on the answer.       *)

InSequence == Head(s2c).seq = c_expected

TakeCredit ==
    /\ phase = "recv" /\ s2c # <<>> /\ InSequence
    /\ Head(s2c).msg.op = "CreditUpdate"
    /\ s2c' = Tail(s2c)
    /\ c_expected' = Succ(c_expected)
    /\ send_credits' = send_credits + Head(s2c).msg.credit_increment
    /\ UNCHANGED <<phase, call, c_next_seq, cq, local_mrs, c2s>>

Answer ==
    [reg_mr |-> "MrRegAck", dereg_mr |-> "MrDeregAck", post_send |-> "RecvComp",
     rdma_write |-> "WriteComp", rdma_read |-> "ReadResp", post_atomic |-> "AtomicResp"]

\* A read lands in the local region only if that still exists and has room.
LandingStatus(m) ==
    IF call.lkey \notin DOMAIN local_mrs THEN "ErrInvalidLkey"
    ELSE IF call.local_va + Len(m.data) > Len(local_mrs[call.lkey].local_buf)
    THEN "ErrBounds"
    ELSE "Ok"

Result(m) ==
    IF ~InSequence THEN "ErrSeqGap"
    ELSE IF m.op = "Error" THEN m.status
    ELSE IF m.op # Answer[call.verb] THEN "UnexpectedMessage"
    ELSE CASE call.verb \in {"reg_mr", "dereg_mr"} -> m.status
           [] call.verb = "rdma_read" -> LandingStatus(m)
           [] OTHER -> "Ok"

\* An answer of the wrong kind, and a read that cannot land, push no entry.
Completes(m) ==
    /\ call.verb \in WorkRequests
    /\ InSequence
    /\ m.op = "Error" \/ Result(m) = "Ok"

Push(status) ==
    IF CqFull THEN cq ELSE Append(cq, status = "Ok")

\* Keeps the handle of a region that is gone.
BadLanded(m) ==
    CASE call.verb = "reg_mr" ->
            With(local_mrs, m.lkey, [rkey |-> m.rkey, local_buf |-> Zeroes(call.region_len)])
      [] call.verb = "rdma_read" ->
            [local_mrs EXCEPT ![call.lkey].local_buf = Splice(@, call.local_va, m.data)]
      [] OTHER -> local_mrs

Landed(m) ==
    CASE call.verb = "reg_mr" ->
            With(local_mrs, m.lkey, [rkey |-> m.rkey, local_buf |-> Zeroes(call.region_len)])
      [] call.verb = "dereg_mr" -> Without(local_mrs, call.lkey)
      [] call.verb = "rdma_read" ->
            [local_mrs EXCEPT ![call.lkey].local_buf = Splice(@, call.local_va, m.data)]
      [] OTHER -> local_mrs

TakeAnswer ==
    /\ phase = "recv" /\ s2c # <<>>
    /\ ~(InSequence /\ Head(s2c).msg.op = "CreditUpdate")
    /\ LET m == Head(s2c).msg
           ok == Result(m) = "Ok"
       IN  /\ Return
           /\ cq' = IF Completes(m) THEN Push(Result(m)) ELSE cq
           /\ local_mrs' = IF ok THEN Landed(m) ELSE local_mrs
           /\ send_credits' = IF ok /\ call.verb = "post_send"
                              THEN send_credits - 1 ELSE send_credits
    /\ s2c' = Tail(s2c)
    /\ c_expected' = IF InSequence THEN Succ(c_expected) ELSE c_expected
    /\ UNCHANGED <<c_next_seq, c2s>>

AnswerFails ==
    /\ phase = "recv" /\ s2c = <<>> /\ state = "Closed"
    /\ Return
    /\ UNCHANGED <<c_next_seq, c_expected, send_credits, cq, local_mrs, channels>>
-----------------------------------------------------------------------------
(* Operations that do not wait for the server.                              *)

PollCq(max) ==
    /\ phase = "idle" /\ cq # <<>>
    /\ cq' = SubSeq(cq, (IF max < Len(cq) THEN max ELSE Len(cq)) + 1, Len(cq))
    /\ UNCHANGED <<phase, call, c_next_seq, c_expected, send_credits, local_mrs, channels>>

WriteLocalMr(lkey, offset, data) ==
    /\ phase = "idle"
    /\ SgStatus([lkey |-> lkey, offset |-> offset, length |-> Len(data)]) = "Ok"
    /\ local_mrs' = [local_mrs EXCEPT ![lkey].local_buf = Splice(@, offset, data)]
    /\ UNCHANGED <<phase, call, c_next_seq, c_expected, send_credits, cq, channels>>

\* disconnect consumes the connection.
Disconnect ==
    /\ phase = "idle"
    /\ phase' = "gone"
    /\ \/ Emit(0, [op |-> "Disconnect"])
       \/ state = "Closed" /\ c_next_seq' = Succ(c_next_seq) /\ UNCHANGED c2s
    /\ UNCHANGED <<call, c_expected, send_credits, cq, local_mrs, s2c>>
=============================================================================
