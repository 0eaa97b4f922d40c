------------------------------ MODULE Session ------------------------------
(***************************************************************************)
(* One server session: session.rs and handler.rs of crates/rdows-server.   *)
(*                                                                         *)
(* run_session takes one message at a time off the connection and handles  *)
(* it to the end before the next, so a handler, with every reply it sends, *)
(* is one step.  c2s and s2c are the two directions of the WebSocket: TCP  *)
(* keeps their order, and loses messages only with the connection.         *)
(*                                                                         *)
(* A frame is a header (seq, payload_length) and a message; session_id,    *)
(* flags and the echoed pd are left out.  Sequence numbers are modulo      *)
(* SeqSpace (2^32 in the code).  outstanding_reads is raised and lowered   *)
(* inside one handler, so it is 0 whenever a message is taken up.          *)
(***************************************************************************)
EXTENDS MemoryStore

CONSTANTS
    SeqSpace,           \* sequence numbers are u32 in the code
    Wrids,              \* work request identifiers
    ICC,                \* DEFAULT_ICC
    RecvQueueDepth,     \* ServerConfig.recv_queue_depth
    MaxOutstandingReads,\* ServerConfig.max_outstanding_reads
    MrRegRateLimit,     \* ServerConfig.mr_reg_rate_limit
    DefaultMaxMsgSize,  \* DEFAULT_MAX_MSG_SIZE, in cells
    Sizes,              \* payload lengths and message sizes peers name, in cells
    MaxInFlight         \* bound: messages under way when a peer sends another

VARIABLES
    state, max_msg_size, next_seq, expected_remote_seq, pending_op,
    recv_queue_depth, sends_since_last_credit, mr_reg_count,
    c2s, s2c

sessionVars ==
    <<state, max_msg_size, next_seq, expected_remote_seq, pending_op,
      recv_queue_depth, sends_since_last_credit, mr_reg_count>>
channels == <<c2s, s2c>>
vars == <<storeVars, sessionVars, channels>>

ASSUME SessionAssumption ==
    /\ SeqSpace \in Nat \ {0} /\ ICC \in Nat /\ RecvQueueDepth \in Nat
    /\ MaxOutstandingReads \in Nat /\ MrRegRateLimit \in Nat
    /\ DefaultMaxMsgSize \in Nat /\ Sizes \subseteq Nat /\ MaxInFlight \in Nat

Seqs == 0 .. SeqSpace - 1
Succ(n) == (n + 1) % SeqSpace

(* What a peer can send.  "Other" stands for the opcodes only a server      *)
(* sends: they decode, and dispatch refuses them.                           *)
Requests ==
    [op : {"Connect"}, max_msg_size : Sizes]
    \cup [op : {"Disconnect", "CreditUpdate", "Ack", "Other"}]
    \cup [op : {"MrReg"}, pd : PDs, access_flags : Accesses, region_len : Lens]
    \cup [op : {"MrDereg"}, pd : PDs, lkey : 1 .. MaxLKey]
    \cup [op : {"Send"}, wrid : Wrids]
    \cup [op : {"SendData"}]
    \cup [op : {"Write"}, wrid : Wrids, rkey : RKeys, remote_va : Offsets]
    \cup [op : {"WriteData"}, data : Payloads]
    \cup [op : {"ReadReq"}, wrid : Wrids, rkey : RKeys, remote_va : Offsets,
          read_len : Lens]
    \cup [op : {"AtomicReq"}, wrid : Wrids, rkey : RKeys, remote_va : Offsets,
          atomic_type : {"CAS", "FAA", "bad"}, operand1 : Operands, operand2 : Operands]
Frames == [seq : Seqs, payload_length : Sizes, msg : Requests]

NoOp == [kind |-> "None"]
Discarding == [kind |-> "DiscardingSendData"]
AwaitingSendData(wrid) == [kind |-> "AwaitingSendData", wrid |-> wrid]
AwaitingWriteData(wrid, rkey, remote_va) ==
    [kind |-> "AwaitingWriteData", wrid |-> wrid, rkey |-> rkey, remote_va |-> remote_va]
PendingOps ==
    {NoOp, Discarding} \cup [kind : {"AwaitingSendData"}, wrid : Wrids]
    \cup [kind : {"AwaitingWriteData"}, wrid : Wrids, rkey : RKeys, remote_va : Offsets]

SessionInit ==
    /\ StoreInit
    /\ state = "AwaitingConnect"
    /\ max_msg_size = DefaultMaxMsgSize
    /\ next_seq = 0
    /\ expected_remote_seq = 0      \* None; set by CONNECT before it is read
    /\ pending_op = NoOp
    /\ recv_queue_depth = RecvQueueDepth
    /\ sends_since_last_credit = 0
    /\ mr_reg_count = 0
    /\ c2s = <<>>
    /\ s2c = <<>>
-----------------------------------------------------------------------------
(* Sending: each reply takes the next sequence number.                      *)

\* Forgets to count the reply.
BadReply(msgs) ==
    /\ s2c' = s2c \o [i \in 1 .. Len(msgs) |-> [seq |-> next_seq, msg |-> msgs[i]]]
    /\ next_seq' = Succ(next_seq)

Reply(msgs) ==
    /\ s2c' = s2c \o [i \in 1 .. Len(msgs) |->
                         [seq |-> (next_seq + i - 1) % SeqSpace, msg |-> msgs[i]]]
    /\ next_seq' = (next_seq + Len(msgs)) % SeqSpace

Silent == UNCHANGED <<s2c, next_seq>>

ErrorMsg(code, failing_seq) ==
    [op |-> "Error", status |-> code, failing_seq |-> failing_seq]

\* The head of c2s, taken by the step at hand.
Incoming == Head(c2s)
Msg == Incoming.msg
-----------------------------------------------------------------------------
(* Handlers.  Each describes what its message changes, other than c2s and   *)
(* expected_remote_seq.                                                     *)

\* elapsed: a second or more has passed since the window was opened.  A panic in
\* register takes the session's task with it.
HandleMrReg ==
    \E elapsed \in BOOLEAN :
        LET count == IF elapsed THEN 0 ELSE mr_reg_count
            Ack(lkey, rkey, status) ==
                [op |-> "MrRegAck", lkey |-> lkey, rkey |-> rkey, status |-> status]
        IN  /\ \/ /\ count >= MrRegRateLimit
                  /\ mr_reg_count' = count
                  /\ Reply(<<Ack(NoKey, NoKey, "ErrInternal")>>)
                  /\ UNCHANGED <<storeVars, state>>
               \/ /\ count < MrRegRateLimit
                  /\ mr_reg_count' = count + 1
                  /\ \E rkey \in DrawnRkeys :
                        /\ Register(Msg.pd, Msg.access_flags, Msg.region_len, rkey)
                        /\ IF RegisterStatus(Msg.region_len, rkey) = "Ok"
                           THEN Reply(<<Ack(next_lkey, rkey, "Ok")>>)
                           ELSE Reply(<<Ack(NoKey, NoKey,
                                            RegisterStatus(Msg.region_len, rkey))>>)
                  /\ UNCHANGED state
               \/ /\ count < MrRegRateLimit
                  /\ mr_reg_count' = count + 1
                  /\ RegisterPanics(Msg.region_len)
                  /\ state' = "Closed"
                  /\ Silent
            /\ UNCHANGED <<max_msg_size, pending_op, recv_queue_depth,
                           sends_since_last_credit>>

HandleMrDereg ==
    /\ Deregister(Msg.pd, Msg.lkey)
    /\ Reply(<<[op |-> "MrDeregAck", status |-> DeregisterStatus(Msg.pd, Msg.lkey)]>>)
    /\ UNCHANGED <<state, max_msg_size, pending_op, recv_queue_depth,
                   sends_since_last_credit, mr_reg_count>>

\* Refuses a SEND without remembering that its data is still to come.
BadHandleSend ==
    /\ \/ /\ recv_queue_depth = 0
          /\ Reply(<<ErrorMsg("ErrRnr", Incoming.seq)>>)
          /\ UNCHANGED <<recv_queue_depth, pending_op>>
       \/ /\ recv_queue_depth > 0
          /\ recv_queue_depth' = recv_queue_depth - 1
          /\ pending_op' = AwaitingSendData(Msg.wrid)
          /\ Silent
    /\ UNCHANGED <<storeVars, state, max_msg_size, sends_since_last_credit, mr_reg_count>>

HandleSend ==
    /\ \/ /\ recv_queue_depth = 0
          /\ Reply(<<ErrorMsg("ErrRnr", Incoming.seq)>>)
          /\ pending_op' = Discarding
          /\ UNCHANGED recv_queue_depth
       \/ /\ recv_queue_depth > 0
          /\ recv_queue_depth' = recv_queue_depth - 1
          /\ pending_op' = AwaitingSendData(Msg.wrid)
          /\ Silent
    /\ UNCHANGED <<storeVars, state, max_msg_size, sends_since_last_credit, mr_reg_count>>

CreditDue(sends) == sends >= ICC \div 4

\* Forgets to restart the count after granting credits.
BadCompleteSend(wrid) ==
    LET sends == sends_since_last_credit + 1
        comp == [op |-> "RecvComp", wrid |-> wrid]
    IN  \/ /\ CreditDue(sends)
           /\ Reply(<<comp, [op |-> "CreditUpdate", credit_increment |-> sends]>>)
           /\ sends_since_last_credit' = sends
        \/ /\ ~CreditDue(sends)
           /\ Reply(<<comp>>)
           /\ sends_since_last_credit' = sends

CompleteSend(wrid) ==
    LET sends == sends_since_last_credit + 1
        comp == [op |-> "RecvComp", wrid |-> wrid]
    IN  \/ /\ CreditDue(sends)
           /\ Reply(<<comp, [op |-> "CreditUpdate", credit_increment |-> sends]>>)
           /\ sends_since_last_credit' = 0
        \/ /\ ~CreditDue(sends)
           /\ Reply(<<comp>>)
           /\ sends_since_last_credit' = sends

\* The pending operation is taken whatever it was, a pending WRITE included.
HandleSendData ==
    /\ pending_op' = NoOp
    /\ \/ pending_op.kind = "AwaitingSendData" /\ CompleteSend(pending_op.wrid)
       \/ /\ pending_op.kind = "DiscardingSendData"
          /\ Silent /\ UNCHANGED sends_since_last_credit
       \/ /\ pending_op.kind \in {"None", "AwaitingWriteData"}
          /\ Reply(<<ErrorMsg("ErrUnknownOpcode", 0)>>)
          /\ UNCHANGED sends_since_last_credit
    /\ UNCHANGED <<storeVars, state, max_msg_size, recv_queue_depth, mr_reg_count>>

\* A refused WRITE leaves pending_op alone.
HandleWrite ==
    /\ LET status == ValidateRkey(Msg.rkey, "REMOTE_WRITE")
       IN  \/ /\ status # "Ok"
              /\ Reply(<<ErrorMsg(status, Incoming.seq)>>)
              /\ UNCHANGED pending_op
           \/ /\ status = "Ok"
              /\ pending_op' = AwaitingWriteData(Msg.wrid, Msg.rkey, Msg.remote_va)
              /\ Silent
    /\ UNCHANGED <<storeVars, state, max_msg_size, recv_queue_depth,
                   sends_since_last_credit, mr_reg_count>>

\* Trusts the check made when the WRITE came, and reports success.
BadHandleWriteData ==
    /\ pending_op' = NoOp
    /\ \/ /\ pending_op.kind = "AwaitingWriteData"
          /\ WriteRegion(pending_op.rkey, pending_op.remote_va, Msg.data)
          /\ Reply(<<[op |-> "WriteComp", wrid |-> pending_op.wrid]>>)
       \/ /\ pending_op.kind # "AwaitingWriteData"
          /\ Reply(<<ErrorMsg("ErrUnknownOpcode", 0)>>)
          /\ UNCHANGED storeVars
    /\ UNCHANGED <<state, max_msg_size, recv_queue_depth, sends_since_last_credit,
                   mr_reg_count>>

\* Acknowledges nothing but errors.
BadUnackedWriteData ==
    /\ pending_op' = NoOp
    /\ \/ /\ pending_op.kind = "AwaitingWriteData"
          /\ WriteRegion(pending_op.rkey, pending_op.remote_va, Msg.data)
          /\ LET status == WriteStatus(pending_op.rkey, pending_op.remote_va, Msg.data)
             IN  IF status = "Ok" THEN Silent ELSE Reply(<<ErrorMsg(status, 0)>>)
       \/ /\ pending_op.kind # "AwaitingWriteData"
          /\ Reply(<<ErrorMsg("ErrUnknownOpcode", 0)>>)
          /\ UNCHANGED storeVars
    /\ UNCHANGED <<state, max_msg_size, recv_queue_depth, sends_since_last_credit,
                   mr_reg_count>>

HandleWriteData ==
    /\ pending_op' = NoOp
    /\ \/ /\ pending_op.kind = "AwaitingWriteData"
          /\ WriteRegion(pending_op.rkey, pending_op.remote_va, Msg.data)
          /\ LET status == WriteStatus(pending_op.rkey, pending_op.remote_va, Msg.data)
             IN  IF status = "Ok"
                 THEN Reply(<<[op |-> "WriteComp", wrid |-> pending_op.wrid]>>)
                 ELSE Reply(<<ErrorMsg(status, 0)>>)
       \/ /\ pending_op.kind # "AwaitingWriteData"
          /\ Reply(<<ErrorMsg("ErrUnknownOpcode", 0)>>)
          /\ UNCHANGED storeVars
    /\ UNCHANGED <<state, max_msg_size, recv_queue_depth, sends_since_last_credit,
                   mr_reg_count>>

\* Goes on after it has reported an error.
BadHandleReadReq ==
    /\ LET status == IF MaxOutstandingReads = 0 THEN "ErrRnr"
                     ELSE ReadStatus(Msg.rkey, Msg.remote_va, Msg.read_len)
       IN  IF status = "Ok"
           THEN Reply(<<[op |-> "ReadResp", wrid |-> Msg.wrid,
                         data |-> ReadRegion(Msg.rkey, Msg.remote_va, Msg.read_len)]>>)
           ELSE Reply(<<ErrorMsg(status, Incoming.seq),
                        [op |-> "ReadResp", wrid |-> Msg.wrid, data |-> <<>>]>>)
    /\ UNCHANGED <<storeVars, state, max_msg_size, pending_op, recv_queue_depth,
                   sends_since_last_credit, mr_reg_count>>

HandleReadReq ==
    /\ LET status == IF MaxOutstandingReads = 0 THEN "ErrRnr"
                     ELSE ReadStatus(Msg.rkey, Msg.remote_va, Msg.read_len)
       IN  IF status = "Ok"
           THEN Reply(<<[op |-> "ReadResp", wrid |-> Msg.wrid,
                         data |-> ReadRegion(Msg.rkey, Msg.remote_va, Msg.read_len)]>>)
           ELSE Reply(<<ErrorMsg(status, Incoming.seq)>>)
    /\ UNCHANGED <<storeVars, state, max_msg_size, pending_op, recv_queue_depth,
                   sends_since_last_credit, mr_reg_count>>

HandleAtomicReq ==
    /\ \/ /\ Msg.atomic_type \notin {"CAS", "FAA"}
          /\ Reply(<<ErrorMsg("ErrUnknownOpcode", Incoming.seq)>>)
          /\ UNCHANGED storeVars
       \/ /\ Msg.atomic_type \in {"CAS", "FAA"}
          /\ AtomicOp(Msg.rkey, Msg.remote_va, Msg.atomic_type, Msg.operand1, Msg.operand2)
          /\ LET status == AtomicStatus(Msg.rkey, Msg.remote_va)
             IN  IF status = "Ok"
                 THEN Reply(<<[op |-> "AtomicResp", wrid |-> Msg.wrid,
                               original |-> Original(Msg.rkey, Msg.remote_va)]>>)
                 ELSE Reply(<<ErrorMsg(status, Incoming.seq)>>)
    /\ UNCHANGED <<state, max_msg_size, pending_op, recv_queue_depth,
                   sends_since_last_credit, mr_reg_count>>

\* Frees the regions on the way out, and not their keys.
BadHandleDisconnect ==
    /\ state' = "Closed"
    /\ regions' = <<>>
    /\ Silent
    /\ UNCHANGED <<rkey_to_lkey, used_rkeys, next_lkey, total_registered_bytes,
                   max_msg_size, pending_op, recv_queue_depth,
                   sends_since_last_credit, mr_reg_count>>

HandleDisconnect ==
    /\ state' = "Closed"
    /\ Silent
    /\ UNCHANGED <<storeVars, max_msg_size, pending_op, recv_queue_depth,
                   sends_since_last_credit, mr_reg_count>>

\* CREDIT_UPDATE and ACK.
Ignore ==
    /\ Silent
    /\ UNCHANGED <<storeVars, state, max_msg_size, pending_op, recv_queue_depth,
                   sends_since_last_credit, mr_reg_count>>

HandleOther ==
    /\ Reply(<<ErrorMsg("ErrUnknownOpcode", Incoming.seq)>>)
    /\ UNCHANGED <<storeVars, state, max_msg_size, pending_op, recv_queue_depth,
                   sends_since_last_credit, mr_reg_count>>
-----------------------------------------------------------------------------
(* handle_message: the checks before the handler, then the handler.         *)

Taken == c2s # <<>> /\ c2s' = Tail(c2s)

TooLarge == Incoming.payload_length > max_msg_size

\* Drops the message without a word.
BadRefusePayload ==
    /\ state = "Ready" /\ Taken /\ TooLarge
    /\ Silent
    /\ UNCHANGED <<storeVars, state, max_msg_size, expected_remote_seq, pending_op,
                   recv_queue_depth, sends_since_last_credit, mr_reg_count>>

\* Refused before the sequence number is looked at.
RefusePayload ==
    /\ state = "Ready" /\ Taken /\ TooLarge
    /\ Reply(<<ErrorMsg("ErrPayloadSize", Incoming.seq)>>)
    /\ UNCHANGED <<storeVars, state, max_msg_size, expected_remote_seq, pending_op,
                   recv_queue_depth, sends_since_last_credit, mr_reg_count>>

RefuseSequence ==
    /\ state = "Ready" /\ Taken /\ ~TooLarge
    /\ Incoming.seq # expected_remote_seq
    /\ Reply(<<ErrorMsg("ErrSeqGap", Incoming.seq)>>)
    /\ UNCHANGED <<storeVars, state, max_msg_size, expected_remote_seq, pending_op,
                   recv_queue_depth, sends_since_last_credit, mr_reg_count>>

Dispatch ==
    \/ Msg.op = "MrReg" /\ HandleMrReg
    \/ Msg.op = "MrDereg" /\ HandleMrDereg
    \/ Msg.op = "Send" /\ HandleSend
    \/ Msg.op = "SendData" /\ HandleSendData
    \/ Msg.op = "Write" /\ HandleWrite
    \/ Msg.op = "WriteData" /\ HandleWriteData
    \/ Msg.op = "ReadReq" /\ HandleReadReq
    \/ Msg.op = "AtomicReq" /\ HandleAtomicReq
    \/ Msg.op = "Disconnect" /\ HandleDisconnect
    \/ Msg.op \in {"CreditUpdate", "Ack"} /\ Ignore
    \/ Msg.op \in {"Connect", "Other"} /\ HandleOther

HandleReady ==
    /\ state = "Ready" /\ Taken /\ ~TooLarge
    /\ Incoming.seq = expected_remote_seq
    /\ expected_remote_seq' = Succ(Incoming.seq)
    /\ Dispatch

\* Anything but CONNECT ends the session without a word.
HandleConnect ==
    /\ state = "AwaitingConnect" /\ Taken
    /\ \/ /\ Msg.op = "Connect"
          /\ LET size == IF Msg.max_msg_size < DefaultMaxMsgSize
                         THEN Msg.max_msg_size ELSE DefaultMaxMsgSize
             IN  /\ max_msg_size' = size
                 /\ Reply(<<[op |-> "ConnectAck", max_msg_size |-> size, icc |-> ICC]>>)
          /\ expected_remote_seq' = Succ(Incoming.seq)
          /\ state' = "Ready"
       \/ /\ Msg.op # "Connect"
          /\ state' = "Closed"
          /\ Silent /\ UNCHANGED <<max_msg_size, expected_remote_seq>>
    /\ UNCHANGED <<storeVars, pending_op, recv_queue_depth, sends_since_last_credit,
                   mr_reg_count>>

\* The stream ends, fails or yields bytes that do not decode: the loop is left.
\* Replies that were still on their way may be lost, the later ones first.
ConnectionLost ==
    /\ state # "Closed"
    /\ state' = "Closed"
    /\ \E n \in 0 .. Len(s2c) : s2c' = SubSeq(s2c, 1, n)
    /\ UNCHANGED <<storeVars, max_msg_size, next_seq, expected_remote_seq, pending_op,
                   recv_queue_depth, sends_since_last_credit, mr_reg_count, c2s>>

ServerStep == HandleConnect \/ RefusePayload \/ RefuseSequence \/ HandleReady
-----------------------------------------------------------------------------
(* The session facing a peer that sends any messages in any order.          *)

PeerSends(frame) ==
    /\ Len(c2s) + Len(s2c) < MaxInFlight
    /\ c2s' = Append(c2s, frame)
    /\ UNCHANGED <<storeVars, sessionVars, s2c>>

PeerReceives ==
    /\ s2c # <<>>
    /\ s2c' = Tail(s2c)
    /\ UNCHANGED <<storeVars, sessionVars, c2s>>

SessionNext ==
    \/ ServerStep
    \/ ConnectionLost
    \/ \E frame \in Frames : PeerSends(frame)
    \/ PeerReceives

SessionSpec == SessionInit /\ [][SessionNext]_vars
-----------------------------------------------------------------------------
\* The fields of Session hold what their types say; the credits held back stay
\* below the quarter of ICC at which they are granted, and the registrations
\* counted in a window below the limit.
SessionTypeOK ==
    /\ state \in {"AwaitingConnect", "Ready", "Closed"}
    /\ max_msg_size \in 0 .. DefaultMaxMsgSize
    /\ next_seq \in Seqs
    /\ expected_remote_seq \in Seqs
    /\ pending_op \in PendingOps
    /\ recv_queue_depth \in 0 .. RecvQueueDepth
    /\ sends_since_last_credit \in Nat
    /\ sends_since_last_credit > 0 => ~CreditDue(sends_since_last_credit)
    /\ mr_reg_count \in 0 .. MrRegRateLimit
    /\ c2s \in Seq(Frames)

\* The messages a step adds to s2c.
Sent == {s2c'[i].msg : i \in Len(s2c) + 1 .. Len(s2c')}

SomeError == \E m \in Sent : m.op = "Error"

\* What handling a message leaves alone when it is answered by ERROR: memory and
\* keys, receives, credits, what was negotiated and the rate of registrations.
\* Data takes the operation that is pending, whatever it is, and a SEND refused
\* for want of a receive replaces it.
Spared ==
    /\ UNCHANGED <<storeVars, state, max_msg_size, recv_queue_depth,
                   sends_since_last_credit, mr_reg_count>>
    /\ \/ UNCHANGED pending_op
       \/ Msg.op \in {"SendData", "WriteData"} /\ pending_op' = NoOp
       \/ Msg.op = "Send" /\ pending_op' = Discarding

\* A message answered by ERROR changes nothing but the pending operation, and
\* that in these two ways only: a half-done WRITE does not survive a stray
\* SEND_DATA or a refused SEND.  This is about one message: a SEND has used its
\* receive by the time its data is refused.
ErrorsChangeOnlyPending == [][SomeError => Spared]_vars

WriteDone ==
    /\ pending_op.kind = "AwaitingWriteData"
    /\ LET k == pending_op.rkey
           va == pending_op.remote_va
       IN  /\ k \in DOMAIN rkey_to_lkey'
           /\ "REMOTE_WRITE" \in regions'[rkey_to_lkey'[k]].access_flags
           /\ va + Len(Msg.data) <= Len(regions'[rkey_to_lkey'[k]].data)
           /\ SubSeq(regions'[rkey_to_lkey'[k]].data, va + 1, va + Len(Msg.data)) = Msg.data

\* WRITE_COMP is sent only for data that lies, complete, in a live region that
\* grants REMOTE_WRITE, at the place the WRITE named: also when the region was
\* deregistered, or another operation begun, between WRITE and WRITE_DATA.
WriteCompMeansWritten ==
    [][(\E m \in Sent : m.op = "WriteComp") => WriteDone]_vars

\* Memory changes only in a step that answers WRITE_COMP or ATOMIC_RESP, and
\* there only in the region the request named.
MemoryChangesAreAnswered ==
    [][\A l \in DOMAIN regions \cap DOMAIN regions' :
          regions'[l].data # regions[l].data =>
              \/ /\ \E m \in Sent : m.op = "WriteComp"
                 /\ regions[l].rkey = pending_op.rkey
              \/ /\ \E m \in Sent : m.op = "AtomicResp"
                 /\ regions[l].rkey = Msg.rkey]_vars

\* Whatever the messages, the session uses its store as the store allows.
StoreUsedAsSpecified == StoreSpec
=============================================================================
