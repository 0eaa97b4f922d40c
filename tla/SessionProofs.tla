--------------------------- MODULE SessionProofs ----------------------------
(***************************************************************************)
(* A session facing any peer, for every value of the constants: its types, *)
(* its use of the memory store, and what its answers say.                  *)
(***************************************************************************)
EXTENDS Session, MemoryStoreProofs

(* Sequence numbers stay in their space.                                    *)
LEMMA SuccType ==
    ASSUME NEW n \in Seqs
    PROVE  Succ(n) \in Seqs
BY SessionAssumption DEF Succ, Seqs

(* The message at hand is one that decodes.                                 *)
LEMMA IncomingType ==
    ASSUME SessionTypeOK, Taken
    PROVE  /\ Msg \in Requests
           /\ Incoming.seq \in Seqs
           /\ c2s' \in Seq(Frames)
<1>1. Head(c2s) \in Frames /\ Tail(c2s) \in Seq(Frames)
    BY DEF SessionTypeOK, Taken
<1> QED
    BY <1>1 DEF Incoming, Msg, Frames, SessionTypeOK, Taken

(* The fields of each kind of request.                                      *)
LEMMA RequestFields ==
    ASSUME NEW m \in Requests
    PROVE  /\ m.op = "MrReg" =>
                 m.pd \in PDs /\ m.access_flags \in Accesses /\ m.region_len \in Lens
           /\ m.op = "MrDereg" => m.pd \in PDs /\ m.lkey \in 1 .. MaxLKey
           /\ m.op = "Send" => m.wrid \in Wrids
           /\ m.op = "Write" =>
                 m.wrid \in Wrids /\ m.rkey \in RKeys /\ m.remote_va \in Offsets
           /\ m.op = "WriteData" => m.data \in Payloads
           /\ m.op = "AtomicReq" =>
                 /\ m.rkey \in RKeys /\ m.remote_va \in Offsets
                 /\ m.operand1 \in Operands /\ m.operand2 \in Operands
           /\ m.op = "Connect" => m.max_msg_size \in Sizes
BY DEF Requests

(* So do those a step of the server hands out.                              *)
LEMMA ReplyType ==
    ASSUME SessionTypeOK, NEW msgs, Len(msgs) \in Nat, Reply(msgs)
    PROVE  next_seq' \in Seqs
BY SessionAssumption DEF Reply, Seqs, SessionTypeOK
-----------------------------------------------------------------------------
(* What a handler does to the store is one operation of the store.          *)
LEMMA MrRegUsesStore ==
    ASSUME Msg \in Requests, Msg.op = "MrReg", HandleMrReg
    PROVE  [StoreNext]_storeVars
<1>1. \/ UNCHANGED storeVars
      \/ \E rkey \in DrawnRkeys :
            Register(Msg.pd, Msg.access_flags, Msg.region_len, rkey)
    BY Zenon DEF HandleMrReg, RegisterPanics
<1> QED
    BY RequestFields, <1>1 DEF StoreNext

(* MR_DEREG calls deregister.                                               *)
LEMMA MrDeregUsesStore ==
    ASSUME Msg \in Requests, Msg.op = "MrDereg", HandleMrDereg
    PROVE  [StoreNext]_storeVars
BY RequestFields DEF HandleMrDereg, StoreNext

(* WRITE_DATA calls write_region with the key of the WRITE before it.       *)
LEMMA WriteDataUsesStore ==
    ASSUME SessionTypeOK, Msg \in Requests, Msg.op = "WriteData", HandleWriteData
    PROVE  [StoreNext]_storeVars
BY RequestFields DEF HandleWriteData, SessionTypeOK, PendingOps, NoOp, Discarding, StoreNext

(* ATOMIC_REQ of a known type calls atomic_op.                              *)
LEMMA AtomicUsesStore ==
    ASSUME Msg \in Requests, Msg.op = "AtomicReq", HandleAtomicReq
    PROVE  [StoreNext]_storeVars
BY RequestFields DEF StoreNext, HandleAtomicReq

(* Every step of the session is a step of its store, or none.               *)
LEMMA StepUsesStore ==
    ASSUME SessionTypeOK, [SessionNext]_vars
    PROVE  [StoreNext]_storeVars
<1>1. CASE HandleReady
    BY <1>1, IncomingType, MrRegUsesStore, MrDeregUsesStore, WriteDataUsesStore,
       AtomicUsesStore DEF HandleReady, HandleSend, HandleSendData, HandleWrite,
       HandleReadReq, HandleDisconnect, Ignore, HandleOther, Dispatch
<1>2. CASE HandleConnect \/ RefusePayload \/ RefuseSequence
    BY <1>2 DEF HandleConnect, RefusePayload, RefuseSequence
<1>3. CASE ConnectionLost \/ PeerReceives \/ \E frame \in Frames : PeerSends(frame)
    BY <1>3 DEF ConnectionLost, PeerReceives, PeerSends
<1>4. CASE UNCHANGED vars
    BY <1>4 DEF vars
<1> QED
    BY <1>1, <1>2, <1>3, <1>4 DEF SessionNext, ServerStep
-----------------------------------------------------------------------------
(* The part of the type invariant a handler is answerable for.              *)
HandlerTypeOK ==
    /\ state \in {"AwaitingConnect", "Ready", "Closed"}
    /\ max_msg_size \in 0 .. DefaultMaxMsgSize
    /\ next_seq \in Seqs
    /\ pending_op \in PendingOps
    /\ recv_queue_depth \in 0 .. RecvQueueDepth
    /\ sends_since_last_credit \in Nat
    /\ sends_since_last_credit > 0 => ~CreditDue(sends_since_last_credit)
    /\ mr_reg_count \in 0 .. MrRegRateLimit

(* One reply, two replies and none keep next_seq in its space.              *)
LEMMA RepliesType ==
    ASSUME SessionTypeOK, NEW m1, NEW m2,
           Silent \/ Reply(<<m1>>) \/ Reply(<<m1, m2>>)
    PROVE  next_seq' \in Seqs
BY ReplyType DEF Silent, SessionTypeOK

(* MR_REG counts up to the limit and not beyond.                            *)
LEMMA MrRegType ==
    ASSUME SessionTypeOK, HandleMrReg
    PROVE  HandlerTypeOK'
<1>1. next_seq' \in Seqs
    <2>1. Silent \/ \E m : Reply(<<m>>)
        BY ZenonT(30) DEF HandleMrReg
    <2> QED
        BY Zenon, <2>1, RepliesType
<1> QED
    BY <1>1, SessionAssumption DEF HandlerTypeOK, SessionTypeOK, CreditDue, HandleMrReg

(* SEND takes a receive only while there is one.                            *)
LEMMA SendType ==
    ASSUME SessionTypeOK, Msg.wrid \in Wrids, HandleSend
    PROVE  HandlerTypeOK'
<1>1. next_seq' \in Seqs
    <2>1. Silent \/ \E m : Reply(<<m>>)
        BY SMTT(30) DEF HandleSend
    <2> QED
        BY Zenon, <2>1, RepliesType
<1> QED
    BY <1>1, SessionAssumption DEF HandlerTypeOK, SessionTypeOK, CreditDue, HandleSend,
       PendingOps, AwaitingSendData

(* SEND_DATA grants the credits it holds back as soon as they are due.      *)
LEMMA SendDataType ==
    ASSUME SessionTypeOK, HandleSendData
    PROVE  HandlerTypeOK'
<1>1. next_seq' \in Seqs
    <2>1. Silent \/ (\E m : Reply(<<m>>)) \/ (\E m1, m2 : Reply(<<m1, m2>>))
        BY Zenon DEF HandleSendData, CompleteSend
    <2> QED
        BY Zenon, <2>1, RepliesType
<1>2. /\ sends_since_last_credit' \in Nat
      /\ sends_since_last_credit' > 0 => ~CreditDue(sends_since_last_credit')
    <2>1. CASE UNCHANGED sends_since_last_credit
        BY <2>1 DEF SessionTypeOK
    <2>2. CASE /\ sends_since_last_credit' = sends_since_last_credit + 1
               /\ ~CreditDue(sends_since_last_credit + 1)
        BY <2>2 DEF SessionTypeOK
    <2> QED
        BY <2>1, <2>2 DEF HandleSendData, CompleteSend
<1> QED
    BY <1>1, <1>2 DEF HandlerTypeOK, SessionTypeOK, CreditDue, HandleSendData, PendingOps

(* WRITE and WRITE_DATA set and take the pending operation.                 *)
LEMMA WriteType ==
    ASSUME SessionTypeOK,
           \/ /\ HandleWrite
              /\ Msg.wrid \in Wrids /\ Msg.rkey \in RKeys /\ Msg.remote_va \in Offsets
           \/ HandleWriteData
    PROVE  HandlerTypeOK'
<1>1. next_seq' \in Seqs
    <2>1. Silent \/ \E m : Reply(<<m>>)
        BY ZenonT(30) DEF HandleWrite, HandleWriteData
    <2> QED
        BY Zenon, <2>1, RepliesType
<1>2. pending_op' \in PendingOps
    BY DEF HandleWrite, HandleWriteData, PendingOps, AwaitingWriteData, SessionTypeOK
<1>3. UNCHANGED <<state, max_msg_size, recv_queue_depth, sends_since_last_credit,
                  mr_reg_count>>
    BY DEF HandleWrite, HandleWriteData
<1> QED
    BY <1>1, <1>2, <1>3 DEF HandlerTypeOK, SessionTypeOK, CreditDue

(* The handlers that touch nothing but the store and the replies.           *)
LEMMA OtherType ==
    ASSUME SessionTypeOK,
           \/ HandleMrDereg \/ HandleReadReq \/ HandleAtomicReq
           \/ HandleDisconnect \/ Ignore \/ HandleOther
    PROVE  HandlerTypeOK'
<1>1. next_seq' \in Seqs
    <2>1. Silent \/ \E m : Reply(<<m>>)
        BY ZenonT(30) DEF HandleMrDereg, HandleReadReq, HandleAtomicReq, HandleDisconnect,
           Ignore, HandleOther
    <2> QED
        BY Zenon, <2>1, RepliesType
<1> QED
    BY <1>1 DEF HandlerTypeOK, SessionTypeOK, CreditDue, HandleDisconnect, Ignore,
       HandleOther, HandleMrDereg, HandleReadReq, HandleAtomicReq

(* CONNECT settles the message size and the first sequence number.          *)
LEMMA ConnectType ==
    ASSUME SessionTypeOK, HandleConnect
    PROVE  SessionTypeOK'
<1>1. Msg \in Requests /\ Incoming.seq \in Seqs /\ c2s' \in Seq(Frames)
    BY IncomingType DEF HandleConnect
<1>2. next_seq' \in Seqs
    <2>1. Silent \/ \E m : Reply(<<m>>)
        BY Zenon DEF HandleConnect
    <2> QED
        BY Zenon, <2>1, RepliesType
<1>3. max_msg_size' \in 0 .. DefaultMaxMsgSize
    <2>1. Msg.op = "Connect" => Msg.max_msg_size \in Nat
        BY ZenonT(30), <1>1, RequestFields, SessionAssumption
    <2> QED
        BY <2>1, SessionAssumption DEF HandleConnect, SessionTypeOK
<1> QED
    BY <1>1, <1>2, <1>3, SuccType DEF SessionTypeOK, CreditDue, HandleConnect

(* Every step keeps the types.                                              *)
LEMMA StepKeepsType ==
    ASSUME SessionTypeOK, [SessionNext]_vars
    PROVE  SessionTypeOK'
<1>1. CASE HandleReady
    <2>1. Msg \in Requests /\ Incoming.seq \in Seqs /\ c2s' \in Seq(Frames)
        BY <1>1, IncomingType DEF HandleReady
    <2>2. HandlerTypeOK'
        <3>1. Dispatch
            BY <1>1 DEF HandleReady
        <3>2. CASE Msg.op = "MrReg" /\ HandleMrReg
            BY <3>2, MrRegType
        <3>3. CASE Msg.op = "Send" /\ HandleSend
            BY <2>1, <3>3, RequestFields, SendType
        <3>4. CASE Msg.op = "SendData" /\ HandleSendData
            BY <3>4, SendDataType
        <3>5. CASE Msg.op = "Write" /\ HandleWrite
            BY <2>1, <3>5, RequestFields, WriteType
        <3>6. CASE Msg.op = "WriteData" /\ HandleWriteData
            BY <3>6, WriteType
        <3>7. CASE \/ HandleMrDereg \/ HandleReadReq \/ HandleAtomicReq
                   \/ HandleDisconnect \/ Ignore \/ HandleOther
            BY <3>7, OtherType
        <3> QED
            BY <3>1, <3>2, <3>3, <3>4, <3>5, <3>6, <3>7 DEF Dispatch
    <2> QED
        BY <2>1, <1>1, SuccType, <2>2 DEF SessionTypeOK, HandlerTypeOK, HandleReady
<1>2. CASE HandleConnect
    BY <1>2, ConnectType
<1>3. CASE RefusePayload \/ RefuseSequence
    <2>1. \E m : Reply(<<m>>)
        BY Zenon, <1>3 DEF RefusePayload, RefuseSequence
    <2>2. next_seq' \in Seqs
        BY ZenonT(30), <2>1, RepliesType
    <2> QED
        BY <1>3, IncomingType, <2>2 DEF SessionTypeOK, CreditDue, RefusePayload,
           RefuseSequence
<1>4. CASE ConnectionLost
    BY <1>4 DEF ConnectionLost, SessionTypeOK, CreditDue
<1>5. CASE PeerReceives
    BY <1>5 DEF PeerReceives, sessionVars, SessionTypeOK, CreditDue
<1>6. ASSUME NEW frame \in Frames, PeerSends(frame)
      PROVE  SessionTypeOK'
    BY <1>6 DEF PeerSends, sessionVars, SessionTypeOK, CreditDue
<1>7. CASE UNCHANGED vars
    BY <1>7 DEF vars, sessionVars, channels, SessionTypeOK, CreditDue
<1> QED
    BY <1>1, <1>2, <1>3, <1>4, <1>5, <1>6, <1>7 DEF SessionNext, ServerStep
-----------------------------------------------------------------------------
(* The session keeps its types; in particular recv_queue_depth, a u32, is   *)
(* never taken below zero, and the credits held back stay below a quarter   *)
(* of ICC.                                                                  *)
THEOREM SessionTypeCorrect == SessionSpec => []SessionTypeOK
<1>1. ASSUME SessionInit
      PROVE  SessionTypeOK
    BY SessionAssumption, <1>1 DEF Seqs, PendingOps, SessionInit, SessionTypeOK
<1> QED
    BY PTL, <1>1, StepKeepsType DEF SessionSpec

(* The session implements the specification of its store: whatever a peer   *)
(* sends, every step is one operation of memory_store.rs or leaves the      *)
(* store alone.                                                             *)
THEOREM SessionImplementsStore == SessionSpec => StoreUsedAsSpecified
<1>1. SessionInit => StoreInit
    BY DEF SessionInit
<1>2. SessionTypeOK /\ [SessionNext]_vars => [StoreNext]_storeVars
    BY StepUsesStore
<1> QED
    BY PTL, <1>1, <1>2, SessionTypeCorrect DEF SessionSpec, StoreUsedAsSpecified, StoreSpec

(* So what is proved of the store holds in every session: keys and regions  *)
(* correspond, the accounting is exact, and no R_Key is handed out twice.   *)
THEOREM SessionKeepsStoreInvariants ==
    SessionSpec => /\ [](KeysAgree /\ AccountingExact /\ ReadOnlyStaysZero)
                   /\ RkeysNeverReused
BY PTL, SessionImplementsStore, KeysAlwaysAgree, AccountingAlwaysExact, ReadOnlyAlwaysZero,
   NoRkeyReuse DEF StoreUsedAsSpecified
-----------------------------------------------------------------------------
(***************************************************************************)
(* What the answers of a session say about its memory, for every value of  *)
(* the constants and any peer: an ERROR means that nothing but the pending *)
(* operation changed, a WRITE_COMP that the data is in place, and no       *)
(* memory changes without an answer.  Each is shown handler by handler.    *)
(***************************************************************************)

(* s2c is a sequence, whatever it holds.                                    *)
RepliesSeq == \E S : s2c \in Seq(S)

ErrorStep == SomeError => Spared

WriteCompStep == (\E m \in Sent : m.op = "WriteComp") => WriteDone

MemoryStep ==
    \A l \in DOMAIN regions \cap DOMAIN regions' :
        regions'[l].data # regions[l].data =>
            \/ /\ \E m \in Sent : m.op = "WriteComp"
               /\ regions[l].rkey = pending_op.rkey
            \/ /\ \E m \in Sent : m.op = "AtomicResp"
               /\ regions[l].rkey = Msg.rkey

AnswersHold == ErrorStep /\ WriteCompStep /\ MemoryStep
-----------------------------------------------------------------------------
(* A step that adds no reply sends nothing.                                 *)
LEMMA NothingSent ==
    ASSUME Len(s2c) \in Nat, Len(s2c') \in Nat, Len(s2c') <= Len(s2c)
    PROVE  Sent = {}
BY DEF Sent

(* Silent sends nothing.                                                    *)
LEMMA SilentSends ==
    ASSUME RepliesSeq, UNCHANGED s2c
    PROVE  Sent = {} /\ RepliesSeq'
<1>1. PICK S : s2c \in Seq(S)
    BY DEF RepliesSeq
<1> QED
    BY NothingSent DEF RepliesSeq

(* A reply of one message sends that message.                               *)
LEMMA OneSent ==
    ASSUME RepliesSeq, NEW m, Reply(<<m>>)
    PROVE  Sent = {m} /\ RepliesSeq'
<1>1. PICK S : s2c \in Seq(S)
    BY DEF RepliesSeq
<1> DEFINE r == [seq |-> (next_seq + 1 - 1) % SeqSpace, msg |-> m]
           T == S \cup {r}
<1>2. s2c' = s2c \o <<r>>
    BY DEF Reply
<1> HIDE DEF r
<1>3. /\ s2c' \in Seq(T) /\ Len(s2c') = Len(s2c) + 1
      /\ s2c'[Len(s2c) + 1] = r /\ Len(s2c) \in Nat
    BY <1>2, <1>1
<1> QED
    BY <1>3 DEF RepliesSeq, Sent, r

(* A completion with credits sends both.                                    *)
LEMMA TwoSent ==
    ASSUME RepliesSeq, NEW m, NEW n, Reply(<<m, n>>)
    PROVE  Sent = {m, n} /\ RepliesSeq'
<1>1. PICK S : s2c \in Seq(S)
    BY DEF RepliesSeq
<1> DEFINE r == [seq |-> (next_seq + 1 - 1) % SeqSpace, msg |-> m]
           q == [seq |-> (next_seq + 2 - 1) % SeqSpace, msg |-> n]
           T == S \cup {r, q}
<1>2. s2c' = s2c \o <<r, q>>
    <2>1. [i \in 1 .. Len(<<m, n>>) |->
              [seq |-> (next_seq + i - 1) % SeqSpace, msg |-> <<m, n>>[i]]] = <<r, q>>
        OBVIOUS
    <2> QED
        BY Zenon, <2>1 DEF Reply
<1> HIDE DEF r, q
<1>3. /\ s2c' \in Seq(T) /\ Len(s2c') = Len(s2c) + 2
      /\ s2c'[Len(s2c) + 1] = r /\ s2c'[Len(s2c) + 2] = q /\ Len(s2c) \in Nat
    BY <1>2, <1>1
<1>4. r.msg = m /\ q.msg = n
    BY DEF r, q
<1>5. Sent = {m, n}
    BY <1>3, <1>4 DEF Sent
<1> QED
    BY <1>3, <1>5 DEF RepliesSeq
-----------------------------------------------------------------------------
(* A step that leaves memory alone and sends neither ERROR nor WRITE_COMP   *)
(* has nothing to answer for.                                               *)
LEMMA QuietStep ==
    ASSUME UNCHANGED regions, \A m \in Sent : m.op \notin {"Error", "WriteComp"}
    PROVE  AnswersHold
BY DEF AnswersHold, ErrorStep, SomeError, WriteCompStep, MemoryStep

(* Nor has one that sends an ERROR and changes what it may.                 *)
LEMMA ErrorOnly ==
    ASSUME Spared, \A m \in Sent : m.op # "WriteComp"
    PROVE  AnswersHold
BY DEF Spared, storeVars, AnswersHold, ErrorStep, WriteCompStep, MemoryStep

(* MR_REG adds a region under a new L_Key and touches no other.             *)
LEMMA MrRegAnswers ==
    ASSUME RepliesSeq, StoreTypeOK, KeysAgree, Msg \in Requests, Msg.op = "MrReg",
           HandleMrReg
    PROVE  AnswersHold /\ RepliesSeq'
<1>1. /\ RepliesSeq'
      /\ \A m \in Sent : m.op = "MrRegAck"
    <2>1. Silent \/ \E l, k, st :
             Reply(<<[op |-> "MrRegAck", lkey |-> l, rkey |-> k, status |-> st]>>)
        BY ZenonT(30) DEF HandleMrReg
    <2>2. CASE Silent
        BY <2>2, SilentSends DEF Silent
    <2>3. ASSUME NEW l, NEW k, NEW st,
                 Reply(<<[op |-> "MrRegAck", lkey |-> l, rkey |-> k, status |-> st]>>)
          PROVE  RepliesSeq' /\ \A m \in Sent : m.op = "MrRegAck"
        BY <2>3, OneSent
    <2> QED
        BY Zenon, <2>1, <2>2, <2>3
<1>2. \A l \in DOMAIN regions \cap DOMAIN regions' : regions'[l] = regions[l]
    <2>1. \/ UNCHANGED regions
          \/ \E rkey \in DrawnRkeys :
                Register(Msg.pd, Msg.access_flags, Msg.region_len, rkey)
        BY Zenon DEF HandleMrReg, RegisterPanics, storeVars
    <2>2. \/ UNCHANGED regions
          \/ \E e : regions' = With(regions, next_lkey, e)
        BY Zenon, <2>1 DEF Register, storeVars
    <2> QED
        BY <2>2 DEF With, KeysAgree, StoreTypeOK
<1> QED
    BY <1>1, <1>2 DEF AnswersHold, ErrorStep, SomeError, WriteCompStep, MemoryStep

(* MR_DEREG drops a region and touches no other.                            *)
LEMMA MrDeregAnswers ==
    ASSUME RepliesSeq, HandleMrDereg
    PROVE  AnswersHold /\ RepliesSeq'
<1> DEFINE a == [op |-> "MrDeregAck", status |-> DeregisterStatus(Msg.pd, Msg.lkey)]
<1> HIDE DEF a
<1> QED
    BY OneSent DEF AnswersHold, ErrorStep, SomeError, WriteCompStep, MemoryStep,
       HandleMrDereg, Deregister, storeVars, Without

(* An ERROR is an error, and its step has to change no more than it may.    *)
LEMMA ErrorAnswers ==
    ASSUME RepliesSeq, NEW code, NEW seq, Reply(<<ErrorMsg(code, seq)>>), Spared
    PROVE  AnswersHold /\ RepliesSeq'
BY OneSent, ErrorOnly DEF ErrorMsg

(* A handler that says nothing may change all but memory.                   *)
LEMMA SilentAnswers ==
    ASSUME RepliesSeq, Silent, UNCHANGED storeVars
    PROVE  AnswersHold /\ RepliesSeq'
BY SilentSends, QuietStep DEF Silent, storeVars

(* SEND consumes a receive in silence or is refused.                        *)
LEMMA SendAnswers ==
    ASSUME RepliesSeq, Msg.op = "Send", HandleSend
    PROVE  AnswersHold /\ RepliesSeq'
BY SilentAnswers, ErrorAnswers DEF HandleSend, Spared

(* SEND_DATA counts a completed send, discards data or is refused.          *)
LEMMA SendDataAnswers ==
    ASSUME RepliesSeq, Msg.op = "SendData", HandleSendData
    PROVE  AnswersHold /\ RepliesSeq'
<1>1. /\ UNCHANGED <<storeVars, recv_queue_depth>> /\ UNCHANGED regions
      /\ UNCHANGED <<state, max_msg_size, mr_reg_count>> /\ pending_op' = NoOp
    BY DEF HandleSendData, storeVars
<1>2. CASE Silent
    BY <1>1, <1>2, SilentAnswers
<1>3. CASE /\ Reply(<<ErrorMsg("ErrUnknownOpcode", 0)>>)
           /\ UNCHANGED sends_since_last_credit
    BY <1>1, <1>3, ErrorAnswers DEF Spared
<1>4. CASE pending_op.kind = "AwaitingSendData" /\ CompleteSend(pending_op.wrid)
    <2> DEFINE comp == [op |-> "RecvComp", wrid |-> pending_op.wrid]
               credit(n) == [op |-> "CreditUpdate", credit_increment |-> n]
    <2>1. Reply(<<comp>>) \/ \E n : Reply(<<comp, credit(n)>>)
        BY Zenon, <1>4 DEF CompleteSend
    <2>2. comp.op = "RecvComp" /\ \A n : credit(n).op = "CreditUpdate"
        OBVIOUS
    <2> HIDE DEF comp, credit
    <2>3. RepliesSeq' /\ (Sent = {comp} \/ \E n : Sent = {comp, credit(n)})
        BY Zenon, <2>1, OneSent, TwoSent
    <2> QED
        BY <1>1, <2>3, <2>2, QuietStep
<1> QED
    BY <1>2, <1>3, <1>4 DEF HandleSendData
-----------------------------------------------------------------------------
(* WRITE_DATA that is acknowledged is in place.                             *)
LEMMA WriteDataAnswers ==
    ASSUME RepliesSeq, StoreTypeOK, KeysAgree, SessionTypeOK, Msg \in Requests,
           Msg.op = "WriteData", HandleWriteData
    PROVE  AnswersHold /\ RepliesSeq'
<1> DEFINE k == pending_op.rkey
           va == pending_op.remote_va
           status == WriteStatus(k, va, Msg.data)
           comp == [op |-> "WriteComp", wrid |-> pending_op.wrid]
<1>1. CASE pending_op.kind # "AwaitingWriteData"
    BY <1>1, ErrorAnswers DEF HandleWriteData, Spared
<1>2. CASE pending_op.kind = "AwaitingWriteData" /\ status # "Ok"
    BY <1>2, ErrorAnswers DEF HandleWriteData, WriteRegion, Spared
<1>3. CASE pending_op.kind = "AwaitingWriteData" /\ status = "Ok"
    <2>1. Reply(<<comp>>) /\ Store(k, va, Msg.data)
        BY <1>3 DEF HandleWriteData, WriteRegion
    <2>2. comp.op = "WriteComp"
        OBVIOUS
    <2>3. va \in Nat /\ Msg.data \in Seq(Cell)
        <3>1. va \in Offsets
            BY <1>3 DEF SessionTypeOK, PendingOps, NoOp, Discarding
        <3>2. Msg.data \in Payloads
            BY RequestFields
        <3> QED
            BY Zenon, <3>1, <3>2, StoreAssumption
    <2>4. /\ k \in DOMAIN rkey_to_lkey /\ rkey_to_lkey[k] \in DOMAIN regions
          /\ "REMOTE_WRITE" \in Target(k).access_flags
        BY <1>3 DEF WriteStatus, BoundsStatus, ValidateRkey
    <2>5. Target(k).data \in Seq(Cell)
        BY <2>4 DEF StoreTypeOK, MemoryRegionEntry, Target
    <2>6. va + Len(Msg.data) <= Len(Target(k).data)
        BY <1>3, <2>3 DEF WriteStatus, BoundsStatus, ValidateRkey
    <2> HIDE DEF k, va, status, comp
    <2>7. /\ regions'[rkey_to_lkey[k]].data = Splice(Target(k).data, va, Msg.data)
          /\ \A l \in DOMAIN regions :
                regions'[l].data # regions[l].data => regions[l].rkey = k
        BY Zenon, <2>1, <2>3, <2>4, StoreChanges
    <2>8. /\ rkey_to_lkey' = rkey_to_lkey
          /\ regions'[rkey_to_lkey[k]].access_flags = Target(k).access_flags
          /\ Len(regions'[rkey_to_lkey[k]].data) = Len(Target(k).data)
        BY <2>1, <2>3, <2>4, StoreEffect DEF Target
    <2>9. SubSeq(regions'[rkey_to_lkey[k]].data, va + 1, va + Len(Msg.data)) = Msg.data
        BY Zenon, <2>3, <2>5, <2>6, <2>7, SpliceReads
    <2>10. WriteDone
        BY <1>3, <2>4, <2>6, <2>8, <2>9 DEF WriteDone, k, va
    <2> QED
        BY <2>1, OneSent, <2>10, <2>2, <2>7 DEF AnswersHold, WriteCompStep, ErrorStep,
           SomeError, MemoryStep, k
<1> QED
    BY <1>1, <1>2, <1>3

(* WRITE is noted in silence or refused.                                    *)
LEMMA WriteAnswers ==
    ASSUME RepliesSeq, HandleWrite
    PROVE  AnswersHold /\ RepliesSeq'
<1>1. UNCHANGED storeVars
    BY DEF HandleWrite
<1>2. Silent \/ (Spared /\ \E code : Reply(<<ErrorMsg(code, Incoming.seq)>>))
    BY DEF HandleWrite, Spared
<1> QED
    BY Zenon, <1>1, <1>2, SilentAnswers, ErrorAnswers

(* READ_REQ changes nothing.                                                *)
LEMMA ReadAnswers ==
    ASSUME RepliesSeq, HandleReadReq
    PROVE  AnswersHold /\ RepliesSeq'
<1> DEFINE resp(w, d) == [op |-> "ReadResp", wrid |-> w, data |-> d]
<1>1. Spared
    BY DEF HandleReadReq, Spared
<1>2. \/ \E w, d : Reply(<<resp(w, d)>>)
      \/ \E code : Reply(<<ErrorMsg(code, Incoming.seq)>>)
    BY ZenonT(30) DEF HandleReadReq
<1>3. ASSUME NEW w, NEW d, Reply(<<resp(w, d)>>)
      PROVE  AnswersHold /\ RepliesSeq'
    BY <1>3, OneSent, <1>1, ErrorOnly
<1> HIDE DEF resp
<1> QED
    BY Zenon, <1>1, <1>2, <1>3, ErrorAnswers

(* ATOMIC_REQ that is answered with the old value changed the word, in the  *)
(* region it named.                                                         *)
LEMMA AtomicAnswers ==
    ASSUME RepliesSeq, StoreTypeOK, KeysAgree, Msg \in Requests,
           Msg.op = "AtomicReq", HandleAtomicReq
    PROVE  AnswersHold /\ RepliesSeq'
<1> DEFINE status == AtomicStatus(Msg.rkey, Msg.remote_va)
           resp == [op |-> "AtomicResp", wrid |-> Msg.wrid,
                    original |-> Original(Msg.rkey, Msg.remote_va)]
<1>1. CASE /\ UNCHANGED storeVars
           /\ \E code : Reply(<<ErrorMsg(code, Incoming.seq)>>)
    BY <1>1, ErrorAnswers DEF HandleAtomicReq, Spared
<1>2. CASE /\ status = "Ok" /\ Msg.atomic_type \in {"CAS", "FAA"}
           /\ AtomicOp(Msg.rkey, Msg.remote_va, Msg.atomic_type, Msg.operand1,
                       Msg.operand2)
           /\ Reply(<<resp>>)
    <2>1. resp.op = "AtomicResp"
        OBVIOUS
    <2>2. /\ Msg.remote_va \in Nat /\ Msg.operand1 \in 0 .. WordMod - 1
          /\ Msg.operand2 \in 0 .. WordMod - 1
        BY Zenon, RequestFields, StoreAssumption
    <2> HIDE DEF resp, status
    <2>3. \/ UNCHANGED storeVars
          \/ /\ Msg.rkey \in DOMAIN rkey_to_lkey
             /\ \E w \in Seq(Cell) : Store(Msg.rkey, Msg.remote_va, w)
        BY Zenon, <1>2, <2>2, AtomicStores
    <2> QED
        BY <1>2, OneSent, <2>1, <2>2, StoreChanges, <2>3 DEF AnswersHold, ErrorStep,
           SomeError, WriteCompStep, MemoryStep, storeVars
<1> QED
    BY <1>1, <1>2 DEF HandleAtomicReq, AtomicOp
-----------------------------------------------------------------------------
(* The steps that are not handlers of a connected session.                  *)
LEMMA OutsideAnswers ==
    ASSUME RepliesSeq,
           \/ HandleConnect \/ RefusePayload \/ RefuseSequence
           \/ ConnectionLost \/ PeerReceives
           \/ \E frame \in Frames : PeerSends(frame)
           \/ UNCHANGED vars
    PROVE  AnswersHold /\ RepliesSeq'
<1>1. PICK S : s2c \in Seq(S)
    BY DEF RepliesSeq
<1>2. CASE HandleConnect
    <2> DEFINE ack(n) == [op |-> "ConnectAck", max_msg_size |-> n, icc |-> ICC]
    <2>1. UNCHANGED storeVars /\ UNCHANGED regions
        BY <1>2 DEF HandleConnect, storeVars
    <2>2. Silent \/ \E n : Reply(<<ack(n)>>)
        BY Zenon, <1>2 DEF HandleConnect
    <2>3. ASSUME NEW n, Reply(<<ack(n)>>)
          PROVE  AnswersHold /\ RepliesSeq'
        BY <2>1, <2>3, OneSent, QuietStep
    <2> HIDE DEF ack
    <2> QED
        BY Zenon, <2>1, <2>2, <2>3, SilentAnswers
<1>3. CASE RefusePayload \/ RefuseSequence
    <2>1. Spared
        BY <1>3 DEF RefusePayload, RefuseSequence, Spared
    <2>2. \E code : Reply(<<ErrorMsg(code, Incoming.seq)>>)
        BY <1>3 DEF RefusePayload, RefuseSequence
    <2> QED
        BY Zenon, <2>1, <2>2, ErrorAnswers
<1>4. CASE ConnectionLost \/ PeerReceives
    <2>1. s2c' \in Seq(S) /\ Len(s2c') <= Len(s2c)
        <3>1. CASE ConnectionLost
            <4>1. PICK n \in 0 .. Len(s2c) : s2c' = SubSeq(s2c, 1, n)
                BY <3>1 DEF ConnectionLost
            <4> QED
                BY <1>1, <4>1
        <3>2. CASE PeerReceives
            BY <1>1, <3>2 DEF PeerReceives
        <3> QED
            BY <1>4, <3>1, <3>2
    <2> QED
        BY <1>4, <2>1, NothingSent, QuietStep DEF RepliesSeq, ConnectionLost, PeerReceives,
           storeVars
<1>5. CASE (\E frame \in Frames : PeerSends(frame)) \/ UNCHANGED vars
    BY <1>5, SilentSends, QuietStep DEF PeerSends, vars, channels, storeVars
<1> QED
    BY <1>2, <1>3, <1>4, <1>5

(* Every step of the session.                                               *)
LEMMA StepAnswers ==
    ASSUME RepliesSeq, StoreTypeOK, KeysAgree, SessionTypeOK, [SessionNext]_vars
    PROVE  AnswersHold /\ RepliesSeq'
<1>1. CASE HandleReady
    <2>1. Msg \in Requests
        BY <1>1, IncomingType DEF HandleReady
    <2>2. Dispatch
        BY <1>1 DEF HandleReady
    <2>3. CASE Msg.op = "MrReg" /\ HandleMrReg
        BY <2>1, <2>3, MrRegAnswers
    <2>4. CASE Msg.op = "WriteData" /\ HandleWriteData
        BY <2>1, <2>4, WriteDataAnswers
    <2>5. CASE Msg.op = "AtomicReq" /\ HandleAtomicReq
        BY <2>1, <2>5, AtomicAnswers
    <2>6. CASE \/ Msg.op = "Send" /\ HandleSend
               \/ Msg.op = "SendData" /\ HandleSendData
        BY <2>6, SendAnswers, SendDataAnswers
    <2>7. CASE HandleMrDereg \/ HandleWrite \/ HandleReadReq
        BY <2>7, MrDeregAnswers, WriteAnswers, ReadAnswers
    <2>8. CASE HandleDisconnect \/ Ignore
        BY <2>8, SilentAnswers DEF HandleDisconnect, Ignore
    <2>9. CASE HandleOther
        BY <2>9, ErrorAnswers DEF HandleOther, Spared
    <2> QED
        BY <2>2, <2>3, <2>4, <2>5, <2>6, <2>7, <2>8, <2>9 DEF Dispatch
<1> QED
    BY <1>1, OutsideAnswers DEF SessionNext, ServerStep
-----------------------------------------------------------------------------
(* The invariants the three properties rest on.                             *)
AnswerInv == RepliesSeq /\ StoreTypeOK /\ KeysAgree /\ SessionTypeOK

(* They hold in every session.                                              *)
LEMMA AnswerInvariant == SessionSpec => []AnswerInv
<1>1. SessionInit => RepliesSeq
    BY DEF SessionInit, RepliesSeq
<1>2. SessionSpec => [](StoreTypeOK /\ KeysAgree /\ SessionTypeOK)
    BY PTL, SessionImplementsStore, StoreTypeCorrect, KeysAlwaysAgree, SessionTypeCorrect DEF
       StoreUsedAsSpecified
<1>3. ASSUME RepliesSeq, StoreTypeOK /\ KeysAgree /\ SessionTypeOK, [SessionNext]_vars
      PROVE  RepliesSeq'
    BY <1>3, StepAnswers
<1>4. SessionSpec => []RepliesSeq
    BY PTL, <1>1, <1>2, <1>3 DEF SessionSpec
<1>5. RepliesSeq /\ (StoreTypeOK /\ KeysAgree /\ SessionTypeOK) => AnswerInv
    BY DEF AnswerInv
<1> QED
    BY PTL, <1>2, <1>4, <1>5

(* Whatever a peer sends, a message answered by ERROR left memory, keys,    *)
(* receives and credits as they were, and touched the pending operation     *)
(* only by taking or replacing it (the handlers of handler.rs and the       *)
(* checks of handle_message).                                               *)
THEOREM ErrorsOnlyChangePending == SessionSpec => ErrorsChangeOnlyPending
<1>1. AnswerInv /\ [SessionNext]_vars => [ErrorStep]_vars
    BY StepAnswers DEF AnswerInv, AnswersHold
<1> QED
    BY PTL, <1>1, AnswerInvariant DEF SessionSpec, ErrorsChangeOnlyPending, ErrorStep

(* WRITE_COMP is never sent for data that is not in a live, writable        *)
(* region, whatever came between WRITE and WRITE_DATA (handle_write_data).  *)
THEOREM WriteCompTruthful == SessionSpec => WriteCompMeansWritten
<1>1. AnswerInv /\ [SessionNext]_vars => [WriteCompStep]_vars
    BY StepAnswers DEF AnswerInv, AnswersHold
<1> QED
    BY PTL, <1>1, AnswerInvariant DEF SessionSpec, WriteCompMeansWritten, WriteCompStep

(* The contents of a region change only under an answer that says so, in    *)
(* the region the request named.                                            *)
THEOREM NoSilentMemoryChange == SessionSpec => MemoryChangesAreAnswered
<1>1. AnswerInv /\ [SessionNext]_vars => [MemoryStep]_vars
    BY StepAnswers DEF AnswerInv, AnswersHold
<1> QED
    BY PTL, <1>1, AnswerInvariant DEF SessionSpec, MemoryChangesAreAnswered, MemoryStep
=============================================================================
