--------------------------- MODULE PairingProofs ----------------------------
(***************************************************************************)
(* Answers and verbs stay paired, for every value of the constants.        *)
(***************************************************************************)
EXTENDS RdowsProofs

(* Answers and verbs stay paired.  The invariant lists, for each phase of   *)
(* the client, what may be under way in either direction and what the       *)
(* session is waiting for: as long as no frame has been answered out of     *)
(* turn a verb has at most one answer under way, and that answer is its own.*)

(* Frames under way to the server, by their opcodes.                        *)
Carry0(q) == q = <<>>
Carry1(q, a) == Len(q) = 1 /\ q[1].msg.op = a
Carry2(q, a, b) == Len(q) = 2 /\ q[1].msg.op = a /\ q[2].msg.op = b
Carry3(q, a, b, c) ==
    Len(q) = 3 /\ q[1].msg.op = a /\ q[2].msg.op = b /\ q[3].msg.op = c

(* The same, behind the data of a refused SEND if that is still to come.    *)
Left0 == \/ pending_op = NoOp /\ Carry0(c2s)
         \/ pending_op = Discarding /\ Carry1(c2s, "SendData")
Left1(a) == \/ pending_op = NoOp /\ Carry1(c2s, a)
            \/ pending_op = Discarding /\ Carry2(c2s, "SendData", a)
Left2(a, b) == \/ pending_op = NoOp /\ Carry2(c2s, a, b)
               \/ pending_op = Discarding /\ Carry3(c2s, "SendData", a, b)

Awaiting(kind) == pending_op.kind = kind

IsCredit(f) == f.msg.op = "CreditUpdate"
Unanswered == \A i \in 1 .. Len(s2c) : IsCredit(s2c[i])
AnsweredOnce ==
    \E j \in 1 .. Len(s2c) :
        /\ ~IsCredit(s2c[j])
        /\ \A i \in 1 .. Len(s2c) : i # j => IsCredit(s2c[i])

Singles == {"MrReg", "MrDereg", "ReadReq", "AtomicReq"}

AwaitingFrames ==
    /\ pending_op = NoOp /\ Carry0(s2c)
    /\ \/ phase = "start" /\ Carry0(c2s)
       \/ phase = "connecting" /\ Carry1(c2s, "Connect")

Connecting ==
    /\ phase = "connecting" /\ pending_op = NoOp /\ Carry0(c2s)
    /\ Carry1(s2c, "ConnectAck")

BetweenVerbs == phase = "idle" /\ Unanswered /\ Left0

SendHalf ==
    /\ phase = "data" /\ call.verb = "post_send"
    /\ \/ Unanswered /\ Left1("Send")
       \/ Unanswered /\ Awaiting("AwaitingSendData") /\ Carry0(c2s)
       \/ AnsweredOnce /\ pending_op = Discarding /\ Carry0(c2s)

WriteHalf ==
    /\ phase = "data" /\ call.verb = "rdma_write"
    /\ Unanswered
    /\ \/ Left1("Write")
       \/ Awaiting("AwaitingWriteData") /\ Carry0(c2s)

InVerb ==
    /\ phase = "recv"
    /\ \/ Unanswered /\ \E a \in Singles : Left1(a)
       \/ Unanswered /\ Left2("Send", "SendData")
       \/ Unanswered /\ Left2("Write", "WriteData")
       \/ Unanswered /\ Awaiting("AwaitingSendData") /\ Carry1(c2s, "SendData")
       \/ Unanswered /\ Awaiting("AwaitingWriteData") /\ Carry1(c2s, "WriteData")
       \/ AnsweredOnce /\ Left0

PairInv ==
    /\ state \in {"AwaitingConnect", "Ready", "Closed"}
    /\ state = "AwaitingConnect" => AwaitingFrames
    /\ state = "Ready" /\ in_step =>
          phase = "gone" \/ Connecting \/ BetweenVerbs \/ SendHalf \/ WriteHalf \/ InVerb
-----------------------------------------------------------------------------
(* Taking the first of a few frames, and adding one.                        *)
LEMMA TailCarries ==
    ASSUME NEW q, IsSeq(q), NEW a, NEW b, NEW c
    PROVE  /\ Carry1(q, a) => q # <<>> /\ Head(q).msg.op = a /\ Carry0(Tail(q))
           /\ Carry2(q, a, b) => q # <<>> /\ Head(q).msg.op = a /\ Carry1(Tail(q), b)
           /\ Carry3(q, a, b, c) =>
                 q # <<>> /\ Head(q).msg.op = a /\ Carry2(Tail(q), b, c)
<1>1. PICK S : q \in Seq(S)
    BY DEF IsSeq
<1>2. ASSUME q # <<>>
      PROVE  /\ Len(Tail(q)) = Len(q) - 1 /\ Head(q) = q[1] /\ Tail(q) \in Seq(S)
             /\ \A i \in 1 .. Len(q) - 1 : Tail(q)[i] = q[i + 1]
    BY <1>1, <1>2
<1>3. ASSUME Carry1(q, a)
      PROVE  q # <<>> /\ Head(q).msg.op = a /\ Carry0(Tail(q))
    <2>1. q # <<>> /\ Len(q) = 1
        BY <1>3 DEF Carry1
    <2>2. Len(Tail(q)) = 0 /\ Tail(q) \in Seq(S)
        BY <1>2, <2>1
    <2>3. Tail(q) = <<>>
        BY ZenonT(30), <2>2, NoneLeft
    <2> QED
        BY <1>3, <2>1, <2>3 DEF Carry0, Carry1
<1>4. ASSUME Carry2(q, a, b)
      PROVE  q # <<>> /\ Head(q).msg.op = a /\ Carry1(Tail(q), b)
    BY <1>4 DEF Carry2, Carry1
<1>5. ASSUME Carry3(q, a, b, c)
      PROVE  q # <<>> /\ Head(q).msg.op = a /\ Carry2(Tail(q), b, c)
    <2>1. q # <<>> /\ Len(q) = 3
        BY <1>5 DEF Carry3
    <2>2. Len(Tail(q)) = 2 /\ Tail(q)[1] = q[2] /\ Tail(q)[2] = q[3]
        BY <2>1
    <2> QED
        BY ZenonT(30), <1>2, <1>5, <2>1, <2>2 DEF Carry2, Carry3
<1> QED
    BY <1>3, <1>4, <1>5

(* A channel with one frame more carries one kind more.                     *)
LEMMA AppendCarries ==
    ASSUME NEW q, IsSeq(q), NEW f, NEW a, NEW b
    PROVE  /\ Carry0(q) => Carry1(Append(q, f), f.msg.op)
           /\ Carry1(q, a) => Carry2(Append(q, f), a, f.msg.op)
           /\ Carry2(q, a, b) => Carry3(Append(q, f), a, b, f.msg.op)
<1>1. PICK S : q \in Seq(S)
    BY DEF IsSeq
<1>2. /\ Len(Append(q, f)) = Len(q) + 1 /\ Len(q) \in Nat
      /\ Append(q, f)[Len(q) + 1] = f
      /\ \A i \in 1 .. Len(q) : Append(q, f)[i] = q[i]
    OBVIOUS
<1>3. ASSUME Carry0(q)
      PROVE  Carry1(Append(q, f), f.msg.op)
    BY <1>3 DEF Carry0, Carry1
<1>4. ASSUME Carry1(q, a)
      PROVE  Carry2(Append(q, f), a, f.msg.op)
    BY <1>2, <1>4 DEF Carry1, Carry2
<1>5. ASSUME Carry2(q, a, b)
      PROVE  Carry3(Append(q, f), a, b, f.msg.op)
    BY <1>2, <1>5 DEF Carry2, Carry3
<1> QED
    BY <1>3, <1>4, <1>5
-----------------------------------------------------------------------------
(* The channel to the client: an answer goes in, an answer is taken.        *)
LEMMA AnswerGiven ==
    ASSUME IsSeq(s2c), Unanswered, NEW m, m.op # "CreditUpdate",
           \/ Reply(<<m>>)
           \/ \E k : k.op = "CreditUpdate" /\ Reply(<<m, k>>)
    PROVE  /\ AnsweredOnce'
           /\ \A i \in 1 .. Len(s2c') : ~IsCredit(s2c'[i]) => s2c'[i].msg = m
<1> DEFINE Only == \A i \in 1 .. Len(s2c') : ~IsCredit(s2c'[i]) => s2c'[i].msg = m
<1>1. PICK S : s2c \in Seq(S)
    BY DEF IsSeq
<1>2. ASSUME NEW msgs, NEW n \in 1 .. 2, Len(msgs) = n, Reply(msgs), msgs[1] = m,
             n = 2 => msgs[2].op = "CreditUpdate"
      PROVE  AnsweredOnce' /\ Only
    <2> DEFINE new == [i \in 1 .. n |-> [seq |-> (next_seq + i - 1) % SeqSpace,
                                        msg |-> msgs[i]]]
               T == S \cup {new[i] : i \in 1 .. n}
    <2>1. new \in Seq(T) /\ Len(new) = n /\ \A i \in 1 .. n : new[i].msg = msgs[i]
        OBVIOUS
    <2>2. s2c' = s2c \o new
        BY <1>2 DEF Reply
    <2> HIDE DEF new, T
    <2>3. /\ Len(s2c') = Len(s2c) + n /\ Len(s2c) \in Nat
          /\ \A i \in 1 .. Len(s2c) : s2c'[i] = s2c[i]
          /\ s2c'[Len(s2c) + 1] = new[1]
          /\ n = 2 => s2c'[Len(s2c) + 2] = new[2]
        BY <2>1, <2>2
    <2>4. ASSUME NEW i \in 1 .. Len(s2c'), i # Len(s2c) + 1
          PROVE  IsCredit(s2c'[i])
        <3>1. CASE i \in 1 .. Len(s2c)
            BY <2>3, <3>1 DEF Unanswered
        <3>2. CASE n = 2 /\ i = Len(s2c) + 2
            BY <1>2, <2>1, <2>3, <3>2 DEF IsCredit
        <3> QED
            BY <2>3, <2>4, <3>1, <3>2
    <2> QED
        BY <2>4, <1>2, <2>1, <2>3 DEF AnsweredOnce, IsCredit
<1>3. CASE Reply(<<m>>)
    BY <1>2, <1>3
<1>4. ASSUME NEW k, k.op = "CreditUpdate", Reply(<<m, k>>)
      PROVE  AnsweredOnce' /\ Only
    BY <1>2, <1>4
<1> QED
    BY ZenonT(30), <1>3, <1>4

(* What is left to take after a frame that was a credit, and after one that *)
(* was not.                                                                 *)
LEMMA AnswerTaken ==
    ASSUME IsSeq(s2c), s2c # <<>>, s2c' = Tail(s2c)
    PROVE  /\ Unanswered => IsCredit(Head(s2c)) /\ Unanswered'
           /\ AnsweredOnce /\ IsCredit(Head(s2c)) => AnsweredOnce'
           /\ AnsweredOnce /\ ~IsCredit(Head(s2c)) => Unanswered'
<1>1. PICK S : s2c \in Seq(S)
    BY DEF IsSeq
<1>2. ASSUME AnsweredOnce
      PROVE  /\ IsCredit(Head(s2c)) => AnsweredOnce'
             /\ ~IsCredit(Head(s2c)) => Unanswered'
    <2>1. PICK j \in 1 .. Len(s2c) :
              /\ ~IsCredit(s2c[j])
              /\ \A i \in 1 .. Len(s2c) : i # j => IsCredit(s2c[i])
        BY <1>2 DEF AnsweredOnce
    <2>2. CASE j = 1
        BY <2>1, <2>2 DEF Unanswered
    <2>3. CASE j > 1
        BY <2>1, <2>3 DEF AnsweredOnce
    <2> QED
        BY <2>2, <2>3
<1> QED
    BY <1>2 DEF Unanswered
-----------------------------------------------------------------------------
(* What each kind of frame makes of the session.                            *)
LEMMA DiscardedData ==
    ASSUME Dispatch, Msg.op = "SendData", pending_op = Discarding
    PROVE  pending_op' = NoOp /\ UNCHANGED s2c /\ state' = state
BY DEF Dispatch, HandleSendData, Discarding, Silent

(* A request of one frame is answered once, or ends the session.            *)
LEMMA SingleAnswered ==
    ASSUME Dispatch, Msg.op \in Singles, IsSeq(s2c), Unanswered
    PROVE  \/ state' = "Closed"
           \/ state' = state /\ pending_op' = pending_op /\ AnsweredOnce'
<1>1. CASE HandleMrReg
    <2>1. pending_op' = pending_op
        BY <1>1 DEF HandleMrReg
    <2>2. \/ state' = "Closed"
          \/ state' = state /\ \E l, r, st :
                Reply(<<[op |-> "MrRegAck", lkey |-> l, rkey |-> r, status |-> st]>>)
        BY ZenonT(30), <1>1 DEF HandleMrReg
    <2>3. ASSUME NEW l, NEW r, NEW st,
                 Reply(<<[op |-> "MrRegAck", lkey |-> l, rkey |-> r, status |-> st]>>)
          PROVE  AnsweredOnce'
        BY <2>3, AnswerGiven
    <2> QED
        BY ZenonT(30), <2>1, <2>2, <2>3
<1>2. CASE HandleMrDereg
    BY SMTT(30), <1>2, AnswerGiven DEF HandleMrDereg
<1>3. CASE HandleReadReq
    BY SMTT(30), <1>3, AnswerGiven DEF HandleReadReq, ErrorMsg
<1>4. CASE HandleAtomicReq
    BY <1>4, AnswerGiven DEF HandleAtomicReq, ErrorMsg
<1> QED
    BY <1>1, <1>2, <1>3, <1>4 DEF Dispatch, Singles

(* A SEND is refused and its data awaited only to be discarded, or its data *)
(* is awaited.                                                              *)
LEMMA SendTaken ==
    ASSUME Dispatch, Msg.op = "Send", IsSeq(s2c), Unanswered
    PROVE  /\ state' = state
           /\ \/ pending_op' = Discarding /\ AnsweredOnce'
              \/ Awaiting("AwaitingSendData")' /\ Unanswered'
BY AnswerGiven DEF Dispatch, HandleSend, ErrorMsg, Silent, Unanswered, Awaiting,
   AwaitingSendData

(* The data of an accepted SEND is answered once.                           *)
LEMMA SendDataTaken ==
    ASSUME Dispatch, Msg.op = "SendData", IsSeq(s2c), Unanswered,
           Awaiting("AwaitingSendData")
    PROVE  state' = state /\ pending_op' = NoOp /\ AnsweredOnce'
<1>1. AnsweredOnce'
    <2> DEFINE m == [op |-> "RecvComp", wrid |-> pending_op.wrid]
    <2>1. m.op # "CreditUpdate"
        OBVIOUS
    <2>2. \/ Reply(<<m>>)
          \/ \E k : k.op = "CreditUpdate" /\ Reply(<<m, k>>)
        <3> DEFINE k == [op |-> "CreditUpdate",
                         credit_increment |-> sends_since_last_credit + 1]
        <3>1. k.op = "CreditUpdate"
            OBVIOUS
        <3>2. Reply(<<m>>) \/ Reply(<<m, k>>)
            BY DEF CompleteSend, HandleSendData, Awaiting, Dispatch
        <3> HIDE DEF k
        <3> QED
            BY ZenonT(30), <3>1, <3>2
    <2> HIDE DEF m
    <2> QED
        BY SMTT(30), <2>1, <2>2, AnswerGiven
<1> QED
    BY <1>1 DEF HandleSendData, Dispatch

(* An accepted WRITE is not answered; its data is awaited.                  *)
LEMMA WriteTaken ==
    ASSUME Dispatch, Msg.op = "Write", Unanswered, state = "Ready", ~OutOfTurn
    PROVE  state' = state /\ Awaiting("AwaitingWriteData")' /\ Unanswered'
BY DEF Dispatch, OutOfTurn, HandleWrite, Silent, Unanswered, Awaiting, AwaitingWriteData

(* The data of an accepted WRITE is answered once.                          *)
LEMMA WriteDataTaken ==
    ASSUME Dispatch, Msg.op = "WriteData", IsSeq(s2c), Unanswered,
           Awaiting("AwaitingWriteData")
    PROVE  state' = state /\ pending_op' = NoOp /\ AnsweredOnce'
BY AnswerGiven DEF Dispatch, HandleWriteData, ErrorMsg, Awaiting
-----------------------------------------------------------------------------
(* The session's steps.                                                     *)
LEMMA StateAfter ==
    ASSUME ServerStep
    PROVE  state' \in {"Ready", "Closed"}
<1>1. CASE HandleConnect
    BY <1>1 DEF HandleConnect
<1>2. CASE RefusePayload \/ RefuseSequence
    BY <1>2 DEF RefusePayload, RefuseSequence
<1>3. CASE HandleReady
    <2>1. state = "Ready" /\ Dispatch
        BY SMTT(30), <1>3 DEF HandleReady
    <2>2. state' = state \/ state' = "Closed"
        BY ZenonT(30), <2>1 DEF Dispatch, HandleMrReg, HandleMrDereg, HandleSend,
           HandleSendData, HandleWrite, HandleWriteData, HandleReadReq, HandleAtomicReq,
           HandleDisconnect, Ignore, HandleOther
    <2> QED
        BY <2>1, <2>2
<1> QED
    BY <1>1, <1>2, <1>3 DEF ServerStep

(* CONNECT is answered, or ends the session.                                *)
LEMMA ConnectTaken ==
    ASSUME SeqInv, ServerStep, state = "AwaitingConnect", AwaitingFrames,
           UNCHANGED phase
    PROVE  Connecting' \/ state' = "Closed"
<1>1. HandleConnect
    BY DEF ServerStep, RefusePayload, RefuseSequence, HandleReady
<1>2. c2s # <<>> /\ c2s' = Tail(c2s) /\ pending_op' = pending_op /\ IsSeq(c2s)
    BY <1>1 DEF HandleConnect, Taken, SeqInv
<1>3. phase' = "connecting" /\ Carry0(c2s')
    BY ZenonT(30), <1>2, TailCarries DEF AwaitingFrames, Carry0
<1>4. CASE state' = "Ready"
    <2>1. PICK m : m.op = "ConnectAck" /\ Reply(<<m>>)
        BY <1>1, <1>4 DEF HandleConnect
    <2> QED
        BY <1>2, <1>3, <2>1 DEF Connecting, AwaitingFrames, Carry1, Reply, Carry0
<1> QED
    BY <1>1, <1>4 DEF HandleConnect
-----------------------------------------------------------------------------
(* The answer to a registration.                                            *)
RegAck(l, r, st) == [op |-> "MrRegAck", lkey |-> l, rkey |-> r, status |-> st]

(* What handling an MR_REG comes to.                                        *)
Registered(l, r, st) ==
    /\ Reply(<<RegAck(l, r, st)>>)
    /\ st # "Ok" => UNCHANGED regions
    /\ st = "Ok" => \E pd : regions' =
          With(regions, l, [pd |-> pd, rkey |-> r, access_flags |-> Msg.access_flags,
                            data |-> Zeroes(Msg.region_len)])

(* An MR_REG that does not end the session is answered with the keys of the *)
(* region it entered, or with the reason why there is none.                 *)
LEMMA RegDone ==
    ASSUME Dispatch, Msg.op = "MrReg", state = "Ready", state' # "Closed"
    PROVE  \E l, r, st : Registered(l, r, st)
<1>1. HandleMrReg /\ state' # "Closed"
    BY DEF Dispatch
<1>2. \/ /\ Reply(<<RegAck(NoKey, NoKey, "ErrInternal")>>)
         /\ UNCHANGED storeVars
      \/ \E k :
            /\ Register(Msg.pd, Msg.access_flags, Msg.region_len, k)
            /\ IF RegisterStatus(Msg.region_len, k) = "Ok"
               THEN Reply(<<RegAck(next_lkey, k, "Ok")>>)
               ELSE Reply(<<RegAck(NoKey, NoKey, RegisterStatus(Msg.region_len, k))>>)
    BY ZenonT(30), <1>1 DEF HandleMrReg, RegAck
<1>3. CASE Reply(<<RegAck(NoKey, NoKey, "ErrInternal")>>) /\ UNCHANGED storeVars
    BY <1>3 DEF Registered, storeVars
<1>4. ASSUME NEW k, Register(Msg.pd, Msg.access_flags, Msg.region_len, k),
             RegisterStatus(Msg.region_len, k) = "Ok",
             Reply(<<RegAck(next_lkey, k, "Ok")>>)
      PROVE  Registered(next_lkey, k, "Ok")
    <2>1. QuotaStatus(Msg.region_len) = "Ok" /\ k # NoKey
        BY SMTT(30), <1>4 DEF RegisterStatus
    <2>2. regions' = With(regions, next_lkey,
                          [pd |-> Msg.pd, rkey |-> k,
                           access_flags |-> Msg.access_flags,
                           data |-> Zeroes(Msg.region_len)])
        BY <1>4, <2>1 DEF Register
    <2> QED
        BY ZenonT(30), <1>4, <2>2 DEF Registered
<1>5. ASSUME NEW k, Register(Msg.pd, Msg.access_flags, Msg.region_len, k),
             RegisterStatus(Msg.region_len, k) # "Ok",
             Reply(<<RegAck(NoKey, NoKey, RegisterStatus(Msg.region_len, k))>>)
      PROVE  Registered(NoKey, NoKey, RegisterStatus(Msg.region_len, k))
    BY <1>5 DEF RegisterStatus, Register, storeVars, Registered
<1> QED
    BY ZenonT(30), <1>2, <1>3, <1>4, <1>5

\* Between verbs no request is under way.
LEMMA NoneAsked ==
    ASSUME Left0
    PROVE  \A i \in 1 .. Len(c2s) : c2s[i].msg.op = "SendData"
BY DEF Left0, Carry0, Carry1

(* The data of a refused SEND is taken off and nothing else happens.        *)
LEMMA DiscardStep ==
    ASSUME IsSeq(c2s), c2s # <<>>, c2s' = Tail(c2s), Dispatch, state = "Ready",
           pending_op = Discarding, UNCHANGED <<phase, call>>,
           BetweenVerbs \/ SendHalf \/ WriteHalf \/ InVerb
    PROVE  (BetweenVerbs \/ SendHalf \/ WriteHalf \/ InVerb)'
<1>1. pending_op # NoOp /\ ~Awaiting("AwaitingSendData") /\ ~Awaiting("AwaitingWriteData")
    BY DEF Discarding, NoOp, Awaiting
<1>2. ASSUME Head(c2s).msg.op = "SendData"
      PROVE  /\ pending_op' = NoOp
             /\ Unanswered' = Unanswered /\ AnsweredOnce' = AnsweredOnce
    BY <1>2, DiscardedData DEF Msg, Incoming, Unanswered, AnsweredOnce
<1>3. ASSUME Left0
      PROVE  Head(c2s).msg.op = "SendData" /\ Carry0(c2s')
    BY ZenonT(30), <1>1, <1>3, TailCarries DEF Left0
<1>4. ASSUME NEW a, Left1(a)
      PROVE  Head(c2s).msg.op = "SendData" /\ Carry1(c2s', a)
    BY ZenonT(30), <1>1, <1>4, TailCarries DEF Left1
<1>5. ASSUME NEW a, NEW b, Left2(a, b)
      PROVE  Head(c2s).msg.op = "SendData" /\ Carry2(c2s', a, b)
    BY <1>1, <1>5, TailCarries DEF Left2
<1>6. CASE BetweenVerbs
    BY ZenonT(30), <1>2, <1>3, <1>6 DEF BetweenVerbs, Left0
<1>7. CASE SendHalf
    BY <1>2, <1>4, <1>7 DEF SendHalf, Left1, Carry0
<1>8. CASE WriteHalf
    BY ZenonT(30), <1>1, <1>2, <1>4, <1>8 DEF WriteHalf, Left1
<1>9. CASE InVerb
    <2>1. ASSUME NEW a \in Singles, Left1(a), Unanswered
          PROVE  InVerb'
        BY ZenonT(30), <1>2, <1>4, <1>9, <2>1 DEF InVerb, Left1
    <2>2. ASSUME Left2("Send", "SendData"), Unanswered
          PROVE  InVerb'
        BY ZenonT(30), <1>2, <1>5, <1>9, <2>2 DEF InVerb, Left2
    <2>3. ASSUME Left2("Write", "WriteData"), Unanswered
          PROVE  InVerb'
        BY ZenonT(30), <1>2, <1>5, <1>9, <2>3 DEF InVerb, Left2
    <2>4. ASSUME AnsweredOnce, Left0
          PROVE  InVerb'
        BY ZenonT(30), <1>2, <1>3, <1>9, <2>4 DEF InVerb, Left0
    <2> QED
        BY ZenonT(30), <1>1, <1>9, <2>1, <2>2, <2>3, <2>4 DEF InVerb
<1> QED
    BY <1>6, <1>7, <1>8, <1>9

(* Any other frame is the one the verb under way has sent.                  *)
LEMMA HandledStep ==
    ASSUME IsSeq(c2s), IsSeq(s2c), c2s # <<>>, c2s' = Tail(c2s), Dispatch,
           state = "Ready", ~OutOfTurn, state' # "Closed",
           pending_op # Discarding, UNCHANGED <<phase, call>>,
           BetweenVerbs \/ SendHalf \/ WriteHalf \/ InVerb
    PROVE  (BetweenVerbs \/ SendHalf \/ WriteHalf \/ InVerb)'
<1>1. Msg.op = Head(c2s).msg.op /\ ~Carry0(c2s)
    BY DEF Msg, Incoming, Carry0
<1>2. ~BetweenVerbs /\ ~(AnsweredOnce /\ Left0)
    BY <1>1 DEF BetweenVerbs, Left0
<1>3. CASE SendHalf
    <2>1. Unanswered /\ Carry1(c2s, "Send")
        BY <1>1, <1>3 DEF SendHalf, Left1
    <2>2. Carry0(c2s') /\ Msg.op = "Send"
        BY ZenonT(30), <1>1, <2>1, TailCarries
    <2> QED
        BY <1>3, <2>2, <2>1, SendTaken DEF SendHalf
<1>4. CASE WriteHalf
    <2>1. Unanswered /\ Carry1(c2s, "Write")
        BY <1>1, <1>4 DEF WriteHalf, Left1
    <2>2. Carry0(c2s') /\ Msg.op = "Write"
        BY ZenonT(30), <1>1, <2>1, TailCarries
    <2> QED
        BY <1>4, <2>2, <2>1, WriteTaken DEF WriteHalf
<1>5. CASE InVerb
    <2>1. ASSUME NEW a \in Singles, Left1(a), Unanswered
          PROVE  InVerb'
        <3>1. pending_op = NoOp /\ Carry1(c2s, a)
            BY <2>1 DEF Left1
        <3>2. Carry0(c2s') /\ Msg.op \in Singles
            BY ZenonT(30), <1>1, <3>1, TailCarries
        <3>3. pending_op' = pending_op /\ AnsweredOnce'
            BY <2>1, <3>2, SingleAnswered
        <3> QED
            BY <1>5, <3>1, <3>2, <3>3 DEF InVerb, Left0
    <2>2. ASSUME Left2("Send", "SendData"), Unanswered
          PROVE  InVerb'
        <3>1. Carry2(c2s, "Send", "SendData")
            BY <2>2 DEF Left2
        <3>2. Carry1(c2s', "SendData") /\ Msg.op = "Send"
            BY ZenonT(30), <1>1, <3>1, TailCarries
        <3> QED
            BY <1>5, <3>2, <2>2, SendTaken DEF InVerb, Left0
    <2>3. ASSUME Left2("Write", "WriteData"), Unanswered
          PROVE  InVerb'
        <3>1. Carry2(c2s, "Write", "WriteData")
            BY <2>3 DEF Left2
        <3>2. Carry1(c2s', "WriteData") /\ Msg.op = "Write"
            BY ZenonT(30), <1>1, <3>1, TailCarries
        <3> QED
            BY <1>5, <3>2, <2>3, WriteTaken DEF InVerb
    <2>4. ASSUME Unanswered, Awaiting("AwaitingSendData"), Carry1(c2s, "SendData")
          PROVE  InVerb'
        <3>1. Carry0(c2s') /\ Msg.op = "SendData"
            BY ZenonT(30), <1>1, <2>4, TailCarries
        <3> QED
            BY <1>5, <3>1, <2>4, SendDataTaken DEF InVerb, Left0
    <2>5. ASSUME Unanswered, Awaiting("AwaitingWriteData"), Carry1(c2s, "WriteData")
          PROVE  InVerb'
        <3>1. Carry0(c2s') /\ Msg.op = "WriteData"
            BY ZenonT(30), <1>1, <2>5, TailCarries
        <3> QED
            BY <1>5, <3>1, <2>5, WriteDataTaken DEF InVerb, Left0
    <2> QED
        BY ZenonT(30), <1>2, <1>5, <2>1, <2>2, <2>3, <2>4, <2>5 DEF InVerb
<1> QED
    BY <1>2, <1>3, <1>4, <1>5

(* The steps of the session keep PairInv.                                   *)
LEMMA ServePaired ==
    ASSUME SeqInv, PairInv, Serve
    PROVE  PairInv'
<1>1. ServerStep /\ UNCHANGED <<phase, call>> /\ in_step' = (in_step /\ ~OutOfTurn)
    BY DEF Serve, clientVars
<1>2. /\ state # "Closed" /\ c2s # <<>> /\ c2s' = Tail(c2s)
      /\ IsSeq(c2s) /\ IsSeq(s2c)
    BY <1>1, StepExpects DEF SeqInv
<1>3. CASE state = "AwaitingConnect"
    BY <1>1, StateAfter, <1>3, ConnectTaken DEF PairInv
<1>4. CASE state = "Ready"
    <2>1. SUFFICES ASSUME state' = "Ready", in_step'
                   PROVE  \/ phase' = "gone" \/ Connecting' \/ BetweenVerbs'
                          \/ SendHalf' \/ WriteHalf' \/ InVerb'
        BY <1>1, StateAfter DEF PairInv
    <2>2. in_step /\ ~OutOfTurn
        BY ZenonT(30), <1>1, <2>1
    <2>3. Dispatch
        BY <1>1, <1>4, <2>2 DEF ServerStep, HandleConnect, RefusePayload, RefuseSequence,
           HandleReady, OutOfTurn
    <2>4. CASE phase = "gone"
        BY <1>1, <2>4
    <2>5. CASE BetweenVerbs \/ SendHalf \/ WriteHalf \/ InVerb
        BY SMTT(30), <1>1, <1>2, <1>4, <2>1, <2>2, <2>3, <2>5, DiscardStep, HandledStep
    <2> QED
        BY <1>2, <1>4, <2>2, <2>4, <2>5 DEF PairInv, Connecting, Carry0
<1> QED
    BY <1>2, <1>3, <1>4 DEF PairInv
-----------------------------------------------------------------------------
(* The client's steps.                                                      *)
Sends(op, next) ==
    /\ phase = "idle" /\ phase' = next /\ UNCHANGED s2c
    /\ \E f : f.msg.op = op /\ c2s' = Append(c2s, f)

(* A verb that begins sends its request and goes on to its data or its      *)
(* answer.                                                                  *)
LEMMA BeginSends ==
    ASSUME NEW c, "verb" \in DOMAIN c, Begin(c), state # "Closed"
    PROVE  /\ Sends(Request(c).op, IF c.verb \in TwoFrames THEN "data" ELSE "recv")
           /\ call'.verb = c.verb
<1>1. /\ phase = "idle" /\ UNCHANGED s2c
      /\ Emit(0, Request(c)) /\ call' = Begun(c)
      /\ phase' = IF c.verb \in TwoFrames THEN "data" ELSE "recv"
    BY DEF Begin, SendFails
<1>2. \E f : f.msg.op = Request(c).op /\ c2s' = Append(c2s, f)
    <2> DEFINE f == [seq |-> c_next_seq, payload_length |-> 0, msg |-> Request(c)]
    <2> HIDE DEF f
    <2> QED
        BY <1>1 DEF Emit
<1> QED
    BY <1>1, <1>2 DEF Sends, Begun

(* What the application starts is a request of one frame, a SEND, a WRITE,  *)
(* or the end.                                                              *)
LEMMA StartSends ==
    ASSUME Start, state # "Closed"
    PROVE  \/ phase' = "gone"
           \/ \E op \in Singles : Sends(op, "recv")
           \/ Sends("Send", "data") /\ call'.verb = "post_send"
           \/ Sends("Write", "data") /\ call'.verb = "rdma_write"
<1> DEFINE Goal == \/ phase' = "gone"
                   \/ \E op \in Singles : Sends(op, "recv")
                   \/ Sends("Send", "data") /\ call'.verb = "post_send"
                   \/ Sends("Write", "data") /\ call'.verb = "rdma_write"
<1>1. CASE Disconnect
    BY <1>1 DEF Disconnect
<1>2. ASSUME NEW acc, NEW len, RegMr(acc, len)
      PROVE  Goal
    <2> DEFINE c == [verb |-> "reg_mr", access_flags |-> acc, region_len |-> len]
    <2>1. "verb" \in DOMAIN c /\ c.verb \notin TwoFrames /\ Request(c).op = "MrReg"
        BY DEF Request, TwoFrames
    <2>2. Begin(c)
        BY <1>2 DEF RegMr
    <2> HIDE DEF c
    <2> QED
        BY <2>1, <2>2, BeginSends DEF Singles
<1>3. ASSUME NEW l, DeregMr(l)
      PROVE  Goal
    <2> DEFINE c == [verb |-> "dereg_mr", lkey |-> l]
    <2>1. "verb" \in DOMAIN c /\ c.verb \notin TwoFrames /\ Request(c).op = "MrDereg"
        BY DEF Request, TwoFrames
    <2>2. Begin(c)
        BY <1>3 DEF DeregMr
    <2> HIDE DEF c
    <2> QED
        BY <2>1, <2>2, BeginSends DEF Singles
<1>4. ASSUME NEW sg, PostSend(sg)
      PROVE  Goal
    <2> DEFINE c == [verb |-> "post_send", sg_list |-> sg, wrid |-> 0, data |-> <<>>]
    <2>1. /\ "verb" \in DOMAIN c /\ c.verb = "post_send" /\ c.verb \in TwoFrames
          /\ Request(c).op = "Send"
        BY DEF Request, TwoFrames
    <2>2. Begin(c)
        BY <1>4 DEF PostSend
    <2> HIDE DEF c
    <2> QED
        BY <2>1, <2>2, BeginSends
<1>5. ASSUME NEW k, NEW va, NEW sg, RdmaWrite(k, va, sg)
      PROVE  Goal
    <2> DEFINE c == [verb |-> "rdma_write", rkey |-> k, remote_va |-> va,
                     sg_list |-> sg, wrid |-> 0, data |-> <<>>]
    <2>1. /\ "verb" \in DOMAIN c /\ c.verb = "rdma_write" /\ c.verb \in TwoFrames
          /\ Request(c).op = "Write"
        BY DEF Request, TwoFrames
    <2>2. Begin(c)
        BY <1>5 DEF RdmaWrite
    <2> HIDE DEF c
    <2> QED
        BY <2>1, <2>2, BeginSends
<1>6. ASSUME NEW k, NEW va, NEW len, NEW l, NEW lva, RdmaRead(k, va, len, l, lva)
      PROVE  Goal
    <2> DEFINE c == [verb |-> "rdma_read", rkey |-> k, remote_va |-> va,
                     read_len |-> len, lkey |-> l, local_va |-> lva, wrid |-> 0]
    <2>1. "verb" \in DOMAIN c /\ c.verb \notin TwoFrames /\ Request(c).op = "ReadReq"
        BY DEF Request, TwoFrames
    <2>2. Begin(c)
        BY <1>6 DEF RdmaRead
    <2> HIDE DEF c
    <2> QED
        BY <2>1, <2>2, BeginSends DEF Singles
<1>7. ASSUME NEW k, NEW va, NEW t, NEW op1, NEW op2, PostAtomic(k, va, t, op1, op2)
      PROVE  Goal
    <2> DEFINE c == [verb |-> "post_atomic", rkey |-> k, remote_va |-> va,
                     atomic_type |-> t, operand1 |-> op1, operand2 |-> op2, wrid |-> 0]
    <2>1. "verb" \in DOMAIN c /\ c.verb \notin TwoFrames /\ Request(c).op = "AtomicReq"
        BY DEF Request, TwoFrames
    <2>2. Begin(c)
        BY <1>7 DEF PostAtomic
    <2> HIDE DEF c
    <2> QED
        BY <2>1, <2>2, BeginSends DEF Singles
<1> HIDE DEF Goal
<1>8. Disconnect => Goal
    BY <1>1 DEF Goal
<1>9. Goal
    BY <1>2, <1>3, <1>4, <1>5, <1>6, <1>7, <1>8 DEF Start
<1> QED
    BY <1>9 DEF Goal

(* A verb starts from a connection on which nothing is left to answer.      *)
LEMMA StartPaired ==
    ASSUME IsSeq(c2s), BetweenVerbs, Start, state # "Closed", UNCHANGED pending_op
    PROVE  (phase = "gone" \/ SendHalf \/ WriteHalf \/ InVerb)'
<1>1. ASSUME NEW op, NEW next, Sends(op, next)
      PROVE  Unanswered' /\ Left1(op)' /\ phase' = next
    <2>1. PICK f : f.msg.op = op /\ c2s' = Append(c2s, f)
        BY <1>1 DEF Sends
    <2>2. /\ Carry0(c2s) => Carry1(c2s', op)
          /\ Carry1(c2s, "SendData") => Carry2(c2s', "SendData", op)
        BY SMTT(30), <2>1, AppendCarries
    <2> QED
        BY <1>1, <2>2 DEF BetweenVerbs, Sends, Unanswered, Left0, Left1
<1>2. CASE Sends("Send", "data") /\ call'.verb = "post_send"
    BY <1>1, <1>2 DEF SendHalf
<1>3. CASE Sends("Write", "data") /\ call'.verb = "rdma_write"
    BY <1>1, <1>3 DEF WriteHalf
<1>4. ASSUME NEW op \in Singles, Sends(op, "recv")
      PROVE  InVerb'
    BY <1>1, <1>4 DEF InVerb
<1> QED
    BY <1>2, <1>3, <1>4, StartSends

(* The second frame completes a SEND or WRITE.                              *)
LEMMA DataPaired ==
    ASSUME IsSeq(c2s), SendHalf \/ WriteHalf, SendData, state # "Closed",
           UNCHANGED pending_op
    PROVE  InVerb'
<1>1. PICK f : /\ c2s' = Append(c2s, f)
               /\ call.verb = "post_send" => f.msg.op = "SendData"
               /\ call.verb = "rdma_write" => f.msg.op = "WriteData"
    BY SMTT(30) DEF SendData, SendFails, Emit
<1>2. /\ Carry0(c2s) => Carry1(c2s', f.msg.op)
      /\ \A a : Carry1(c2s, a) => Carry2(c2s', a, f.msg.op)
      /\ \A a, b : Carry2(c2s, a, b) => Carry3(c2s', a, b, f.msg.op)
    BY SMTT(30), <1>1, AppendCarries
<1>3. \A a : Left1(a) => Left2(a, f.msg.op)'
    BY <1>2 DEF Left1, Left2
<1>4. CASE SendHalf
    BY ZenonT(30), <1>1, <1>4, <1>3, <1>2 DEF SendHalf, InVerb, Awaiting, Left0, Unanswered,
       AnsweredOnce, SendData, SendFails
<1>5. CASE WriteHalf
    BY ZenonT(30), <1>1, <1>5, <1>3, <1>2 DEF WriteHalf, InVerb, Awaiting, Unanswered, AnsweredOnce,
       SendData, SendFails
<1> QED
    BY SMTT(30), <1>4, <1>5

(* With CONNECT_ACK taken nothing is under way.                             *)
LEMMA AckPaired ==
    ASSUME IsSeq(s2c), Connecting, TakeConnectAck, UNCHANGED pending_op
    PROVE  BetweenVerbs'
<1>1. Carry0(s2c') /\ Head(s2c).msg.op = "ConnectAck"
    BY ZenonT(30), TailCarries DEF Connecting, TakeConnectAck
<1>2. phase' = "idle" /\ c2s' = c2s
    BY <1>1 DEF TakeConnectAck
<1> QED
    BY <1>2, <1>1 DEF BetweenVerbs, Connecting, Left0, Carry0, Unanswered

(* Taking a credit leaves the verb waiting for its answer.                  *)
LEMMA CreditPaired ==
    ASSUME IsSeq(s2c), InVerb, TakeCredit, UNCHANGED pending_op
    PROVE  InVerb'
BY ZenonT(30), AnswerTaken DEF Left0, Left1, Left2, TakeCredit, IsCredit, InVerb, Awaiting

(* Taking the answer leaves nothing under way.                              *)
LEMMA AnswerPaired ==
    ASSUME SeqInv, state = "Ready", InVerb, TakeAnswer, UNCHANGED pending_op
    PROVE  BetweenVerbs'
BY ZenonT(30), AnswerTaken DEF TakeAnswer, IsCredit, SeqInv, InVerb, Connected, First, InSequence,
   Return, BetweenVerbs, Left0

(* In an open session each step of the client leads from one of the phases  *)
(* to another.                                                              *)
LEMMA ReadyPaired ==
    ASSUME SeqInv, state = "Ready", ClientStep,
           phase = "gone" \/ Connecting \/ BetweenVerbs \/ SendHalf \/ WriteHalf \/ InVerb
    PROVE  (phase = "gone" \/ Connecting \/ BetweenVerbs \/ SendHalf \/ WriteHalf
            \/ InVerb)'
<1>1. UNCHANGED pending_op /\ IsSeq(c2s) /\ IsSeq(s2c)
    BY SMTT(30) DEF ClientStep, sessionVars, SeqInv
<1>2. CASE Connect
    BY <1>2 DEF Connect, Connecting, BetweenVerbs, SendHalf, WriteHalf, InVerb
<1>3. CASE Start
    <2>1. phase = "idle"
        <3>1. ASSUME NEW c, Begin(c)
              PROVE  phase = "idle"
            BY <3>1 DEF Begin
        <3>2. Disconnect \/ \E c : Begin(c)
            BY ZenonT(30), <1>3 DEF Start, RegMr, DeregMr, PostSend, RdmaWrite, RdmaRead,
               PostAtomic
        <3> QED
            BY <3>1, <3>2 DEF Disconnect
    <2> QED
        BY <1>1, <1>3, <2>1, StartPaired DEF Connecting, BetweenVerbs, SendHalf, WriteHalf,
           InVerb
<1>4. CASE LocalStep
    <2>1. UNCHANGED <<phase, call, c2s, s2c>>
        <3>1. ASSUME NEW max, PollCq(max)
              PROVE  UNCHANGED <<phase, call, c2s, s2c>>
            BY <3>1 DEF PollCq, channels
        <3>2. ASSUME NEW l, NEW o, NEW d, WriteLocalMr(l, o, d)
              PROVE  UNCHANGED <<phase, call, c2s, s2c>>
            BY <3>2 DEF WriteLocalMr, channels
        <3> QED
            BY <1>4, <3>1, <3>2 DEF LocalStep
    <2> QED
        BY <1>1, <2>1 DEF Connecting, BetweenVerbs, SendHalf, WriteHalf, InVerb, Unanswered,
           AnsweredOnce, Left0, Left1, Left2, Awaiting
<1>5. CASE SendData
    BY ZenonT(30), <1>5, <1>1, DataPaired DEF SendData, Connecting, BetweenVerbs, InVerb
<1>6. CASE TakeConnectAck
    <2>1. Connecting
        BY ZenonT(30), <1>6 DEF TakeConnectAck, BetweenVerbs, SendHalf, WriteHalf, InVerb
    <2> QED
        BY <1>1, <1>6, <2>1, AckPaired
<1>7. CASE TakeCredit
    <2>1. InVerb
        BY <1>7 DEF TakeCredit, Connecting, BetweenVerbs, SendHalf, WriteHalf
    <2> QED
        BY <1>1, <1>7, <2>1, CreditPaired
<1>8. CASE TakeAnswer
    BY <1>8, <1>1, AnswerPaired DEF TakeAnswer, Connecting, BetweenVerbs, SendHalf, WriteHalf
<1>9. ~ConnectFails /\ ~AnswerFails
    BY DEF ConnectFails, AnswerFails
<1> QED
    BY <1>2, <1>3, <1>4, <1>5, <1>6, <1>7, <1>8, <1>9 DEF ClientStep, Proceed

\* Before the session is connected the client can only send its CONNECT.
LEMMA OnlyConnects ==
    ASSUME AwaitingFrames, state = "AwaitingConnect", ClientStep
    PROVE  Connect
<1>1. phase \in {"start", "connecting"} /\ s2c = <<>>
    BY DEF AwaitingFrames, Carry0
<1>2. ASSUME NEW c, Begin(c)
      PROVE  FALSE
    BY <1>1, <1>2 DEF Begin
<1>3. Start => Disconnect \/ \E c : Begin(c)
    BY ZenonT(30) DEF Start, RegMr, DeregMr, PostSend, RdmaWrite, RdmaRead, PostAtomic
<1>4. ~LocalStep
    BY ZenonT(30), <1>1 DEF LocalStep, PollCq, WriteLocalMr
<1> QED
    BY <1>2, <1>3, <1>4, <1>1 DEF ClientStep, Proceed, SendData, TakeConnectAck,
       ConnectFails, TakeCredit, TakeAnswer, AnswerFails, Disconnect

(* Before the session is open the client only connects.                     *)
LEMMA ConnectPaired ==
    ASSUME SeqInv, state = "AwaitingConnect", AwaitingFrames, ClientStep
    PROVE  AwaitingFrames'
<1>1. UNCHANGED pending_op /\ IsSeq(c2s) /\ Connect
    BY OnlyConnects DEF ClientStep, sessionVars, SeqInv
<1> DEFINE f == [seq |-> c_next_seq, payload_length |-> 0,
                 msg |-> [op |-> "Connect", max_msg_size |-> DefaultMaxMsgSize]]
<1>2. c2s' = Append(c2s, f) /\ f.msg.op = "Connect"
    BY <1>1 DEF Connect, Emit
<1> HIDE DEF f
<1> QED
    BY ZenonT(30), <1>1, <1>2, AppendCarries DEF AwaitingFrames, Connect

(* The steps of the client keep PairInv.                                    *)
LEMMA ClientPaired ==
    ASSUME SeqInv, PairInv, ClientStep
    PROVE  PairInv'
BY ConnectPaired, ReadyPaired DEF ClientStep, sessionVars, PairInv

(* What is under way always fits where the client is in its verb: nothing   *)
(* before it, its request or its body while it waits, and then exactly one  *)
(* answer, given by handle_message.                                         *)
THEOREM PairInvariant == RdowsSpec => []PairInv
<1>1. RdowsInit => PairInv
    BY DEF RdowsInit, SessionInit, ClientInit, PairInv, AwaitingFrames, Carry0
<1>2. SeqInv /\ PairInv /\ [RdowsNext]_rdowsVars => PairInv'
    <2>1. ASSUME PairInv, Lose
          PROVE  PairInv'
        BY SMTT(30), <2>1 DEF Lose, ConnectionLost, PairInv
    <2>2. ASSUME PairInv, UNCHANGED rdowsVars
          PROVE  PairInv'
        <3>1. UNCHANGED <<state, in_step, phase, call, pending_op, c2s, s2c>>
            BY <2>2 DEF rdowsVars, vars, sessionVars, channels, clientVars
        <3> QED
            BY <2>2, <3>1 DEF PairInv, AwaitingFrames, Connecting, BetweenVerbs, SendHalf,
               WriteHalf, InVerb, Unanswered, AnsweredOnce, Left0, Left1, Left2, Awaiting
    <2> QED
        BY <2>1, <2>2, ServePaired, ClientPaired DEF RdowsNext
<1> QED
    BY PTL, <1>1, <1>2, SeqInvariant DEF RdowsSpec

(* Between verbs nothing of an earlier verb is left on the connection but   *)
(* credit updates and the body of a refused SEND that the session is about  *)
(* to discard: so the message a verb of RdowsClient takes for its answer is *)
(* the answer to that verb's own request, in any order of the two ends.     *)
THEOREM AnswersAlwaysPaired == RdowsSpec => []AnswersPaired
<1>1. SeqInv /\ PairInv => AnswersPaired
    <2> SUFFICES ASSUME SeqInv, PairInv, Talking, in_step, phase = "idle"
                 PROVE  /\ \A i \in DOMAIN s2c : s2c[i].msg.op = "CreditUpdate"
                        /\ \A i \in DOMAIN c2s :
                              c2s[i].msg.op = "SendData" /\ pending_op = Discarding
        BY DEF AnswersPaired
    <2>1. BetweenVerbs
        BY Zenon DEF PairInv, Connecting, SendHalf, WriteHalf, InVerb, Talking
    <2>2. \A i \in DOMAIN c2s : c2s[i].msg.op = "SendData" /\ pending_op = Discarding
        BY <2>1 DEF Carry0, Carry1, BetweenVerbs, Left0
    <2> QED
        BY <2>1, <2>2 DEF BetweenVerbs, Unanswered, IsCredit, SeqInv, IsSeq
<1> QED
    BY PTL, <1>1, SeqInvariant, PairInvariant
=============================================================================
