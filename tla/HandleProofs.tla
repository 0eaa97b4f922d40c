---------------------------- MODULE HandleProofs ----------------------------
(***************************************************************************)
(* The client holds a handle for exactly the regions the server holds for  *)
(* it, for every value of the constants.                                   *)
(***************************************************************************)
EXTENDS PairingProofs

(* The tables of regions agree, or will when the answer under way has been  *)
(* taken.                                                                   *)

\* The client's table mrs and the server's table regs describe one another.
Same(mrs, regs) ==
    /\ DOMAIN mrs = DOMAIN regs
    /\ \A l \in DOMAIN regs :
          /\ {"rkey", "local_buf"} \subseteq DOMAIN mrs[l]
          /\ {"rkey", "data"} \subseteq DOMAIN regs[l]
          /\ mrs[l].rkey = regs[l].rkey
          /\ Len(mrs[l].local_buf) = Len(regs[l].data)
          /\ Len(regs[l].data) \in Nat

\* A request under way that changes the tables is the one of the verb.
Asked(m) ==
    /\ m.op = "MrReg" => /\ call.verb = "reg_mr" /\ call.region_len \in Nat
                         /\ m.region_len = call.region_len
    /\ m.op = "MrDereg" => call.verb = "dereg_mr" /\ m.lkey = call.lkey

Grants(m, op) == m.op = op /\ m.status = "Ok"

Handle(m) == [rkey |-> m.rkey, local_buf |-> Zeroes(call.region_len)]

\* With the answer m taken the tables agree.
Fits(m) ==
    /\ Grants(m, "MrRegAck") =>
          call.verb = "reg_mr" /\ Same(With(local_mrs, m.lkey, Handle(m)), regions)
    /\ Grants(m, "MrDeregAck") =>
          call.verb = "dereg_mr" /\ Same(Without(local_mrs, call.lkey), regions)
    /\ ~Grants(m, "MrRegAck") /\ ~Grants(m, "MrDeregAck") => Same(local_mrs, regions)
    /\ m.op = "Error" => m.status # "Ok"

AllAsked == \A i \in 1 .. Len(c2s) : Asked(c2s[i].msg)

Settling ==
    /\ Unanswered => Same(local_mrs, regions)
    /\ \A i \in 1 .. Len(s2c) : ~IsCredit(s2c[i]) => Fits(s2c[i].msg)

HandleInv ==
    /\ state = "AwaitingConnect" => Same(local_mrs, regions)
    /\ state = "Ready" /\ in_step /\ phase # "gone" => AllAsked /\ Settling
-----------------------------------------------------------------------------
(* Handles.  The two tables are changed by different ends, on either side   *)
(* of an answer, so the invariant says what the answer under way will do:   *)
(* once the client has taken it, the tables agree.  That there is one       *)
(* answer, and that it belongs to the verb, is PairInv.                     *)

(* Lengths of buffers.                                                      *)
LEMMA SpliceLength ==
    ASSUME NEW cells, Len(cells) \in Nat, NEW start, NEW w
    PROVE  Len(Splice(cells, start, w)) = Len(cells)
<1> DEFINE s == Splice(cells, start, w)
           S == {s[i] : i \in 1 .. Len(cells)}
<1> HIDE DEF s, S
<1> QED
    BY DEF s, Splice

(* Both ends enter the same key, or both drop it.                           *)
LEMMA BothEnter ==
    ASSUME NEW mrs, NEW regs, Same(mrs, regs), NEW l, NEW h, NEW r,
           {"rkey", "local_buf"} \subseteq DOMAIN h, {"rkey", "data"} \subseteq DOMAIN r,
           h.rkey = r.rkey, Len(h.local_buf) = Len(r.data), Len(r.data) \in Nat
    PROVE  Same(With(mrs, l, h), With(regs, l, r))
BY DEF Same, With

(* Both ends drop the same key.                                             *)
LEMMA BothDrop ==
    ASSUME NEW mrs, NEW regs, Same(mrs, regs), NEW l
    PROVE  Same(Without(mrs, l), Without(regs, l))
BY DEF Same, Without

(* Contents change on either side and the tables still agree.               *)
LEMMA StoreKeepsSame ==
    ASSUME NEW mrs, Same(mrs, regions), NEW k, NEW start, NEW w, Store(k, start, w)
    PROVE  Same(mrs, regions')
<1> DEFINE n == rkey_to_lkey[k]
           r == [regions[n] EXCEPT !.data = Splice(@, start, w)]
<1>1. regions' = [regions EXCEPT ![n] = r]
    BY DEF Store
<1>2. ASSUME n \in DOMAIN regions
      PROVE  /\ {"rkey", "data"} \subseteq DOMAIN r /\ r.rkey = regions[n].rkey
             /\ Len(r.data) = Len(regions[n].data)
    BY <1>2, SpliceLength DEF Same
<1> HIDE DEF n, r
<1> QED
    BY <1>1, <1>2 DEF Same

(* Data that lands in a buffer of the client leaves the tables the same.    *)
LEMMA LandKeepsSame ==
    ASSUME NEW regs, Same(local_mrs, regs), NEW l, NEW start, NEW w
    PROVE  Same([local_mrs EXCEPT ![l].local_buf = Splice(@, start, w)], regs)
<1> DEFINE h == [local_mrs[l] EXCEPT !.local_buf = Splice(@, start, w)]
           mrs == [local_mrs EXCEPT ![l].local_buf = Splice(@, start, w)]
<1>1. mrs = [local_mrs EXCEPT ![l] = h]
    OBVIOUS
<1>2. ASSUME l \in DOMAIN local_mrs
      PROVE  /\ {"rkey", "local_buf"} \subseteq DOMAIN h /\ h.rkey = local_mrs[l].rkey
             /\ Len(h.local_buf) = Len(local_mrs[l].local_buf)
    BY <1>2, SpliceLength DEF Same
<1> HIDE DEF h, mrs
<1> QED
    BY <1>1, <1>2 DEF mrs, Same
-----------------------------------------------------------------------------
(* The server's step: an answer that fits is the only one there is.         *)
LEMMA FittingAnswer ==
    ASSUME IsSeq(s2c), Unanswered, NEW m, m.op # "CreditUpdate",
           \/ Reply(<<m>>)
           \/ \E k : k.op = "CreditUpdate" /\ Reply(<<m, k>>),
           /\ Grants(m, "MrRegAck") =>
                 /\ call'.verb = "reg_mr"
                 /\ Same(With(local_mrs', m.lkey,
                              [rkey |-> m.rkey, local_buf |-> Zeroes(call'.region_len)]),
                         regions')
           /\ Grants(m, "MrDeregAck") =>
                 call'.verb = "dereg_mr" /\ Same(Without(local_mrs', call'.lkey), regions')
           /\ ~Grants(m, "MrRegAck") /\ ~Grants(m, "MrDeregAck") =>
                 Same(local_mrs', regions')
           /\ m.op = "Error" => m.status # "Ok"
    PROVE  Settling'
<1>1. AnsweredOnce' /\ \A i \in 1 .. Len(s2c') : ~IsCredit(s2c'[i]) => s2c'[i].msg = m
    BY AnswerGiven
<1>2. ASSUME NEW i \in 1 .. Len(s2c'), ~IsCredit(s2c'[i])
      PROVE  Fits(s2c[i].msg)'
    <2>1. s2c'[i].msg = m
        BY ZenonT(30), <1>1, <1>2
    <2> QED
        BY <2>1 DEF Fits, Grants, Handle
<1> QED
    BY <1>1, <1>2 DEF Settling, IsCredit, AnsweredOnce, Unanswered

(* The answer to an MR_REG will enter at the client what the server         *)
(* entered.                                                                 *)
LEMMA RegSettles ==
    ASSUME IsSeq(s2c), Unanswered, Same(local_mrs, regions), UNCHANGED <<call, local_mrs>>,
           Dispatch, Msg.op = "MrReg", Asked(Msg), state = "Ready", state' # "Closed"
    PROVE  Settling'
<1>1. PICK l, r, st : Registered(l, r, st)
    BY RegDone
<1> DEFINE m == RegAck(l, r, st)
<1>2. /\ m.op = "MrRegAck" /\ m.lkey = l /\ m.rkey = r /\ m.status = st
    BY DEF RegAck
<1>3. ASSUME st = "Ok"
      PROVE  Same(With(local_mrs, l, [rkey |-> r, local_buf |-> Zeroes(call.region_len)]),
                  regions')
    <2>1. PICK pd : regions' =
              With(regions, l, [pd |-> pd, rkey |-> r, access_flags |-> Msg.access_flags,
                                data |-> Zeroes(Msg.region_len)])
        BY ZenonT(30), <1>1, <1>3 DEF Registered
    <2> DEFINE x == [pd |-> pd, rkey |-> r, access_flags |-> Msg.access_flags,
                     data |-> Zeroes(Msg.region_len)]
               h == [rkey |-> r, local_buf |-> Zeroes(call.region_len)]
    <2> HIDE DEF x, h
    <2> QED
        BY <2>1, BothEnter DEF x, h, Asked
<1> HIDE DEF m
<1>4. /\ Grants(m, "MrRegAck") <=> st = "Ok"
      /\ ~Grants(m, "MrDeregAck")
    BY <1>2 DEF Grants
<1> QED
    BY <1>2, <1>1, <1>4, <1>3, FittingAnswer DEF m, Registered, Asked

(* The answer to an MR_DEREG will drop at the client what the server        *)
(* dropped.                                                                 *)
LEMMA DeregSettles ==
    ASSUME IsSeq(s2c), Unanswered, Same(local_mrs, regions), UNCHANGED <<call, local_mrs>>,
           Dispatch, Msg.op = "MrDereg", Asked(Msg)
    PROVE  Settling'
<1> DEFINE st == DeregisterStatus(Msg.pd, Msg.lkey)
           m == [op |-> "MrDeregAck", status |-> st]
<1>1. /\ Reply(<<m>>)
      /\ st # "Ok" => UNCHANGED regions
      /\ st = "Ok" => regions' = Without(regions, Msg.lkey)
    BY DEF HandleMrDereg, Deregister, storeVars, Dispatch
<1>2. m.op = "MrDeregAck" /\ m.status = st
    OBVIOUS
<1> HIDE DEF st, m
<1>3. /\ Grants(m, "MrDeregAck") <=> st = "Ok"
      /\ ~Grants(m, "MrRegAck")
    BY <1>2 DEF Grants
<1>4. Grants(m, "MrDeregAck") =>
          call'.verb = "dereg_mr" /\ Same(Without(local_mrs', call'.lkey), regions')
    BY <1>1, <1>3, BothDrop DEF Asked
<1> QED
    BY ZenonT(30), <1>1, <1>2, <1>3, <1>4, FittingAnswer

Plain(m) ==
    /\ m.op \notin {"MrRegAck", "MrDeregAck", "CreditUpdate"}
    /\ m.op = "Error" => m.status # "Ok"

PlainReply ==
    \/ UNCHANGED s2c
    \/ \E m : /\ Plain(m)
             /\ \/ Reply(<<m>>)
                \/ \E k : k.op = "CreditUpdate" /\ Reply(<<m, k>>)

(* No other message is answered with a key to enter or to drop.             *)
LEMMA OtherReplies ==
    ASSUME Dispatch, Msg.op \notin {"MrReg", "MrDereg"}
    PROVE  PlainReply
<1>1. ASSUME NEW code, code # "Ok", NEW n
      PROVE  Plain(ErrorMsg(code, n))
    BY <1>1 DEF Plain, ErrorMsg
<1>2. CASE Msg.op = "Send" /\ HandleSend
    BY <1>1, <1>2 DEF HandleSend, Silent, PlainReply
<1>3. CASE Msg.op = "SendData" /\ HandleSendData
    <2>1. ASSUME NEW w, CompleteSend(w)
          PROVE  PlainReply
        <3> DEFINE m == [op |-> "RecvComp", wrid |-> w]
                   k == [op |-> "CreditUpdate",
                         credit_increment |-> sends_since_last_credit + 1]
        <3>1. Plain(m) /\ k.op = "CreditUpdate"
            BY DEF Plain
        <3>2. Reply(<<m>>) \/ Reply(<<m, k>>)
            BY <2>1 DEF CompleteSend
        <3> HIDE DEF m, k
        <3> QED
            BY SMTT(30), <3>1, <3>2 DEF PlainReply
    <2> QED
        BY ZenonT(30), <1>1, <1>3, <2>1 DEF HandleSendData, Silent, PlainReply
<1>4. CASE Msg.op = "Write" /\ HandleWrite
    BY <1>1, <1>4 DEF HandleWrite, Silent, PlainReply
<1>5. CASE Msg.op = "WriteData" /\ HandleWriteData
    <2>1. Plain([op |-> "WriteComp", wrid |-> pending_op.wrid])
        BY DEF Plain
    <2> QED
        BY ZenonT(30), <1>1, <1>5, <2>1 DEF HandleWriteData, PlainReply
<1>6. CASE Msg.op = "ReadReq" /\ HandleReadReq
    <2>1. ASSUME NEW d
          PROVE  Plain([op |-> "ReadResp", wrid |-> Msg.wrid, data |-> d])
        BY DEF Plain
    <2> QED
        BY ZenonT(30), <1>1, <1>6, <2>1 DEF HandleReadReq, PlainReply
<1>7. CASE Msg.op = "AtomicReq" /\ HandleAtomicReq
    <2>1. ASSUME NEW d
          PROVE  Plain([op |-> "AtomicResp", wrid |-> Msg.wrid, original |-> d])
        BY DEF Plain
    <2> QED
        BY ZenonT(30), <1>1, <1>7, <2>1 DEF HandleAtomicReq, PlainReply
<1>8. CASE HandleDisconnect \/ Ignore \/ HandleOther
    BY <1>1, <1>8 DEF HandleDisconnect, Ignore, HandleOther, Silent, PlainReply
<1> QED
    BY <1>2, <1>3, <1>4, <1>5, <1>6, <1>7, <1>8 DEF Dispatch

(* So its answer will leave the tables the same.                            *)
LEMMA OtherSettles ==
    ASSUME IsSeq(s2c), Unanswered, Same(local_mrs, regions), UNCHANGED <<call, local_mrs>>,
           Dispatch, Msg.op \notin {"MrReg", "MrDereg"}
    PROVE  Settling'
<1>1. UNCHANGED regions \/ \E k, start, w : Store(k, start, w)
    <2>1. CASE HandleWriteData
        BY <2>1 DEF HandleWriteData, WriteRegion, storeVars
    <2>2. CASE HandleAtomicReq
        BY ZenonT(30), <2>2 DEF HandleAtomicReq, AtomicOp, storeVars
    <2>3. CASE \/ HandleSend \/ HandleSendData \/ HandleWrite \/ HandleReadReq
               \/ HandleDisconnect \/ Ignore \/ HandleOther
        BY <2>3 DEF HandleSend, HandleSendData, HandleWrite, HandleReadReq, HandleDisconnect,
           Ignore, HandleOther, storeVars
    <2> QED
        BY <2>1, <2>2, <2>3 DEF Dispatch
<1>2. Same(local_mrs', regions')
    BY <1>1, StoreKeepsSame
<1>3. CASE UNCHANGED s2c
    BY <1>2, <1>3 DEF Settling, Unanswered
<1>4. ASSUME NEW m, Plain(m), \/ Reply(<<m>>)
                               \/ \E k : k.op = "CreditUpdate" /\ Reply(<<m, k>>)
      PROVE  Settling'
    <2>1. /\ ~Grants(m, "MrRegAck") /\ ~Grants(m, "MrDeregAck")
          /\ m.op # "CreditUpdate" /\ (m.op = "Error" => m.status # "Ok")
        BY <1>4 DEF Plain, Grants
    <2> QED
        BY ZenonT(30), <1>2, <1>4, <2>1, FittingAnswer
<1> QED
    BY ZenonT(30), <1>3, <1>4, OtherReplies DEF PlainReply

\* Frames are taken from the front.
LEMMA TailAsked ==
    ASSUME IsSeq(c2s), c2s # <<>>, c2s' = Tail(c2s), AllAsked, UNCHANGED call
    PROVE  AllAsked' /\ Asked(Msg)
<1>1. PICK S : c2s \in Seq(S)
    BY DEF IsSeq
<1>2. ASSUME NEW i \in 1 .. Len(c2s')
      PROVE  Asked(c2s[i].msg)'
    BY DEF AllAsked, Asked
<1> QED
    BY <1>2 DEF AllAsked, Msg, Incoming

(* The steps of the session keep HandleInv.                                 *)
LEMMA ServeHandles ==
    ASSUME SeqInv, PairInv, HandleInv, Serve
    PROVE  HandleInv'
<1>1. /\ ServerStep /\ UNCHANGED <<phase, call, local_mrs>>
      /\ in_step' = (in_step /\ ~OutOfTurn)
    BY DEF Serve, clientVars
<1>2. /\ state # "Closed" /\ c2s # <<>> /\ c2s' = Tail(c2s)
      /\ IsSeq(c2s) /\ IsSeq(s2c)
    BY <1>1, StepExpects DEF SeqInv
<1>3. SUFFICES ASSUME state' = "Ready", in_step', phase' # "gone"
               PROVE  AllAsked' /\ Settling'
    BY <1>1, StateAfter DEF HandleInv
<1>4. in_step /\ ~OutOfTurn /\ phase # "gone"
    BY ZenonT(30), <1>1, <1>3
<1>5. CASE state = "AwaitingConnect"
    <2>1. Len(c2s') = 0 /\ Len(s2c') = 1 /\ s2c'[1].msg.op = "ConnectAck"
        BY <1>1, <1>3, <1>5, ConnectTaken DEF Connecting, Carry0, Carry1, PairInv
    <2> QED
        BY <2>1, <1>1, <1>5 DEF AllAsked, Settling, Fits, Grants, ServerStep, HandleConnect,
           RefusePayload, RefuseSequence, HandleReady, storeVars, HandleInv
<1>6. CASE state = "Ready"
    <2>1. Dispatch
        BY <1>1, <1>4, <1>6 DEF ServerStep, HandleConnect, RefusePayload, RefuseSequence,
           HandleReady, OutOfTurn
    <2>2. AllAsked /\ Settling
        BY <1>4, <1>6 DEF HandleInv
    <2>3. AllAsked' /\ Asked(Msg)
        BY SMTT(30), <1>1, <1>2, <2>2, TailAsked
    <2>4. CASE Unanswered
        <3>1. Same(local_mrs, regions) /\ state' # "Closed"
            BY <1>3, <2>2, <2>4 DEF Settling
        <3>2. UNCHANGED <<call, local_mrs>>
            BY <1>1
        <3>3. CASE Msg.op = "MrReg"
            BY <1>2, <1>6, <2>1, <2>3, <2>4, <3>1, <3>2, <3>3, RegSettles
        <3>4. CASE Msg.op = "MrDereg"
            BY <1>2, <2>1, <2>3, <2>4, <3>1, <3>2, <3>4, DeregSettles
        <3> QED
            BY <1>2, <2>1, <2>3, <2>4, <3>1, <3>2, <3>3, <3>4, OtherSettles
    <2>5. CASE ~Unanswered
        <3>1. Left0
            BY SMTT(30), <1>2, <1>4, <1>6, <2>5 DEF PairInv, Connecting, BetweenVerbs,
               SendHalf, WriteHalf, InVerb, Carry0
        <3>2. pending_op = Discarding /\ Msg.op = "SendData"
            BY ZenonT(30), <1>2, <3>1, TailCarries DEF Left0, Carry0, Msg, Incoming
        <3> QED
            BY <1>1, <2>2, <2>3, <2>1, <3>2, DiscardedData DEF Settling, Unanswered, Fits,
               Handle, Dispatch, HandleSendData, storeVars
    <2> QED
        BY SMTT(30), <2>4, <2>5
<1> QED
    BY <1>2, <1>5, <1>6 DEF PairInv
-----------------------------------------------------------------------------
(* The client's steps.                                                      *)
LEMMA BeginAsks ==
    ASSUME NEW c, Begin(c), state # "Closed",
           \/ c.verb \in WorkRequests
           \/ c.verb = "reg_mr" /\ c.region_len \in Nat
           \/ c.verb = "dereg_mr"
    PROVE  UNCHANGED <<local_mrs, s2c>> /\ \E f : c2s' = Append(c2s, f) /\ Asked(f.msg)'
<1>1. UNCHANGED <<local_mrs, s2c>> /\ Emit(0, Request(c)) /\ call' = Begun(c)
    BY DEF Begin, SendFails
<1> DEFINE f == [seq |-> c_next_seq, payload_length |-> 0, msg |-> Request(c)]
<1>2. c2s' = Append(c2s, f) /\ f.msg = Request(c)
    BY SMTT(30), <1>1 DEF Emit
<1> HIDE DEF f
<1>3. CASE c.verb \in WorkRequests
    BY <1>3, <1>1, <1>2 DEF WorkRequests, Request, Asked
<1>4. CASE c.verb = "reg_mr" /\ c.region_len \in Nat
    BY <1>1, <1>4, <1>2 DEF Request, Begun, TwoFrames, WorkRequests, Asked
<1>5. CASE c.verb = "dereg_mr"
    BY <1>1, <1>5, <1>2 DEF Request, Begun, TwoFrames, WorkRequests, Asked
<1> QED
    BY ZenonT(30), <1>3, <1>4, <1>5

(* What the application starts asks for what its call says.                 *)
LEMMA StartAsks ==
    ASSUME Start, state # "Closed"
    PROVE  \/ phase' = "gone"
           \/ /\ UNCHANGED <<local_mrs, s2c>>
              /\ \E f : c2s' = Append(c2s, f) /\ Asked(f.msg)'
<1> DEFINE Goal == \/ phase' = "gone"
                   \/ /\ UNCHANGED <<local_mrs, s2c>>
                      /\ \E f : c2s' = Append(c2s, f) /\ Asked(f.msg)'
<1>1. Disconnect => Goal
    BY DEF Disconnect
<1>2. ASSUME NEW acc, NEW len \in Lens, RegMr(acc, len)
      PROVE  Goal
    <2> DEFINE c == [verb |-> "reg_mr", access_flags |-> acc, region_len |-> len]
    <2> HIDE DEF c
    <2> QED
        BY <1>2, StoreAssumption, BeginAsks DEF RegMr
<1>3. ASSUME NEW l, DeregMr(l)
      PROVE  Goal
    <2> DEFINE c == [verb |-> "dereg_mr", lkey |-> l]
    <2> HIDE DEF c
    <2> QED
        BY <1>3, BeginAsks DEF DeregMr
<1>4. ASSUME NEW c, c.verb \in WorkRequests, Begin(c)
      PROVE  Goal
    BY <1>4, BeginAsks
<1>5. ASSUME NEW sg, PostSend(sg)
      PROVE  \E c : c.verb \in WorkRequests /\ Begin(c)
    BY <1>5 DEF PostSend, WorkRequests
<1>6. ASSUME NEW k, NEW va, NEW sg, RdmaWrite(k, va, sg)
      PROVE  \E c : c.verb \in WorkRequests /\ Begin(c)
    BY <1>6 DEF RdmaWrite, WorkRequests
<1>7. ASSUME NEW k, NEW va, NEW len, NEW l, NEW lva, RdmaRead(k, va, len, l, lva)
      PROVE  \E c : c.verb \in WorkRequests /\ Begin(c)
    BY <1>7 DEF RdmaRead, WorkRequests
<1>8. ASSUME NEW k, NEW va, NEW t, NEW op1, NEW op2, PostAtomic(k, va, t, op1, op2)
      PROVE  \E c : c.verb \in WorkRequests /\ Begin(c)
    BY <1>8 DEF PostAtomic, WorkRequests
<1> HIDE DEF Goal
<1>9. Goal
    BY ZenonT(30), <1>1, <1>2, <1>3, <1>4, <1>5, <1>6, <1>7, <1>8 DEF Start
<1> QED
    BY <1>9 DEF Goal

(* One more request that its call asked for.                                *)
LEMMA AppendAsked ==
    ASSUME IsSeq(c2s), NEW f, c2s' = Append(c2s, f), Asked(f.msg)',
           \A i \in 1 .. Len(c2s) : \A m : m = c2s[i].msg => Asked(m)'
    PROVE  AllAsked'
<1>1. PICK S : c2s \in Seq(S)
    BY DEF IsSeq
<1> QED
    BY DEF AllAsked

(* Between verbs it is enough that the tables agree.                        *)
LEMMA IdleHandles ==
    ASSUME BetweenVerbs', Same(local_mrs', regions')
    PROVE  AllAsked' /\ Settling'
BY DEF BetweenVerbs, Left0, Carry0, Carry1, Settling, Unanswered, IsCredit, AllAsked, Asked

(* Taking the answer brings the tables together.                            *)
LEMMA TakeHandles ==
    ASSUME SeqInv, state = "Ready", InVerb, AllAsked, Settling, TakeAnswer,
           UNCHANGED <<regions, pending_op>>
    PROVE  AllAsked' /\ Settling'
<1>1. s2c # <<>> /\ IsSeq(s2c) /\ InSequence
    BY DEF TakeAnswer, SeqInv, InVerb, Connected, First, InSequence
<1> DEFINE m == Head(s2c).msg
<1>2. Fits(m)
    BY <1>1 DEF IsSeq, Settling, IsCredit, TakeAnswer
<1>3. local_mrs' = IF Result(m) = "Ok" THEN Landed(m) ELSE local_mrs
    BY DEF TakeAnswer
<1> HIDE DEF m
<1>4. Same(local_mrs', regions)
    <2>1. CASE Grants(m, "MrRegAck")
        BY <1>2, <2>1, <1>1, <1>3 DEF Fits, Grants, Answer, Result, Landed, Handle
    <2>2. CASE Grants(m, "MrDeregAck")
        BY <1>2, <2>2, <1>1, <1>3 DEF Fits, Grants, Answer, Result, Landed
    <2>3. CASE ~Grants(m, "MrRegAck") /\ ~Grants(m, "MrDeregAck")
        <3>1. Same(local_mrs, regions)
            BY <1>2, <2>3 DEF Fits
        <3>2. CASE Result(m) # "Ok"
            BY <1>3, <3>1, <3>2
        <3>3. CASE Result(m) = "Ok" /\ call.verb = "rdma_read"
            <4> DEFINE read == [local_mrs EXCEPT ![call.lkey].local_buf =
                                   Splice(@, call.local_va, m.data)]
            <4>1. Landed(m) = read
                BY <3>3 DEF Landed
            <4>2. Same(read, regions)
                BY ZenonT(30), <3>1, LandKeepsSame
            <4> HIDE DEF read
            <4> QED
                BY <1>3, <3>3, <4>1, <4>2
        <3>4. CASE Result(m) = "Ok" /\ call.verb \in {"reg_mr", "dereg_mr"}
            BY <3>4, <2>3, <1>1, <1>2 DEF Result, Answer, Grants, Fits
        <3>5. CASE call.verb \notin {"reg_mr", "dereg_mr", "rdma_read"}
            BY <1>3, <3>1, <3>5 DEF Landed
        <3> QED
            BY <3>2, <3>3, <3>4, <3>5
    <2> QED
        BY <2>1, <2>2, <2>3
<1> QED
    BY AnswerPaired, <1>4, IdleHandles

(* Taking a credit leaves them as they are.                                 *)
LEMMA CreditHandles ==
    ASSUME IsSeq(s2c), InVerb, AllAsked, Settling, TakeCredit, UNCHANGED regions
    PROVE  AllAsked' /\ Settling'
<1>1. /\ s2c # <<>> /\ s2c' = Tail(s2c) /\ IsCredit(Head(s2c))
      /\ UNCHANGED <<call, c2s, local_mrs>>
    BY SMTT(30) DEF TakeCredit, IsCredit
<1>2. PICK S : s2c \in Seq(S)
    BY DEF IsSeq
<1>3. ASSUME NEW i \in 1 .. Len(s2c'), ~IsCredit(s2c'[i])
      PROVE  Fits(s2c[i].msg)'
    <2>1. i + 1 \in 1 .. Len(s2c) /\ s2c'[i] = s2c[i + 1]
        BY <1>1
    <2>2. Fits(s2c[i + 1].msg)
        BY <1>3, <2>1 DEF Settling
    <2> QED
        BY ZenonT(30), <1>1, <2>1, <2>2 DEF Fits, Handle
<1>4. Unanswered' => Unanswered
    <2>1. Unanswered \/ AnsweredOnce
        BY DEF InVerb
    <2>2. AnsweredOnce => AnsweredOnce'
        BY <1>1, AnswerTaken
    <2> QED
        BY <2>1, <2>2 DEF AnsweredOnce, Unanswered
<1> QED
    BY <1>1, <1>3, <1>4 DEF AllAsked, Asked, Settling, IsCredit

(* The steps of the client keep HandleInv.                                  *)
LEMMA ClientHandles ==
    ASSUME SeqInv, PairInv, HandleInv, ClientStep
    PROVE  HandleInv'
<1>1. /\ UNCHANGED <<state, in_step, pending_op, regions>>
      /\ IsSeq(c2s) /\ IsSeq(s2c) /\ PairInv'
    BY ClientPaired DEF ClientStep, sessionVars, storeVars, SeqInv
<1>2. ASSUME state = "AwaitingConnect"
      PROVE  Same(local_mrs', regions')
    BY <1>2, OnlyConnects, <1>1 DEF PairInv, Connect, HandleInv
<1>3. ASSUME state = "Ready", in_step, phase' # "gone"
      PROVE  AllAsked' /\ Settling'
    <2>1. /\ phase # "gone" => AllAsked /\ Settling
          /\ \/ phase = "gone" \/ Connecting \/ BetweenVerbs
             \/ SendHalf \/ WriteHalf \/ InVerb
        BY <1>3 DEF PairInv, HandleInv
    <2>2. CASE Connect
        BY <2>1, <2>2 DEF Connect, Connecting, BetweenVerbs, SendHalf, WriteHalf, InVerb
    <2>3. CASE Start
        <3>1. phase = "idle"
            <4>1. ASSUME NEW c, Begin(c)
                  PROVE  phase = "idle"
                BY <4>1 DEF Begin
            <4>2. Disconnect \/ \E c : Begin(c)
                BY ZenonT(30), <2>3 DEF Start, RegMr, DeregMr, PostSend, RdmaWrite, RdmaRead,
                   PostAtomic
            <4> QED
                BY <4>1, <4>2 DEF Disconnect
        <3>2. BetweenVerbs /\ AllAsked /\ Settling
            BY <2>1, <3>1 DEF Connecting, SendHalf, WriteHalf, InVerb
        <3>3. PICK f : c2s' = Append(c2s, f) /\ Asked(f.msg)'
            BY <1>3, <2>3, StartAsks
        <3>4. AllAsked'
            BY <1>1, <3>3, <3>2, NoneAsked, AppendAsked DEF BetweenVerbs, Asked
        <3> QED
            BY <3>4, <1>1, <3>2, <1>3, <2>3, StartAsks DEF Settling, BetweenVerbs, Unanswered
    <2>4. CASE LocalStep
        <3>1. phase = "idle" /\ UNCHANGED <<phase, call, c2s, s2c>>
            <4>1. ASSUME NEW max, PollCq(max)
                  PROVE  phase = "idle" /\ UNCHANGED <<phase, call, c2s, s2c>>
                BY <4>1 DEF PollCq, channels
            <4>2. ASSUME NEW l, NEW o, NEW d, WriteLocalMr(l, o, d)
                  PROVE  phase = "idle" /\ UNCHANGED <<phase, call, c2s, s2c>>
                BY <4>2 DEF WriteLocalMr, channels
            <4> QED
                BY <2>4, <4>1, <4>2 DEF LocalStep
        <3>2. BetweenVerbs /\ Same(local_mrs, regions)
            BY <2>1, <3>1 DEF Connecting, BetweenVerbs, SendHalf, WriteHalf, InVerb, Settling
        <3>3. Same(local_mrs', regions)
            <4>1. ASSUME NEW max, PollCq(max)
                  PROVE  Same(local_mrs', regions)
                BY <3>2, <4>1 DEF PollCq
            <4>2. ASSUME NEW l, NEW o, NEW d, WriteLocalMr(l, o, d)
                  PROVE  Same(local_mrs', regions)
                <5>1. local_mrs' = [local_mrs EXCEPT ![l].local_buf = Splice(@, o, d)]
                    BY <4>2 DEF WriteLocalMr
                <5> QED
                    BY ZenonT(30), <3>2, <5>1, LandKeepsSame
            <4> QED
                BY <2>4, <4>1, <4>2 DEF LocalStep
        <3> QED
            BY <1>1, <3>1, <3>2, <3>3, IdleHandles DEF BetweenVerbs, Unanswered, Left0
    <2>5. CASE SendData
        <3>1. AllAsked /\ Settling
            BY <2>1, <2>5 DEF SendData
        <3>2. UNCHANGED <<call, local_mrs, s2c>>
            BY SMTT(30), <1>3, <2>5 DEF SendData, SendFails
        <3>3. PICK f : c2s' = Append(c2s, f) /\ f.msg.op \in {"SendData", "WriteData"}
            BY <1>3, <2>5 DEF SendData, SendFails, Emit
        <3>4. \A i \in 1 .. Len(c2s) : \A m : m = c2s[i].msg => Asked(m)'
            BY <3>1, <3>2 DEF AllAsked, Asked
        <3>5. Settling'
            BY ZenonT(30), <1>1, <3>1, <3>2 DEF Settling, Unanswered, Fits, Handle
        <3> QED
            BY <1>1, <3>3, <3>4, AppendAsked, <3>5 DEF Asked
    <2>6. CASE TakeConnectAck
        <3>1. Connecting /\ AllAsked /\ Settling
            BY <2>1, <2>6 DEF TakeConnectAck, BetweenVerbs, SendHalf, WriteHalf, InVerb
        <3>2. BetweenVerbs'
            BY SMTT(30), <1>1, <2>6, <3>1, AckPaired
        <3>3. Same(local_mrs, regions)
            <4>1. 1 \in 1 .. Len(s2c) /\ s2c[1].msg.op = "ConnectAck"
                BY <3>1 DEF Connecting, Carry1
            <4>2. Fits(s2c[1].msg)
                BY ZenonT(30), <3>1, <4>1 DEF Settling, IsCredit
            <4> QED
                BY <4>1, <4>2 DEF Fits, Grants
        <3>4. UNCHANGED local_mrs
            BY <2>6 DEF TakeConnectAck
        <3> QED
            BY SMTT(30), <1>1, <3>2, <3>3, <3>4, IdleHandles
    <2>7. CASE TakeCredit
        <3>1. InVerb /\ AllAsked /\ Settling
            BY <2>1, <2>7 DEF TakeCredit, Connecting, BetweenVerbs, SendHalf, WriteHalf
        <3> QED
            BY SMTT(30), <1>1, <2>7, <3>1, CreditHandles
    <2>8. CASE TakeAnswer
        BY <1>1, <1>3, <2>8, <2>1, TakeHandles DEF TakeAnswer, Connecting, BetweenVerbs,
           SendHalf, WriteHalf
    <2>9. ~ConnectFails /\ ~AnswerFails
        BY <1>3 DEF ConnectFails, AnswerFails
    <2> QED
        BY <2>2, <2>3, <2>4, <2>5, <2>6, <2>7, <2>8, <2>9 DEF ClientStep, Proceed
<1> QED
    BY ZenonT(30), <1>1, <1>2, <1>3 DEF HandleInv

(* The answer under way, once taken, makes the client's table of handles    *)
(* the mirror of the server's table of regions; with no answer under way    *)
(* the two already agree.                                                   *)
THEOREM HandleInvariant == RdowsSpec => []HandleInv
<1>1. RdowsInit => HandleInv
    BY DEF RdowsInit, SessionInit, StoreInit, ClientInit, Same, HandleInv
<1>2. SeqInv /\ PairInv /\ HandleInv /\ [RdowsNext]_rdowsVars => HandleInv'
    <2>1. ASSUME HandleInv, Lose
          PROVE  HandleInv'
        BY SMTT(30), <2>1 DEF Lose, ConnectionLost, HandleInv
    <2>2. ASSUME HandleInv, UNCHANGED rdowsVars
          PROVE  HandleInv'
        <3>1. UNCHANGED <<state, in_step, phase, call, c2s, s2c, local_mrs, regions>>
            BY <2>2 DEF rdowsVars, vars, storeVars, sessionVars, channels, clientVars
        <3> QED
            BY ZenonT(30), <2>2, <3>1 DEF HandleInv, AllAsked, Asked, Settling, Unanswered,
               Fits, Handle
    <2> QED
        BY <2>1, <2>2, ServeHandles, ClientHandles DEF RdowsNext
<1> QED
    BY PTL, <1>1, <1>2, SeqInvariant, PairInvariant DEF RdowsSpec

(* Between verbs the handles RdowsClient keeps in local_mrs are those of    *)
(* the regions the session's MemoryStore holds, with the same R_Key and     *)
(* length: no registration the server made is unknown to the client and no  *)
(* handle outlives its region, whatever was refused on the way.             *)
THEOREM HandlesAlwaysAgree == RdowsSpec => []HandlesAgree
<1>1. PairInv /\ HandleInv => HandlesAgree
    <2> SUFFICES ASSUME PairInv, HandleInv, Talking, in_step, phase = "idle"
                 PROVE  /\ DOMAIN local_mrs = DOMAIN regions
                        /\ \A l \in DOMAIN regions :
                              /\ local_mrs[l].rkey = regions[l].rkey
                              /\ Len(local_mrs[l].local_buf) = Len(regions[l].data)
        BY DEF HandlesAgree
    <2>1. state = "Ready" /\ Settling
        BY DEF Talking, HandleInv
    <2>2. Unanswered
        BY <2>1 DEF PairInv, Connecting, BetweenVerbs, SendHalf, WriteHalf, InVerb
    <2> QED
        BY ZenonT(30), <2>1, <2>2 DEF Settling, Same
<1> QED
    BY PTL, <1>1, HandleInvariant, PairInvariant
=============================================================================
