---------------------------- MODULE RdowsProofs -----------------------------
(***************************************************************************)
(* A client and its session, for every value of the constants: sequence    *)
(* numbers agree at both ends for ever, whatever SeqSpace is, and no       *)
(* completion is dropped.                                                  *)
(***************************************************************************)
EXTENDS Rdows, TLAPS

(* Sequence numbers: both channels are in order.                            *)

(* q is a sequence, whatever it holds.                                      *)
IsSeq(q) == \E S : q \in Seq(S)

(* The frames of q have consecutive numbers, and n comes next.              *)
Chained(q, n) ==
    \A i \in 1 .. Len(q) : Succ(q[i].seq) = IF i < Len(q) THEN q[i + 1].seq ELSE n

(* The number the receiver of q finds next.                                 *)
First(q, n) == IF q = <<>> THEN n ELSE Head(q).seq

Connected == phase \in {"idle", "data", "recv"}

SeqInv ==
    /\ IsSeq(c2s) /\ IsSeq(s2c) /\ next_seq \in Seqs
    /\ state # "Closed" =>
          /\ Chained(c2s, c_next_seq) /\ Chained(s2c, next_seq)
          /\ Connected => First(s2c, next_seq) = c_expected
    /\ state = "Ready" /\ in_step => First(c2s, c_next_seq) = expected_remote_seq
-----------------------------------------------------------------------------
(* A sequence of length zero is empty.                                      *)
LEMMA NoneLeft ==
    ASSUME NEW S, NEW s \in Seq(S), Len(s) = 0
    PROVE  s = <<>>
OBVIOUS
-----------------------------------------------------------------------------
(* Taking the first frame leaves a chain, and the next number first.        *)
LEMMA TailChained ==
    ASSUME NEW q, IsSeq(q), NEW n, q # <<>>
    PROVE  /\ IsSeq(Tail(q))
           /\ Chained(q, n) => /\ Chained(Tail(q), n)
                               /\ First(Tail(q), n) = Succ(Head(q).seq)
<1>1. PICK S : q \in Seq(S)
    BY DEF IsSeq
<1>2. ASSUME Chained(q, n)
      PROVE  Chained(Tail(q), n)
    BY <1>2 DEF Chained
<1>3. ASSUME Chained(q, n)
      PROVE  First(Tail(q), n) = Succ(Head(q).seq)
    <2>1. CASE Tail(q) = <<>>
        <3>1. ~(1 < Len(q))
            <4>1. Len(q) \in Nat
                OBVIOUS
            <4>2. PICK k \in Nat : k = Len(q)
                BY <4>1
            <4>3. k - 1 = 0
                BY SMTT(30), <2>1, <4>2
            <4>4. ~(1 < k)
                BY <4>3
            <4> QED
                BY <4>2, <4>4
        <3> QED
            BY <1>3, <3>1 DEF First, Chained
    <2>2. CASE Tail(q) # <<>>
        BY <1>3, <2>2 DEF First, Chained
    <2> QED
        BY <2>1, <2>2
<1> QED
    BY <1>2, <1>3 DEF IsSeq

(* Sending a frame with the next number keeps the chain and its start.      *)
LEMMA AppendChained ==
    ASSUME NEW q, IsSeq(q), NEW n, NEW f, f.seq = n
    PROVE  /\ IsSeq(Append(q, f))
           /\ Chained(q, n) => Chained(Append(q, f), Succ(n))
           /\ First(Append(q, f), Succ(n)) = First(q, n)
<1>1. PICK S : q \in Seq(S)
    BY DEF IsSeq
<1> DEFINE p == Append(q, f)
           T == S \cup {f}
<1>2. /\ p \in Seq(T) /\ Len(p) = Len(q) + 1 /\ Len(q) \in Nat
      /\ p[Len(q) + 1] = f /\ \A i \in 1 .. Len(q) : p[i] = q[i]
    BY <1>1
<1> HIDE DEF p, T
<1>3. ASSUME Chained(q, n)
      PROVE  Chained(p, Succ(n))
    <2>1. ASSUME NEW i \in 1 .. Len(p)
          PROVE  Succ(p[i].seq) = IF i < Len(p) THEN p[i + 1].seq ELSE Succ(n)
        <3>1. CASE i = Len(q)
            BY <1>2, <3>1, <1>3 DEF Chained
        <3>2. CASE i < Len(q)
            BY <1>2, <3>2, <1>3 DEF Chained
        <3> QED
            BY <1>2, <3>1, <3>2
    <2> QED
        BY <2>1 DEF Chained
<1>4. First(p, Succ(n)) = First(q, n)
    BY <1>2 DEF First
<1> QED
    BY <1>3, <1>4, <1>2 DEF p, IsSeq
-----------------------------------------------------------------------------
(* Counting replies.                                                        *)
LEMMA SuccFacts ==
    ASSUME NEW n \in Seqs
    PROVE  /\ Succ(n) \in Seqs
           /\ (n + 1 - 1) % SeqSpace = n
           /\ (n + 2 - 1) % SeqSpace = Succ(n)
           /\ (n + 2) % SeqSpace = Succ(Succ(n))
BY SessionAssumption DEF Seqs, Succ

(* What a step makes of the channel to the client, whatever it replies.     *)
Extended ==
    /\ IsSeq(s2c') /\ next_seq' \in Seqs
    /\ Chained(s2c, next_seq) => Chained(s2c', next_seq')
    /\ First(s2c', next_seq') = First(s2c, next_seq)

(* Replies go to the end of the channel, numbered in turn.                  *)
LEMMA ReplyOne ==
    ASSUME IsSeq(s2c), next_seq \in Seqs, NEW m, Reply(<<m>>)
    PROVE  /\ s2c' = Append(s2c, [seq |-> next_seq, msg |-> m])
           /\ next_seq' = Succ(next_seq)
<1> DEFINE f == [seq |-> next_seq, msg |-> m]
<1>1. [i \in 1 .. 1 |-> [seq |-> (next_seq + i - 1) % SeqSpace, msg |-> <<m>>[i]]] = <<f>>
    BY SuccFacts
<1>2. PICK S : s2c \in Seq(S)
    BY DEF IsSeq
<1>3. s2c' = Append(s2c, f)
    <2> HIDE DEF f
    <2> QED
        BY <1>1 DEF Reply
<1> QED
    BY <1>3 DEF Reply, Succ

(* One answer extends the channel by one frame with the next number.        *)
LEMMA OneReply ==
    ASSUME IsSeq(s2c), next_seq \in Seqs, NEW m, Reply(<<m>>)
    PROVE  Extended
<1> DEFINE f == [seq |-> next_seq, msg |-> m]
<1>1. s2c' = Append(s2c, f) /\ next_seq' = Succ(next_seq)
    BY ReplyOne
<1>2. f.seq = next_seq /\ Succ(next_seq) \in Seqs
    BY SuccFacts
<1> HIDE DEF f
<1> QED
    BY <1>1, <1>2, AppendChained DEF Extended

(* Two answers, as READ_RESP and READ_DATA, take two numbers in a row.      *)
LEMMA ReplyTwo ==
    ASSUME IsSeq(s2c), next_seq \in Seqs, NEW m, NEW k, Reply(<<m, k>>)
    PROVE  /\ s2c' = Append(Append(s2c, [seq |-> next_seq, msg |-> m]),
                         [seq |-> Succ(next_seq), msg |-> k])
           /\ next_seq' = Succ(Succ(next_seq)) /\ next_seq' \in Seqs
<1> DEFINE f == [seq |-> next_seq, msg |-> m]
           g == [seq |-> Succ(next_seq), msg |-> k]
<1>1. [i \in 1 .. 2 |-> [seq |-> (next_seq + i - 1) % SeqSpace, msg |-> <<m, k>>[i]]]
      = <<f, g>>
    BY SuccFacts
<1>2. next_seq' = Succ(Succ(next_seq)) /\ next_seq' \in Seqs
    BY SuccFacts DEF Reply
<1>3. PICK S : s2c \in Seq(S)
    BY DEF IsSeq
<1> HIDE DEF f, g
<1> DEFINE T == S \cup {f, g}
<1>4. s2c' = Append(Append(s2c, f), g)
    <2> HIDE DEF T
    <2> QED
        BY <1>1 DEF Reply
<1> QED
    BY <1>2, <1>4 DEF f, g

(* Two answers extend the channel in order, too.                            *)
LEMMA TwoReplies ==
    ASSUME IsSeq(s2c), next_seq \in Seqs, NEW m, NEW k, Reply(<<m, k>>)
    PROVE  Extended
<1> DEFINE f == [seq |-> next_seq, msg |-> m]
           g == [seq |-> Succ(next_seq), msg |-> k]
<1>1. s2c' = Append(Append(s2c, f), g)
    BY ReplyTwo
<1>2. next_seq' = Succ(Succ(next_seq)) /\ next_seq' \in Seqs
    BY ZenonT(30), ReplyTwo
<1>3. f.seq = next_seq /\ g.seq = Succ(next_seq)
    OBVIOUS
<1> HIDE DEF f, g
<1> QED
    BY <1>1, <1>2, <1>3, AppendChained DEF Extended

(* A step that answers nothing extends the channel by nothing.              *)
LEMMA NoReply ==
    ASSUME IsSeq(s2c), next_seq \in Seqs, Silent
    PROVE  Extended
BY DEF Silent, Extended
-----------------------------------------------------------------------------
(* The server takes a frame.  Whatever its answer, the channel to the       *)
(* client is extended; the number it expects next moves on exactly when it  *)
(* has accepted the frame's own.                                            *)
LEMMA DispatchReplies ==
    ASSUME IsSeq(s2c), next_seq \in Seqs, Dispatch
    PROVE  Extended
<1>1. CASE HandleMrReg
    BY ZenonT(30), <1>1, OneReply, NoReply DEF HandleMrReg
<1>2. CASE HandleMrDereg
    BY <1>2, OneReply DEF HandleMrDereg
<1>3. CASE HandleSend
    BY <1>3, OneReply, NoReply DEF HandleSend
<1>4. CASE HandleSendData
    BY <1>4, OneReply, TwoReplies, NoReply DEF HandleSendData, CompleteSend
<1>5. CASE HandleWrite
    BY <1>5, OneReply, NoReply DEF HandleWrite
<1>6. CASE HandleWriteData
    BY <1>6, OneReply DEF HandleWriteData
<1>7. CASE HandleReadReq
    BY <1>7, OneReply DEF HandleReadReq
<1>8. CASE HandleAtomicReq
    BY <1>8, OneReply DEF HandleAtomicReq
<1>9. CASE HandleDisconnect \/ Ignore
    BY <1>9, NoReply DEF HandleDisconnect, Ignore
<1>10. CASE HandleOther
    BY <1>10, OneReply DEF HandleOther
<1> QED
    BY <1>1, <1>2, <1>3, <1>4, <1>5, <1>6, <1>7, <1>8, <1>9, <1>10 DEF Dispatch

(* Whatever the session does, its channel stays in order.                   *)
LEMMA StepReplies ==
    ASSUME IsSeq(s2c), next_seq \in Seqs, ServerStep
    PROVE  Extended
BY OneReply, NoReply, DispatchReplies DEF HandleConnect, RefusePayload, RefuseSequence,
   HandleReady, ServerStep

(* A step of the session takes one frame and expects the number after it,   *)
(* unless it refused the frame.                                             *)
LEMMA StepExpects ==
    ASSUME ServerStep
    PROVE  /\ state # "Closed" /\ c2s # <<>> /\ c2s' = Tail(c2s)
           /\ state' = "Ready" =>
                 \/ expected_remote_seq' = Succ(Head(c2s).seq)
                 \/ OutOfTurn
BY DEF HandleConnect, Taken, Incoming, RefusePayload, OutOfTurn, RefuseSequence, HandleReady,
   ServerStep

(* The steps of the session keep SeqInv.                                    *)
LEMMA ServeSeq ==
    ASSUME SeqInv, Serve
    PROVE  SeqInv'
<1>1. /\ state # "Closed" /\ c2s # <<>> /\ c2s' = Tail(c2s)
      /\ state' = "Ready" => \/ expected_remote_seq' = Succ(Head(c2s).seq)
                             \/ OutOfTurn
    BY StepExpects DEF Serve
<1>2. UNCHANGED <<phase, c_next_seq, c_expected>> /\ in_step' = (in_step /\ ~OutOfTurn)
    BY DEF Serve, clientVars
<1>3. /\ IsSeq(c2s') /\ Chained(c2s', c_next_seq')
      /\ First(c2s', c_next_seq') = Succ(Head(c2s).seq)
    BY <1>1, <1>2, TailChained DEF SeqInv
<1>4. state' = "Ready" /\ in_step' => First(c2s', c_next_seq') = expected_remote_seq'
    BY ZenonT(30), <1>1, <1>2, <1>3
<1> QED
    BY <1>3, StepReplies, <1>1, <1>2, <1>4 DEF SeqInv, Extended, Serve, Connected

(* A lost connection keeps SeqInv.                                          *)
LEMMA LoseSeq ==
    ASSUME SeqInv, Lose
    PROVE  SeqInv'
<1>1. PICK S : s2c \in Seq(S)
    BY DEF SeqInv, IsSeq
<1>2. PICK n \in 0 .. Len(s2c) : s2c' = SubSeq(s2c, 1, n)
    BY DEF Lose, ConnectionLost
<1>3. s2c' \in Seq(S)
    BY <1>1, <1>2
<1>4. IsSeq(s2c') /\ IsSeq(c2s') /\ next_seq' \in Seqs /\ state' = "Closed"
    BY ZenonT(30), <1>3 DEF SeqInv, IsSeq, Lose, ConnectionLost
<1> QED
    BY <1>4 DEF SeqInv
-----------------------------------------------------------------------------
(* The client's steps, by what they do to the channels.                     *)
Emits ==
    /\ \E f : f.seq = c_next_seq /\ c2s' = Append(c2s, f)
    /\ c_next_seq' = Succ(c_next_seq)
    /\ UNCHANGED <<s2c, c_expected>>
    /\ Connected' => Connected

Takes ==
    /\ s2c # <<>> /\ s2c' = Tail(s2c)
    /\ UNCHANGED <<c2s, c_next_seq>>
    /\ Connected' => \/ ~Connected /\ c_expected' = Succ(Head(s2c).seq)
                     \/ Connected /\ (Head(s2c).seq = c_expected =>
                                         c_expected' = Succ(c_expected))

Quiet ==
    /\ UNCHANGED <<channels, c_expected>>
    /\ Connected' => Connected
    /\ state = "Closed" \/ UNCHANGED <<phase, c_next_seq>>

(* A verb that begins sends one frame or none.                              *)
LEMMA BeginKind ==
    ASSUME NEW c, Begin(c)
    PROVE  Emits \/ Quiet
BY DEF Begin, SendFails, Quiet, channels, Connected, Emit, Emits

(* disconnect sends one frame or none.                                      *)
LEMMA DisconnectKind ==
    ASSUME Disconnect
    PROVE  Emits \/ Quiet
BY DEF Disconnect, Emit, Emits, Connected, Quiet, channels

(* Whatever the application starts sends one frame or none.                 *)
LEMMA StartKind ==
    ASSUME Start
    PROVE  Emits \/ Quiet
<1>1. Disconnect \/ \E c : Begin(c)
    BY ZenonT(30) DEF Start, RegMr, DeregMr, PostSend, RdmaWrite, RdmaRead, PostAtomic
<1> QED
    BY <1>1, BeginKind, DisconnectKind

(* Polling and local memory access leave the connection alone.              *)
LEMMA LocalKind ==
    ASSUME LocalStep
    PROVE  Quiet
<1>1. ASSUME NEW max, PollCq(max)
      PROVE  Quiet
    BY <1>1 DEF PollCq, Quiet, Connected
<1>2. ASSUME NEW l, NEW o, NEW d, WriteLocalMr(l, o, d)
      PROVE  Quiet
    BY <1>2 DEF WriteLocalMr, Quiet, Connected
<1> QED
    BY <1>1, <1>2 DEF LocalStep

(* A verb under way sends a frame, takes one or does neither.               *)
LEMMA ProceedKind ==
    ASSUME Proceed
    PROVE  Emits \/ Quiet \/ Takes
<1>1. CASE SendData
    BY <1>1 DEF SendData, SendFails, Quiet, channels, Connected, Emit, Emits
<1>2. CASE TakeConnectAck
    BY <1>2 DEF TakeConnectAck, Takes, Connected
<1>3. CASE ConnectFails
    BY <1>3 DEF ConnectFails, Quiet, Connected
<1>4. CASE TakeCredit
    BY <1>4 DEF TakeCredit, Takes, Connected
<1>5. CASE TakeAnswer
    BY <1>5 DEF TakeAnswer, Takes, Connected, InSequence
<1>6. CASE AnswerFails
    BY <1>6 DEF AnswerFails, Quiet, Connected
<1> QED
    BY <1>1, <1>2, <1>3, <1>4, <1>5, <1>6 DEF Proceed

(* So does every step of the client.                                        *)
LEMMA ClientKind ==
    ASSUME ClientStep
    PROVE  Emits \/ Quiet \/ Takes
BY StartKind, LocalKind, ProceedKind DEF Connect, Emit, Emits, Connected, ClientStep

(* The steps of the client keep SeqInv.                                     *)
LEMMA ClientSeq ==
    ASSUME SeqInv, ClientStep
    PROVE  SeqInv'
<1>1. UNCHANGED <<state, next_seq, expected_remote_seq, in_step>>
    BY DEF ClientStep, sessionVars
<1>2. IsSeq(c2s) /\ IsSeq(s2c) /\ next_seq \in Seqs
    BY DEF SeqInv
<1>3. CASE Emits
    <2>1. PICK f : f.seq = c_next_seq /\ c2s' = Append(c2s, f)
        BY <1>3 DEF Emits
    <2> QED
        BY <1>1, <1>2, <1>3, AppendChained DEF SeqInv, Emits
<1>4. CASE Quiet
    BY <1>1, <1>4 DEF Quiet, SeqInv, channels, Connected
<1>5. CASE Takes
    <2>1. s2c # <<>> /\ s2c' = Tail(s2c) /\ UNCHANGED <<c2s, c_next_seq>>
        BY <1>5 DEF Takes
    <2>2. /\ IsSeq(s2c')
          /\ Chained(s2c, next_seq) =>
                /\ Chained(s2c', next_seq')
                /\ First(s2c', next_seq') = Succ(Head(s2c).seq)
        BY ZenonT(30), <1>1, <1>2, <2>1, TailChained
    <2> QED
        BY <1>1, <2>1, <2>2, <1>5 DEF SeqInv, Takes, First
<1> QED
    BY ClientKind, <1>3, <1>4, <1>5

(* Sequence numbers agree, inductively.                                     *)
THEOREM SeqInvariant == RdowsSpec => []SeqInv
<1>1. RdowsInit => SeqInv
    BY SessionAssumption DEF RdowsInit, SessionInit, ClientInit, Chained, SeqInv, Connected,
       Seqs, IsSeq
<1>2. SeqInv /\ [RdowsNext]_rdowsVars => SeqInv'
    BY ServeSeq, LoseSeq, ClientSeq DEF rdowsVars, vars, sessionVars, channels, clientVars,
       SeqInv, Connected, RdowsNext
<1> QED
    BY PTL, <1>1, <1>2 DEF RdowsSpec

(* Both ends agree on the sequence number of every frame under way, so      *)
(* neither connection::recv_message nor handle_message reports a gap that   *)
(* is not there: for any number space, across any number of wraps.          *)
THEOREM SequencesAlwaysAgree == RdowsSpec => []SequencesAgree
<1>1. SeqInv => SequencesAgree
    BY DEF SeqInv, SequencesAgree, Talking, Connected, First
<1> QED
    BY PTL, <1>1, SeqInvariant
-----------------------------------------------------------------------------
(* Completions: a call is kept only while its verb is under way, so polling *)
(* never runs beside one, and the room a verb has found is still there when *)
(* it returns.                                                              *)
CqInv ==
    /\ phase \notin {"data", "recv"} => call = NoCall
    /\ IsSeq(cq)
    /\ Len(cq) <= CqCapacity
    /\ NoCompletionDropped

(* A verb that has returned needs no room in the queue.                     *)
LEMMA ReturnFinds ==
    ASSUME Return
    PROVE  (phase \notin {"data", "recv"} => call = NoCall)' /\ NoCompletionDropped'
BY DEF Return, NoCall, NoCompletionDropped, WorkRequests

(* A verb is posted only while the queue has room.                          *)
LEMMA BeginFinds ==
    ASSUME CqInv, NEW c, "verb" \in DOMAIN c, Begin(c)
    PROVE  CqInv'
<1>1. CASE SendFails
    BY <1>1, ReturnFinds DEF SendFails, CqInv, Begin, Refusal
<1>2. CASE call' = Begun(c) /\ phase' \in {"data", "recv"}
    <2>1. PICK S : cq \in Seq(S)
        BY DEF CqInv, IsSeq
    <2> QED
        BY <1>2, ClientAssumption DEF CqInv, NoCompletionDropped, Begun, CqFull, Begin,
           Refusal
<1> QED
    BY <1>1, <1>2 DEF Begin

(* Whatever the application starts keeps CqInv.                             *)
LEMMA StartFinds ==
    ASSUME CqInv, Start
    PROVE  CqInv'
<1>1. CASE Disconnect
    BY <1>1 DEF Disconnect, CqInv, NoCompletionDropped
<1>2. ASSUME NEW acc, NEW len, RegMr(acc, len)
      PROVE  CqInv'
    BY SMTT(30), <1>2, BeginFinds DEF RegMr
<1>3. ASSUME NEW l, DeregMr(l)
      PROVE  CqInv'
    BY <1>3, BeginFinds DEF DeregMr
<1>4. ASSUME NEW sg, PostSend(sg)
      PROVE  CqInv'
    BY <1>4, BeginFinds DEF PostSend
<1>5. ASSUME NEW k, NEW va, NEW sg, RdmaWrite(k, va, sg)
      PROVE  CqInv'
    BY <1>5, BeginFinds DEF RdmaWrite
<1>6. ASSUME NEW k, NEW va, NEW len, NEW l, NEW lva, RdmaRead(k, va, len, l, lva)
      PROVE  CqInv'
    BY <1>6, BeginFinds DEF RdmaRead
<1>7. ASSUME NEW k, NEW va, NEW t, NEW op1, NEW op2, PostAtomic(k, va, t, op1, op2)
      PROVE  CqInv'
    BY <1>7, BeginFinds DEF PostAtomic
<1> QED
    BY <1>1, <1>2, <1>3, <1>4, <1>5, <1>6, <1>7 DEF Start

(* Polling only makes room.                                                 *)
LEMMA PollFinds ==
    ASSUME CqInv, NEW max \in 1 .. CqCapacity, PollCq(max)
    PROVE  CqInv'
<1>1. PICK S : cq \in Seq(S)
    BY DEF CqInv, IsSeq
<1>2. PICK n \in 1 .. Len(cq) + 1 : cq' = SubSeq(cq, n, Len(cq))
    <2> DEFINE k == IF max < Len(cq) THEN max ELSE Len(cq)
    <2>1. k + 1 \in 1 .. Len(cq) + 1
        OBVIOUS
    <2>2. cq' = SubSeq(cq, k + 1, Len(cq))
        BY DEF PollCq
    <2> QED
        BY Zenon, <2>1, <2>2
<1>3. cq' \in Seq(S) /\ Len(cq') <= Len(cq)
    BY <1>1, <1>2
<1>4. phase' = "idle" /\ call' = NoCall
    BY DEF PollCq, CqInv
<1> QED
    BY ClientAssumption, <1>3, <1>4 DEF CqInv, NoCompletionDropped, NoCall, WorkRequests,
       IsSeq

(* An answer pushes its completion into the room kept for it.               *)
LEMMA AnswerFinds ==
    ASSUME CqInv, TakeAnswer
    PROVE  CqInv'
<1>1. PICK S : cq \in Seq(S)
    BY DEF CqInv, IsSeq
<1>2. PICK b : cq' = cq \/ (~CqFull /\ cq' = Append(cq, b))
    BY SMTT(30) DEF TakeAnswer, Push
<1>3. IsSeq(cq') /\ Len(cq') <= CqCapacity
    <2>1. CASE cq' = cq
        BY <2>1 DEF CqInv
    <2>2. CASE ~CqFull /\ cq' = Append(cq, b)
        <3>1. cq' \in Seq(S \cup {b}) /\ Len(cq') = Len(cq) + 1 /\ Len(cq) \in Nat
            BY <2>2, <1>1
        <3> QED
            BY <3>1, <2>2, ClientAssumption DEF IsSeq, CqFull
    <2> QED
        BY <1>2, <2>1, <2>2
<1> QED
    BY <1>3, ReturnFinds DEF CqInv, TakeAnswer

(* A verb under way keeps CqInv.                                            *)
LEMMA ProceedFinds ==
    ASSUME CqInv, Proceed
    PROVE  CqInv'
BY ReturnFinds, AnswerFinds DEF SendData, SendFails, CqInv, NoCompletionDropped,
   TakeConnectAck, ConnectFails, TakeCredit, AnswerFails, Proceed

(* The steps of the client keep CqInv.                                      *)
LEMMA ClientFinds ==
    ASSUME CqInv, ClientStep
    PROVE  CqInv'
<1>1. CASE Connect
    BY <1>1 DEF Connect, CqInv, NoCompletionDropped
<1>2. CASE LocalStep
    <2>1. ASSUME NEW l, NEW o, NEW d, WriteLocalMr(l, o, d)
          PROVE  CqInv'
        BY <2>1 DEF WriteLocalMr, CqInv, NoCompletionDropped
    <2> QED
        BY <1>2, <2>1, PollFinds DEF LocalStep
<1> QED
    BY <1>1, <1>2, StartFinds, ProceedFinds DEF ClientStep

(* The room for completions, inductively.                                   *)
LEMMA CqInvariant == RdowsSpec => []CqInv
<1>1. RdowsInit => CqInv
    BY ClientAssumption DEF RdowsInit, ClientInit, IsSeq, CqInv, NoCompletionDropped, NoCall,
       WorkRequests
<1>2. CqInv /\ [RdowsNext]_rdowsVars => CqInv'
    BY ClientFinds DEF clientVars, CqInv, NoCompletionDropped, Serve, Lose, rdowsVars,
       RdowsNext
<1> QED
    BY PTL, <1>1, <1>2 DEF RdowsSpec

(* A posted work request finds room for its completion, whatever the        *)
(* capacity of the queue and the order of posting and polling: the result   *)
(* of push, which every caller ignores, is always TRUE.                     *)
THEOREM NoCompletionEverDropped == RdowsSpec => []NoCompletionDropped
<1>1. CqInv => NoCompletionDropped
    BY DEF CqInv
<1> QED
    BY PTL, <1>1, CqInvariant
=============================================================================
