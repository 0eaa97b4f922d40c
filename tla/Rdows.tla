------------------------------- MODULE Rdows -------------------------------
(***************************************************************************)
(* A client, a server session and the connection between them.             *)
(***************************************************************************)
EXTENDS Client
LOCAL INSTANCE Folds

CONSTANTS
    Verbs,      \* the operations the application uses
    MaxLag      \* bound: frames under way when a verb is started

\* FALSE once the server has answered one of the client's frames twice over or
\* out of turn: a WRITE refused before its data, a payload or a sequence number
\* refused.  A history variable: nothing reads it but the properties.
VARIABLE in_step

rdowsVars == <<vars, clientVars, in_step>>

RdowsInit == SessionInit /\ ClientInit /\ in_step = TRUE

OutOfTurn ==
    /\ state = "Ready"
    /\ \/ TooLarge
       \/ Incoming.seq # expected_remote_seq
       \/ Msg.op = "Write" /\ ValidateRkey(Msg.rkey, "REMOTE_WRITE") # "Ok"

Serve ==
    /\ ServerStep
    /\ in_step' = (in_step /\ ~OutOfTurn)
    /\ UNCHANGED clientVars

Lose == ConnectionLost /\ UNCHANGED <<clientVars, in_step>>

\* The application starts something.  It names keys it was once given.
Start ==
    \/ /\ "reg_mr" \in Verbs
       /\ next_lkey + Len(SelectSeq(c2s, LAMBDA f : f.msg.op = "MrReg")) <= MaxLKey
       /\ \E acc \in Accesses, len \in Lens : RegMr(acc, len)
    \/ "dereg_mr" \in Verbs /\ \E lkey \in 1 .. next_lkey - 1 : DeregMr(lkey)
    \/ "post_send" \in Verbs /\ \E sg_list \in SgLists : PostSend(sg_list)
    \/ /\ "rdma_write" \in Verbs
       /\ \E rkey \in used_rkeys, va \in Offsets, sg_list \in SgLists :
             RdmaWrite(rkey, va, sg_list)
    \/ /\ "rdma_read" \in Verbs
       /\ \E rkey \in used_rkeys, va \in Offsets, len \in Lens,
             lkey \in 1 .. next_lkey - 1, local_va \in Offsets :
             RdmaRead(rkey, va, len, lkey, local_va)
    \/ /\ "post_atomic" \in Verbs
       /\ \E rkey \in used_rkeys, va \in Offsets, op1 \in Operands :
             \/ \E op2 \in Operands : PostAtomic(rkey, va, "CAS", op1, op2)
             \/ PostAtomic(rkey, va, "FAA", op1, 0)
    \/ "disconnect" \in Verbs /\ Disconnect

LocalStep ==
    \/ "poll_cq" \in Verbs /\ \E max \in 1 .. CqCapacity : PollCq(max)
    \/ /\ "write_local_mr" \in Verbs
       /\ \E lkey \in DOMAIN local_mrs, w \in LocalWrites :
             WriteLocalMr(lkey, w.offset, w.data)

\* The client's task goes on with what it has begun.
Proceed == SendData \/ TakeConnectAck \/ ConnectFails \/ TakeCredit \/ TakeAnswer \/ AnswerFails

ClientStep ==
    /\ \/ Connect
       \/ Len(c2s) + Len(s2c) <= MaxLag /\ Start
       \/ LocalStep
       \/ Proceed
    /\ UNCHANGED <<storeVars, sessionVars, in_step>>

RdowsNext == Serve \/ Lose \/ ClientStep

RdowsSpec == RdowsInit /\ [][RdowsNext]_rdowsVars

(* Both ends are tasks of a fair scheduler: the server goes on taking       *)
(* messages, the client goes on with the verb it is in.  Nothing obliges    *)
(* the application to start one, or the connection to fail.                 *)
Fairness ==
    /\ WF_rdowsVars(Serve)
    /\ WF_rdowsVars(Proceed /\ UNCHANGED <<storeVars, sessionVars, in_step>>)

FairSpec == RdowsSpec /\ Fairness
-----------------------------------------------------------------------------
\* The client's fields hold what their types say.
ClientTypeOK ==
    /\ phase \in {"start", "connecting", "idle", "data", "recv", "gone"}
    /\ call.verb \in WorkRequests \cup {"reg_mr", "dereg_mr", "none"}
    /\ c_next_seq \in Seqs /\ c_expected \in Seqs
    /\ send_credits \in Nat
    /\ Len(cq) <= CqCapacity
    /\ \A l \in DOMAIN local_mrs :
          l \in 1 .. MaxLKey /\ local_mrs[l].local_buf \in Seq(Cell)
    /\ in_step \in BOOLEAN

Talking == phase \in {"idle", "data", "recv"} /\ state = "Ready"

Under(op) == Len(SelectSeq(s2c, LAMBDA f : f.msg.op = op))

\* Credits in CREDIT_UPDATEs on their way to the client.
CreditsIn(frames) ==
    LET Credits(i) == frames[i].msg.credit_increment
    IN  MapThenFoldSet(LAMBDA m, n : m + n, 0, Credits, Least,
                       {i \in DOMAIN frames : frames[i].msg.op = "CreditUpdate"})

\* No credit is lost and none is made up: what the client holds, what is on its
\* way to it and what the server owes it come to ICC, and to one more for every
\* completion on its way, as the client pays for a SEND when it takes that.
CreditsConserved ==
    Talking /\ in_step =>
        send_credits + CreditsIn(s2c) + sends_since_last_credit = ICC + Under("RecvComp")

\* Both ends agree on the sequence numbers of every frame under way, so neither
\* ever reports a gap: also across the wrap to 0, and after refused requests.
SequencesAgree ==
    Talking =>
        /\ s2c # <<>> => Head(s2c).seq = c_expected
        /\ s2c = <<>> => next_seq = c_expected
        /\ in_step /\ c2s # <<>> => Head(c2s).seq = expected_remote_seq
        /\ in_step /\ c2s = <<>> => c_next_seq = expected_remote_seq

\* When a verb has returned nothing that belongs to it can still arrive: an
\* answer left over would be taken for the answer to the next verb.  Only the
\* data of a SEND refused with ERR_RNR may be under way, to be discarded.
AnswersPaired ==
    Talking /\ in_step /\ phase = "idle" =>
        /\ \A i \in DOMAIN s2c : s2c[i].msg.op = "CreditUpdate"
        /\ \A i \in DOMAIN c2s : c2s[i].msg.op = "SendData" /\ pending_op = Discarding

\* Between verbs the client holds a handle for exactly the regions the server
\* holds for it, with the same R_Key and length.
HandlesAgree ==
    Talking /\ in_step /\ phase = "idle" =>
        /\ DOMAIN local_mrs = DOMAIN regions
        /\ \A l \in DOMAIN regions :
              /\ local_mrs[l].rkey = regions[l].rkey
              /\ Len(local_mrs[l].local_buf) = Len(regions[l].data)

\* A posted work request finds room for its completion: push, whose result is
\* ignored, never drops one.
NoCompletionDropped ==
    call.verb \in WorkRequests => Len(cq) < CqCapacity

(* What success of a verb means, at the moment it returns.                  *)
Holds(rkey, va, data) ==
    /\ rkey \in DOMAIN rkey_to_lkey
    /\ va + Len(data) <= Len(Target(rkey).data)
    /\ ReadRegion(rkey, va, Len(data)) = data

Written == Holds(call.rkey, call.remote_va, call.data)

Done(m) ==
    CASE call.verb = "reg_mr" ->
            /\ m.lkey \in DOMAIN regions
            /\ regions[m.lkey].rkey = m.rkey
            /\ regions[m.lkey].data = Zeroes(call.region_len)
            /\ regions[m.lkey].access_flags = call.access_flags
      [] call.verb = "dereg_mr" -> call.lkey \notin DOMAIN regions
      [] call.verb = "post_send" -> m.wrid = call.wrid
      [] call.verb = "rdma_write" -> Written
      [] call.verb = "rdma_read" ->
            /\ Len(m.data) = call.read_len
            /\ Holds(call.rkey, call.remote_va,
                     SubSeq(local_mrs'[call.lkey].local_buf,
                            call.local_va + 1, call.local_va + call.read_len))
      [] call.verb = "post_atomic" ->
            /\ call.rkey \in DOMAIN rkey_to_lkey
            /\ Original(call.rkey, call.remote_va)
               = NewValue(m.original, call.atomic_type, call.operand1, call.operand2)

\* The client takes an answer that makes its verb return Ok.
Succeeds ==
    /\ phase = "recv" /\ phase' = "idle"
    /\ s2c # <<>> /\ Result(Head(s2c).msg) = "Ok"

\* A verb that returns Ok has been carried out: the data lies in the remote
\* region, the local buffer holds what the remote region holds, the word was
\* replaced, the region is there or gone.
OkMeansDone == [][in_step /\ Succeeds => Done(Head(s2c).msg)]_rdowsVars

\* "the operation completes when the data has been written into the Responder's
\* registered MR": rdma_write returns Ok only then, whatever went before.
WriteCompletesWhenWritten ==
    [][Succeeds /\ call.verb = "rdma_write" => Written]_rdowsVars

\* "send ERROR with ERR_SEQ_GAP and close".
SequenceGapCloses ==
    [][(\E m \in Sent : m.op = "Error" /\ m.status = "ErrSeqGap") => state' = "Closed"]_rdowsVars

\* Every verb returns, whatever the server makes of it: refusals, discarded data
\* and lost connections included.
VerbsReturn == phase \in {"data", "recv", "connecting"} ~> phase \in {"idle", "gone"}
=============================================================================
