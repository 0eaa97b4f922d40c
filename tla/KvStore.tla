------------------------------ MODULE KvStore ------------------------------
(***************************************************************************)
(* The key-value service of crates/rdows-kv: axum handlers (api.rs) that   *)
(* share one KvStore (kv.rs) behind a tokio Mutex.  The store keeps an     *)
(* open-addressing hash table in one remote memory region, and searches it *)
(* with one RDMA read per probed slot over one connection.                 *)
(*                                                                         *)
(* The connection is what the module Rdows shows of it: the server takes   *)
(* requests in order and each is answered once, so a request takes effect  *)
(* when it is sent and its response joins a queue that the next receive    *)
(* takes from.  A receive checks the kind of the response and not which    *)
(* request it belongs to.                                                  *)
(*                                                                         *)
(* A definition named Bad... is a plausible fault of the one after it; no  *)
(* specification refers to it.                                             *)
(***************************************************************************)
EXTENDS Integers, FiniteSets, Sequences

CONSTANTS
    Handlers,           \* HTTP requests that may be in progress at once
    Requests,           \* [op, key, value] records a handler may be called with
    Hash,               \* key -> slot, what hash_key computes
    SLOT_COUNT,
    MAX_KEY_LEN,
    MAX_VALUE_LEN,
    MaxUnread           \* bound: a handler is dropped at a response only while
                        \* fewer responses are unread (0: never)

KeyOps == {"put", "get", "delete"}

Keys == {r.key : r \in {q \in Requests : q.op \in KeyOps}}

Slots == 0 .. SLOT_COUNT - 1

\* Keys and values are sequences of symbols; a symbol, like a length, is one
\* cell of a slot.
ASSUME KvAssumption ==
    /\ SLOT_COUNT \in Nat \ {0}
    /\ MAX_KEY_LEN \in Nat /\ MAX_VALUE_LEN \in Nat
    /\ \A r \in Requests :
          /\ r.op \in KeyOps \cup {"slots", "stats"}
          /\ r.key \in Seq(Nat) /\ r.value \in Seq(Nat)
    /\ Hash \in [Keys -> Slots]
    /\ MaxUnread \in Nat

VARIABLES
    table,      \* the remote region: slot -> its cells
    responses,  \* responses of the server that the connection has not read
    connected,
    queue,      \* the handlers at the mutex in order; the first holds it
    task,       \* handler -> [st, req, ans]
    probe,      \* the holder's loop counter i or idx
    slots,      \* what dump_slots has collected
    waiting     \* what the holder awaits: no response, a slot, or the end of
                \* a write, named by the answer that follows it

kvVars == <<table, responses, connected, queue, task, probe, slots, waiting>>

-----------------------------------------------------------------------------
(* Slots: status, key length, value length, key, value, padded with zeros. *)

Zeros(n) == [i \in 1 .. n |-> 0]

BadPad(s, n) == s
Pad(s, n) == s \o Zeros(n - Len(s))

ZeroedSlot == Zeros(3 + MAX_KEY_LEN + MAX_VALUE_LEN)

encode_slot(key, value) ==
    <<1, Len(key), Len(value)>> \o Pad(key, MAX_KEY_LEN) \o Pad(value, MAX_VALUE_LEN)

Occupied(slot) == slot[1] # 0

BadSlotKey(slot) == SubSeq(slot, 4, 3 + MAX_KEY_LEN)

\* decode_slot, for a slot whose status is not zero.
SlotKey(slot) == SubSeq(slot, 4, 3 + slot[2])

SlotValue(slot) == SubSeq(slot, 4 + MAX_KEY_LEN, 3 + MAX_KEY_LEN + slot[3])

-----------------------------------------------------------------------------

Idle == [st |-> "idle"]
Called(r) == [st |-> "called", req |-> r]
Answered(r, ans) == [st |-> "answered", req |-> r, ans |-> ans]

KvInit ==
    /\ table = [s \in Slots |-> ZeroedSlot]
    /\ responses = <<>>
    /\ connected = TRUE
    /\ queue = <<>>
    /\ task = [h \in Handlers |-> Idle]
    /\ probe = 0
    /\ slots = <<>>
    /\ waiting = "none"

\* A handler of api.rs is called and queues at store.lock().await.
Arrive(h) ==
    /\ task[h] = Idle
    /\ \E r \in Requests : task' = [task EXCEPT ![h] = Called(r)]
    /\ queue' = Append(queue, h)
    /\ UNCHANGED <<table, responses, connected, probe, slots, waiting>>

Holder == Head(queue)

Queued(h) == \E i \in 1 .. Len(queue) : queue[i] = h

Req == task[Holder].req

Idx == IF Req.op = "slots" THEN probe ELSE (Hash[Req.key] + probe) % SLOT_COUNT

\* The method returns and the handler drops the guard of the mutex.
Finish(ans) ==
    /\ task' = [task EXCEPT ![Holder] = Answered(Req, ans)]
    /\ queue' = Tail(queue)
    /\ probe' = 0
    /\ slots' = <<>>
    /\ waiting' = "none"

Oversized(r) == Len(r.key) > MAX_KEY_LEN \/ Len(r.value) > MAX_VALUE_LEN

\* The length checks at the head of put.
PutTooLong ==
    /\ queue # <<>> /\ waiting = "none"
    /\ Req.op = "put" /\ Oversized(Req)
    /\ Finish(<<"TooLong">>)
    /\ UNCHANGED <<table, responses, connected>>

\* get_stats only takes and drops the mutex.
Stats ==
    /\ queue # <<>> /\ Req.op = "stats"
    /\ Finish(<<"Stats">>)
    /\ UNCHANGED <<table, responses, connected>>

\* Leaves the hash out of the index.
BadReadSlot ==
    /\ queue # <<>> /\ waiting = "none"
    /\ Req.op # "stats" /\ ~(Req.op = "put" /\ Oversized(Req))
    /\ \/ /\ connected
          /\ responses' = Append(responses, [type |-> "ReadResp", data |-> table[probe]])
          /\ waiting' = "slot"
          /\ UNCHANGED <<queue, task, probe, slots>>
       \/ /\ ~connected
          /\ Finish(<<"Error">>)
          /\ UNCHANGED responses
    /\ UNCHANGED <<table, connected>>

\* read_slot(idx): the request goes out, or fails with the connection.
ReadSlot ==
    /\ queue # <<>> /\ waiting = "none"
    /\ Req.op # "stats" /\ ~(Req.op = "put" /\ Oversized(Req))
    /\ \/ /\ connected
          /\ responses' = Append(responses, [type |-> "ReadResp", data |-> table[Idx]])
          /\ waiting' = "slot"
          /\ UNCHANGED <<queue, task, probe, slots>>
       \/ /\ ~connected
          /\ Finish(<<"Error">>)
          /\ UNCHANGED responses
    /\ UNCHANGED <<table, connected>>

BadWriteSlot(data, ans) ==
    \/ /\ connected
       /\ table' = [table EXCEPT ![(Idx + 1) % SLOT_COUNT] = data]
       /\ responses' = Append(Tail(responses), [type |-> "WriteComp"])
       /\ waiting' = ans
       /\ UNCHANGED <<queue, task, probe, slots>>
    \/ /\ ~connected
       /\ Finish(<<"Error">>)
       /\ responses' = Tail(responses)
       /\ UNCHANGED table

\* write_slot(idx, data), in the same poll as the read response it follows.
WriteSlot(data, ans) ==
    \/ /\ connected
       /\ table' = [table EXCEPT ![Idx] = data]
       /\ responses' = Append(Tail(responses), [type |-> "WriteComp"])
       /\ waiting' = ans
       /\ UNCHANGED <<queue, task, probe, slots>>
    \/ /\ ~connected
       /\ Finish(<<"Error">>)
       /\ responses' = Tail(responses)
       /\ UNCHANGED table

\* The method returns ans with no further request.
Conclude(ans) ==
    /\ Finish(ans)
    /\ responses' = Tail(responses)
    /\ UNCHANGED table

NextTurn ==
    /\ probe' = probe + 1
    /\ waiting' = "none"
    /\ responses' = Tail(responses)
    /\ UNCHANGED <<table, queue, task>>

BadNextProbe ==
    /\ probe' = (probe + 1) % SLOT_COUNT
    /\ waiting' = "none"
    /\ responses' = Tail(responses)
    /\ UNCHANGED <<table, queue, task, slots>>

\* The next turn of a search, or what follows its loop.
NextProbe ==
    IF probe + 1 < SLOT_COUNT
    THEN NextTurn /\ UNCHANGED slots
    ELSE Conclude(IF Req.op = "put" THEN <<"TableFull">> ELSE <<"NotFound">>)

Matches(slot) == Occupied(slot) /\ SlotKey(slot) = Req.key

\* decode_slot gives None.
OnEmpty ==
    \/ Req.op = "put" /\ WriteSlot(encode_slot(Req.key, Req.value), "Inserted")
    \/ Req.op \in {"get", "delete"} /\ Conclude(<<"NotFound">>)

\* decode_slot gives the key that is searched for.
OnMatch(slot) ==
    \/ Req.op = "put" /\ WriteSlot(encode_slot(Req.key, Req.value), "Updated")
    \/ Req.op = "get" /\ Conclude(<<"Found", SlotValue(slot)>>)
    \/ Req.op = "delete" /\ WriteSlot(ZeroedSlot, "Deleted")

\* A SlotInfo: the key and the value of an occupied slot.
Info(slot) == IF Occupied(slot) THEN <<SlotKey(slot), SlotValue(slot)>> ELSE <<>>

\* The body of the loop of dump_slots.
Collect(slot) ==
    LET all == Append(slots, Info(slot))
    IN  IF probe + 1 < SLOT_COUNT
        THEN NextTurn /\ slots' = all
        ELSE Conclude(<<"Slots", all>>)

\* The bodies of the loops of put, get, delete and dump_slots, from the
\* response to read_slot to the next await or the return.
TakeSlot ==
    /\ queue # <<>> /\ waiting = "slot" /\ responses # <<>>
    /\ LET resp == Head(responses)
       IN  \/ resp.type # "ReadResp" /\ Conclude(<<"Error">>)
          \/ /\ resp.type = "ReadResp"
             /\ \/ Req.op = "slots" /\ Collect(resp.data)
                \/ Req.op \in KeyOps /\ ~Occupied(resp.data) /\ OnEmpty
                \/ Req.op \in KeyOps /\ Matches(resp.data) /\ OnMatch(resp.data)
                \/ /\ Req.op \in KeyOps
                   /\ Occupied(resp.data) /\ ~Matches(resp.data)
                   /\ NextProbe
    /\ UNCHANGED connected

\* The response to write_slot.
TakeWriteComp ==
    /\ queue # <<>> /\ waiting \notin {"none", "slot"} /\ responses # <<>>
    /\ Conclude(IF Head(responses).type = "WriteComp" THEN <<waiting>> ELSE <<"Error">>)
    /\ UNCHANGED connected

\* A receive on a connection that has ended.
ReceiveFails ==
    /\ queue # <<>> /\ waiting # "none" /\ responses = <<>> /\ ~connected
    /\ Finish(<<"Error">>)
    /\ UNCHANGED <<table, responses, connected>>

\* The connection ends; the last responses may be lost with it.
LoseConnection ==
    /\ connected
    /\ connected' = FALSE
    /\ \E n \in 0 .. Len(responses) : responses' = SubSeq(responses, 1, n)
    /\ UNCHANGED <<table, queue, task, probe, slots, waiting>>

\* The HTTP client goes away and the handler's future is dropped at its await,
\* at the mutex or at a response: the guard goes with it, and a response it
\* awaited stays in the connection.
Cancel(h) ==
    /\ \E i \in 1 .. Len(queue) :
          /\ queue[i] = h
          /\ queue' = [j \in 1 .. Len(queue) - 1 |-> queue[IF j < i THEN j ELSE j + 1]]
    /\ h = Holder => IF waiting = "none" THEN probe = 0 ELSE Len(responses) < MaxUnread
    /\ task' = [task EXCEPT ![h] = Idle]
    /\ IF h = Holder
       THEN probe' = 0 /\ slots' = <<>> /\ waiting' = "none"
       ELSE UNCHANGED <<probe, slots, waiting>>
    /\ UNCHANGED <<table, responses, connected>>

\* The HTTP response is sent.
Respond(h) ==
    /\ task[h].st = "answered"
    /\ task' = [task EXCEPT ![h] = Idle]
    /\ UNCHANGED <<table, responses, connected, queue, probe, slots, waiting>>

HolderStep ==
    \/ PutTooLong
    \/ Stats
    \/ ReadSlot
    \/ TakeSlot
    \/ TakeWriteComp
    \/ ReceiveFails

KvNext ==
    \/ \E h \in Handlers : Arrive(h) \/ Cancel(h) \/ Respond(h)
    \/ HolderStep
    \/ LoseConnection

KvSpec == KvInit /\ [][KvNext]_kvVars

\* The server answers and the runtime polls the task that holds the mutex; the
\* mutex is first come, first served.
KvFairSpec == KvSpec /\ WF_kvVars(HolderStep)

-----------------------------------------------------------------------------

\* Slots keep their size and layout in the remote region, so that decode_slot
\* never slices past a slot; the mutex has exactly the unanswered requests.
KvTypeOK ==
    /\ \A s \in Slots :
          /\ Len(table[s]) = 3 + MAX_KEY_LEN + MAX_VALUE_LEN
          /\ table[s][1] \in {0, 1}
          /\ table[s][2] <= MAX_KEY_LEN /\ table[s][3] <= MAX_VALUE_LEN
    /\ \A i \in 1 .. Len(responses) :
          responses[i].type \in {"ReadResp", "WriteComp"}
    /\ connected \in BOOLEAN
    /\ \A h \in Handlers : task[h].st = "called" <=> Queued(h)
    /\ probe \in Slots /\ Len(slots) <= probe
    /\ waiting \in {"none", "slot", "Inserted", "Updated", "Deleted"}

\* The slots a search for a key visits, in order.
Path(k) == [i \in 1 .. SLOT_COUNT |-> (Hash[k] + i - 1) % SLOT_COUNT]

\* Where a search for the key ends with a match: the first slot of its path
\* that holds it, if no empty slot comes before.
Hits(k) ==
    {i \in 1 .. SLOT_COUNT :
        /\ \A j \in 1 .. i : Occupied(table[Path(k)[j]])
        /\ SlotKey(table[Path(k)[i]]) = k}

First(I) == CHOOSE i \in I : \A j \in I : i <= j

Lookup(k) == SlotValue(table[Path(k)[First(Hits(k))]])

\* The keys a search finds, with their values.
Found == [k \in {k \in Keys : Hits(k) # {}} |-> Lookup(k)]

\* Every pair in the table is the one a search for its key finds: no stored
\* key is cut off from its hash slot by an empty slot, and none is stored
\* twice (the probe loops of put, get and delete in kv.rs).
StoredKeysAreFound ==
    \A s \in Slots :
        LET k == SlotKey(table[s])
        IN  Occupied(table[s]) => Hits(k) # {} /\ Lookup(k) = SlotValue(table[s])

\* A search for another key does not pass over the slot that a DELETE empties.
DeletesCutNothing ==
    waiting = "slot" /\ waiting' = "Deleted" =>
        \A k \in Keys : \A i \in Hits(k) : \A j \in 1 .. i - 1 : Path(k)[j] # Idx

GetAnswer(h) ==
    /\ task[h].st = "called" /\ task[h].req.op = "get"
    /\ task'[h].st = "answered" /\ task'[h].ans # <<"Error">>
    => LET k == task[h].req.key
       IN  task'[h].ans = IF Hits(k) = {} THEN <<"NotFound">> ELSE <<"Found", Lookup(k)>>

\* The answer to a GET is what a search of the table finds at that moment: the
\* slots it compared were the slots it asked for (read_slot in kv.rs).
GetsAreTrue == [][\A h \in Handlers : GetAnswer(h)]_kvVars

Listed(infos) == {infos[i] : i \in DOMAIN infos} \ {<<>>}

\* A task as a client of the map sees it: a write that was sent has taken
\* effect, and a dump of the slots is a set of pairs.
TaskOfMap(h) ==
    IF queue # <<>> /\ h = Holder /\ waiting \notin {"none", "slot"}
    THEN [st |-> "effected", req |-> task[h].req, ans |-> <<waiting>>]
    ELSE IF task[h].st = "answered" /\ task[h].ans[1] = "Slots"
    THEN Answered(task[h].req, <<"Slots", Listed(task[h].ans[2])>>)
    ELSE task[h]

Map == INSTANCE KvMap WITH
    Capacity <- SLOT_COUNT,
    map <- Found,
    task <- [h \in Handlers |-> TaskOfMap(h)]

\* The service behaves as one map that requests read and update one at a time,
\* although each is many RDMA operations: a PUT changes its own key and no
\* other, reports insert and update truly and the table full only when it is;
\* GET and DELETE answer for the map as it stands, and a dump of the slots is
\* the map at one moment.
ImplementsMap == Map!MapSpec

\* Every request at the mutex is answered unless its client gave up, whatever
\* happens to the requests before it and to the connection (the guard is
\* dropped on every return of put, get and delete).
RequestsAnswered ==
    \A h \in Handlers : (task[h].st = "called") ~> (task[h].st # "called")

=============================================================================
