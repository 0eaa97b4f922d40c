---------------------------- MODULE KvMapProofs -----------------------------
(***************************************************************************)
(* The key-value service implements a map (KvMap), for every size of the   *)
(* table and every number of handlers, as long as no handler is dropped at *)
(* a response and no DELETE cuts a search short.                           *)
(***************************************************************************)
EXTENDS KvStoreProofs

(* The table as a map: StoredInv holds as long as a DELETE cuts no other    *)
(* search short, and then Found has exactly the pairs of the table.         *)

(* PUT writes at the first slot of the path that is empty or has its key.   *)
PutAt(k, n, s, c) ==
    /\ Passed(k, n) /\ s = Path(k)[n + 1]
    /\ Occupied(table[s]) => SlotKey(table[s]) = k
    /\ Occupied(c) /\ SlotKey(c) = k
    /\ table' = [table EXCEPT ![s] = c]

(* That keeps the other keys and adds its own once.                         *)
LEMMA StoredPut ==
    ASSUME DataInv, StoredInv, NEW k \in Keys, NEW n \in 0 .. SLOT_COUNT - 1,
           NEW s \in Slots, NEW c, PutAt(k, n, s, c)
    PROVE  /\ StoredInv'
           /\ \A t \in Slots : t # s /\ Occupied(table[t]) => SlotKey(table[t]) # k
<1> USE DEF PutAt
<1>1. table'[s] = c /\ \A t \in Slots : t # s => table'[t] = table[t]
    BY DEF DataInv
<1>2. ASSUME NEW t \in Slots, t # s, Occupied(table[t])
      PROVE  SlotKey(table[t]) # k
    <2> SUFFICES ASSUME SlotKey(table[t]) = k PROVE FALSE
        OBVIOUS
    <2>1. PICK i \in 1 .. SLOT_COUNT :
            Path(k)[i] = t /\ \A j \in 1 .. i : Occupied(table[Path(k)[j]])
        BY <1>2 DEF StoredInv, Reached
    <2>2. CASE i <= n
        BY <2>2, <2>1 DEF Passed
    <2>3. CASE ~(i <= n)
        BY <2>3, <1>2, <2>1 DEF StoredInv
    <2> QED
        BY <2>2, <2>3
<1>3. ASSUME NEW t \in Slots, Occupied(table'[t])
      PROVE  Reached(t)'
    <2>1. CASE t = s
        BY <1>1, KvAssumption, <2>1 DEF Passed, Reached
    <2>2. CASE t # s
        <3>1. table'[t] = table[t] /\ Reached(t)
            BY <1>3, <2>2 DEF StoredInv
        <3> DEFINE x == SlotKey(table[t])
        <3>2. PICK i \in 1 .. SLOT_COUNT :
                Path(x)[i] = t /\ \A j \in 1 .. i : Occupied(table[Path(x)[j]])
            BY <3>1 DEF Reached
        <3>3. \A j \in 1 .. i : Occupied(table'[Path(x)[j]])
            BY <3>2
        <3> QED
            BY ZenonT(30), <3>1, <3>2, <3>3 DEF Reached, Path
    <2> QED
        BY <2>1, <2>2
<1> QED
    BY <1>2, <1>3 DEF StoredInv

(* DELETE empties a slot that no search for another key passes over.        *)
LEMMA StoredDelete ==
    ASSUME DataInv, StoredInv, NEW s \in Slots, table' = [table EXCEPT ![s] = ZeroedSlot],
           \A k \in Keys : \A i \in Hits(k) : \A j \in 1 .. i - 1 : Path(k)[j] # s
    PROVE  StoredInv'
<1>1. ASSUME NEW t \in Slots, Occupied(table'[t])
      PROVE  Reached(t)'
    <2>1. t # s /\ table'[t] = table[t] /\ Reached(t)
        BY WrittenType, <1>1 DEF StoredInv, DataInv
    <2> DEFINE x == SlotKey(table[t])
    <2>2. PICK i \in 1 .. SLOT_COUNT :
            Path(x)[i] = t /\ \A j \in 1 .. i : Occupied(table[Path(x)[j]])
        BY <2>1 DEF Reached
    <2>3. \A j \in 1 .. i : Occupied(table'[Path(x)[j]])
        BY <2>2, <2>1 DEF Reached, Hits
    <2> QED
        BY ZenonT(30), <2>1, <2>2, <2>3 DEF Reached, Path
<1> QED
    BY <1>1, WrittenType DEF StoredInv, DataInv

(* The pairs that a search finds are the pairs of the table.                *)
FoundAll ==
    /\ \A k : k \in DOMAIN Found <=>
                 \E s \in Slots : Occupied(table[s]) /\ SlotKey(table[s]) = k
    /\ \A s \in Slots : Occupied(table[s]) => Found[SlotKey(table[s])] = SlotValue(table[s])

(* A search finds every pair of the table, and nothing else.                *)
LEMMA StoredFound ==
    StoredInv => StoredKeysAreFound /\ FoundAll
<1> SUFFICES ASSUME StoredInv PROVE StoredKeysAreFound /\ FoundAll
    OBVIOUS
<1>1. ASSUME NEW s \in Slots, Occupied(table[s])
      PROVE  /\ SlotKey(table[s]) \in Keys /\ Hits(SlotKey(table[s])) # {}
             /\ Lookup(SlotKey(table[s])) = SlotValue(table[s])
    <2> DEFINE k == SlotKey(table[s])
    <2>1. PICK i \in 1 .. SLOT_COUNT :
            Path(k)[i] = s /\ \A j \in 1 .. i : Occupied(table[Path(k)[j]])
        BY <1>1 DEF StoredInv, Reached
    <2>2. ASSUME NEW j \in Hits(k)
          PROVE  j = i
        BY <1>1, PathBijective, <2>1 DEF Hits, StoredInv, Reached
    <2> QED
        BY <1>1, <2>1, <2>2, FirstIs DEF Lookup, Hits, StoredInv, Reached
<1>2. ASSUME NEW k \in Keys, Hits(k) # {}
      PROVE  \E s \in Slots : Occupied(table[s]) /\ SlotKey(table[s]) = k
    <2>1. PICK i \in Hits(k) : TRUE
        BY <1>2
    <2> QED
        BY PathBijective DEF Hits
<1> QED
    BY <1>1, <1>2 DEF FoundAll, Found, StoredKeysAreFound

(* So they are after a step.                                                *)
LEMMA StoredFoundNext ==
    StoredInv' => FoundAll'
BY PTL, StoredFound

(* What a holder that takes a slot knows of its search.                     *)
LEMMA AtIdx ==
    ASSUME KvInv, SearchInv, queue # <<>>, waiting = "slot", Req.op \in KeyOps
    PROVE  /\ Req \in Requests /\ Req.key \in Keys
           /\ Passed(Req.key, probe) /\ probe \in 0 .. SLOT_COUNT - 1
           /\ Idx \in Slots /\ Idx = Path(Req.key)[probe + 1]
           /\ Req.op = "put" => ~Oversized(Req)
BY HolderCalled, RequestType, IdxType DEF KvInv, KeyOps, HolderInv, SearchInv, ScanInv, Slots

(* What PUT writes decodes to its key and value.                            *)
LEMMA PutData ==
    ASSUME NEW r \in Requests, ~Oversized(r)
    PROVE  LET c == encode_slot(r.key, r.value)
           IN  Occupied(c) /\ SlotKey(c) = r.key /\ SlotValue(c) = r.value
<1>1. Len(r.key) <= MAX_KEY_LEN /\ Len(r.value) <= MAX_VALUE_LEN
    BY KvAssumption DEF Oversized
<1> QED
    BY RequestType, <1>1, EncodedSlot DEF Occupied

(* The first empty slot of a search, or the slot of its key, is written.    *)
LEMMA PutStored ==
    ASSUME KvInv, SearchInv, StoredInv, queue # <<>>, waiting = "slot", Req.op = "put",
           Occupied(table[Idx]) => SlotKey(table[Idx]) = Req.key,
           table' = [table EXCEPT ![Idx] = encode_slot(Req.key, Req.value)]
    PROVE  /\ StoredInv'
           /\ \A t \in Slots : t # Idx /\ Occupied(table[t]) => SlotKey(table[t]) # Req.key
<1>1. PICK k \in Keys, n \in 0 .. SLOT_COUNT - 1, s \in Slots :
        k = Req.key /\ n = probe /\ s = Idx
    BY AtIdx DEF KeyOps, KvInv
<1>2. PICK c : c = encode_slot(Req.key, Req.value)
    OBVIOUS
<1>3. PutAt(k, n, s, c)
    BY AtIdx, <1>1, <1>2, PutData DEF PutAt, KeyOps, KvInv
<1> QED
    BY <1>1, <1>3, StoredPut DEF KeyOps, KvInv

(* A step that leaves the table alone.                                      *)
LEMMA StoredKept ==
    ASSUME StoredInv, UNCHANGED table
    PROVE  StoredInv'
BY DEF StoredInv, Reached

(* Every step keeps the table as a map.                                     *)
LEMMA StoredInvStep ==
    ASSUME KvInv, SearchInv, StoredInv, [KvNext]_kvVars, [DeletesCutNothing]_kvVars
    PROVE  StoredInv'
<1>1. CASE UNCHANGED table
    BY <1>1, StoredKept
<1>2. CASE TakeSlot
    <2>1. queue # <<>> /\ waiting = "slot" /\ responses # <<>>
        BY <1>2 DEF TakeSlot
    <2>2. ASSUME Req.op = "put", Occupied(table[Idx]) => SlotKey(table[Idx]) = Req.key,
                 table' = [table EXCEPT ![Idx] = encode_slot(Req.key, Req.value)]
          PROVE  StoredInv'
        BY <2>1, <2>2, PutStored
    <2>3. ASSUME Req.op = "delete", waiting' = "Deleted",
                 table' = [table EXCEPT ![Idx] = ZeroedSlot]
          PROVE  StoredInv'
        <3>1. \A k \in Keys : \A i \in Hits(k) : \A j \in 1 .. i - 1 : Path(k)[j] # Idx
            BY <2>1, <2>3 DEF DeletesCutNothing, kvVars
        <3>2. Idx \in Slots /\ DataInv
            BY <2>1, <2>3, AtIdx DEF KvInv, KeyOps
        <3> QED
            BY ZenonT(30), <2>3, <3>1, <3>2, StoredDelete
    <2>4. ASSUME NEW ans, Conclude(ans)  PROVE StoredInv'
        BY <1>1, <2>4 DEF Conclude
    <2> DEFINE slot == Head(responses).data
    <2>5. ASSUME Collect(slot) \/ NextProbe  PROVE StoredInv'
        BY <1>1, <2>4, <2>5 DEF Collect, NextProbe, NextTurn
    <2>6. ASSUME Req.op = "put", ~Occupied(slot) \/ Matches(slot),
                 NEW ans, WriteSlot(encode_slot(Req.key, Req.value), ans)
          PROVE  StoredInv'
        BY <1>1, <2>1, OwnResponse, <2>2, <2>6 DEF WriteSlot, Matches
    <2>7. ASSUME Req.op = "delete", WriteSlot(ZeroedSlot, "Deleted")
          PROVE  StoredInv'
        BY <1>1, <2>3, <2>7 DEF WriteSlot
    <2> QED
        BY <2>4, <2>5, <2>6, <2>7, TakeSlotCases, <1>2
<1> QED
    BY <1>1, <1>2 DEF KvNext, HolderStep, Arrive, Cancel, Respond, PutTooLong, Stats,
       ReadSlot, TakeWriteComp, ReceiveFails, LoseConnection, Conclude, kvVars

(* The empty table is a map.                                                *)
LEMMA StoredInvInit ==
    ASSUME KvInit
    PROVE  StoredInv
BY WrittenType DEF KvInit, StoredInv
-----------------------------------------------------------------------------
(* The service implements the map.                                          *)

(* The map is full exactly when the table is.                               *)
FullAgrees ==
    (Cardinality(DOMAIN Found) = SLOT_COUNT) <=> (\A s \in Slots : Occupied(table[s]))

(* The pairs found do not depend on anything but the table.                 *)
LEMMA FoundKept ==
    ASSUME UNCHANGED table
    PROVE  Found' = Found
BY DEF Found, Lookup, Hits

(* PUT stores its pair and leaves the others.                               *)
LEMMA PutFound ==
    ASSUME KvInv, SearchInv, StoredInv, queue # <<>>, waiting = "slot", Req.op = "put",
           Occupied(table[Idx]) => SlotKey(table[Idx]) = Req.key,
           table' = [table EXCEPT ![Idx] = encode_slot(Req.key, Req.value)]
    PROVE  Found' = Map!With(Req.key, Req.value)
<1>1. Req.op \in KeyOps
    BY DEF KeyOps
<1>2. PICK k, v, s, c :
        k = Req.key /\ v = Req.value /\ s = Idx /\ s \in Slots /\ c = encode_slot(k, v)
    BY <1>1, AtIdx
<1>3. Occupied(c) /\ SlotKey(c) = k /\ SlotValue(c) = v
    BY <1>1, AtIdx, <1>2, PutData
<1>4. table'[s] = c /\ \A t \in Slots : t # s => table'[t] = table[t]
    BY <1>2 DEF KvInv, DataInv
<1>5. FoundAll /\ FoundAll'
    BY <1>2, PutStored, StoredFound, StoredFoundNext
<1>6. \A x : x \in DOMAIN Found' <=> x \in DOMAIN Found \cup {k}
    <2>1. ASSUME NEW x, x \in DOMAIN Found'
          PROVE  x \in DOMAIN Found \cup {k}
        BY <1>3, <1>4, <1>5, <2>1 DEF FoundAll
    <2>2. ASSUME NEW x, x \in DOMAIN Found \cup {k}
          PROVE  x \in DOMAIN Found'
        <3>1. CASE x = k
            BY SMTT(30), <1>2, <1>3, <1>4, <1>5, <3>1 DEF FoundAll
        <3>2. CASE x # k
            <4>1. PICK t \in Slots : Occupied(table[t]) /\ SlotKey(table[t]) = x
                BY <1>5, <2>2, <3>2 DEF FoundAll
            <4> QED
                BY <1>4, <1>5, <4>1, <1>2, <3>2 DEF FoundAll
        <3> QED
            BY <3>1, <3>2
    <2> QED
        BY <2>1, <2>2
<1>7. ASSUME NEW x \in DOMAIN Found'
      PROVE  Found'[x] = IF x = k THEN v ELSE Found[x]
    <2>1. CASE x = k
        BY <1>2, <1>3, <1>4, <1>5 DEF FoundAll
    <2>2. CASE x # k
        <3>1. PICK t \in Slots : Occupied(table'[t]) /\ SlotKey(table'[t]) = x
            BY <1>5 DEF FoundAll
        <3> QED
            BY <2>2, <1>5, <3>1, <1>4, <1>3 DEF FoundAll
    <2> QED
        BY <2>1, <2>2
<1>8. Found' = [x \in DOMAIN Found' |-> Found'[x]]
    BY DEF Found
<1>9. DOMAIN Found' = DOMAIN Found \cup {k}
    BY ZenonT(30), <1>6
<1> QED
    BY <1>2, <1>7, <1>8, <1>9 DEF Map!With

(* DELETE removes its pair and leaves the others.                           *)
LEMMA DeleteFound ==
    ASSUME KvInv, SearchInv, StoredInv, StoredInv', NEW s \in Slots,
           table' = [table EXCEPT ![s] = ZeroedSlot], Occupied(table[s]),
           NEW k, k = SlotKey(table[s])
    PROVE  Found' = [x \in DOMAIN Found \ {k} |-> Found[x]]
<1>1. FoundAll /\ FoundAll'
    BY StoredFound, StoredFoundNext
<1>2. \A x : x \in DOMAIN Found' <=> x \in DOMAIN Found \ {k}
    BY WrittenType, <1>1 DEF FoundAll, StoredInv, KvInv, DataInv
<1>3. ASSUME NEW x \in DOMAIN Found'
      PROVE  Found'[x] = Found[x]
    <2>1. PICK t \in Slots : Occupied(table'[t]) /\ SlotKey(table'[t]) = x
        BY <1>1 DEF FoundAll
    <2> QED
        BY <1>1, <2>1, WrittenType DEF FoundAll, KvInv, DataInv
<1>4. Found' = [x \in DOMAIN Found' |-> Found'[x]]
    BY DEF Found
<1> QED
    BY <1>3, <1>4, <1>2

(* The map counts its keys the same way.                                    *)
LEMMA MapCardinality ==
    ASSUME NEW S
    PROVE  Map!Cardinality(S) = Cardinality(S)
BY DEF Map!Cardinality, Cardinality

(* What the map promises each request.                                      *)
LEMMA MapPut ==
    ASSUME NEW r, r.op = "put", ~Oversized(r)
    PROVE  /\ r.key \in DOMAIN Found =>
                 Map!After(r) = Map!With(r.key, r.value) /\ Map!AnswerTo(r) = <<"Updated">>
           /\ r.key \notin DOMAIN Found /\ Cardinality(DOMAIN Found) # SLOT_COUNT =>
                 Map!After(r) = Map!With(r.key, r.value) /\ Map!AnswerTo(r) = <<"Inserted">>
           /\ r.key \notin DOMAIN Found /\ Cardinality(DOMAIN Found) = SLOT_COUNT =>
                 Map!After(r) = Found /\ Map!AnswerTo(r) = <<"TableFull">>
BY MapCardinality DEF Map!After, Map!AnswerTo, Map!Stores, Map!Has, Map!Full

(* PUT of what does not fit in a slot.                                      *)
LEMMA MapPutTooLong ==
    ASSUME NEW r, r.op = "put", Oversized(r)
    PROVE  Map!After(r) = Found /\ Map!AnswerTo(r) = <<"TooLong">>
BY DEF Map!After, Map!AnswerTo, Map!Stores

(* GET on the map.                                                          *)
LEMMA MapGet ==
    ASSUME NEW r, r.op = "get"
    PROVE  /\ Map!After(r) = Found
           /\ r.key \in DOMAIN Found => Map!AnswerTo(r) = <<"Found", Found[r.key]>>
           /\ r.key \notin DOMAIN Found => Map!AnswerTo(r) = <<"NotFound">>
BY DEF Map!After, Map!AnswerTo, Map!Has

(* DELETE on the map.                                                       *)
LEMMA MapDelete ==
    ASSUME NEW r, r.op = "delete"
    PROVE  /\ Map!After(r) = [k \in DOMAIN Found \ {r.key} |-> Found[k]]
           /\ r.key \in DOMAIN Found => Map!AnswerTo(r) = <<"Deleted">>
           /\ r.key \notin DOMAIN Found => Map!AnswerTo(r) = <<"NotFound">>
BY DEF Map!After, Map!AnswerTo, Map!Has

(* The listings.                                                            *)
LEMMA MapOther ==
    ASSUME NEW r
    PROVE  /\ r.op = "slots" =>
                 /\ Map!After(r) = Found
                 /\ Map!AnswerTo(r) = <<"Slots", {<<k, Found[k]>> : k \in DOMAIN Found}>>
           /\ r.op = "stats" => Map!After(r) = Found /\ Map!AnswerTo(r) = <<"Stats">>
BY DEF Map!After, Map!AnswerTo

(* A handler whose write is on its way has taken effect.                    *)
Effecting(h) == queue # <<>> /\ h = Holder /\ waiting \notin {"none", "slot"}

Tasks == [h \in Handlers |-> TaskOfMap(h)]

(* A step that concerns one handler is one for the map.                     *)
LEMMA OneTask ==
    ASSUME NEW h \in Handlers,
           \A g \in Handlers \ {h} :
               /\ task'[g] = task[g] /\ (Effecting(g)' <=> Effecting(g))
               /\ waiting' = waiting \/ ~Effecting(g)
    PROVE  Tasks' = [Tasks EXCEPT ![h] = TaskOfMap(h)']
<1>1. ASSUME NEW g \in Handlers, g # h
      PROVE  TaskOfMap(g)' = TaskOfMap(g)
    BY <1>1 DEF TaskOfMap, Effecting
<1>2. /\ Tasks' = [g \in Handlers |-> TaskOfMap(g)']
      /\ Tasks = [g \in Handlers |-> TaskOfMap(g)]
    BY DEF Tasks
<1> QED
    BY <1>1, <1>2

(* A handler that waits at the mutex or for a slot has been called.         *)
LEMMA CalledTask ==
    ASSUME KvInv, NEW h \in Handlers, Queued(h), ~Effecting(h)
    PROVE  TaskOfMap(h) = task[h] /\ task[h].st = "called"
BY DEF KvInv, QueueInv, TaskOfMap, Effecting

(* The steps of the map, from what changes.                                 *)
LEMMA MapSteps ==
    ASSUME NEW h \in Handlers
    PROVE  /\ Map!MapCall(h) \/ Map!MapEffect(h) \/ Map!MapAnswer(h) \/ Map!MapFail(h)
                 \/ Map!MapReturn(h) \/ Map!MapGiveUp(h) => Map!MapNext
           /\ Tasks[h] = TaskOfMap(h)
BY DEF Map!MapNext, Tasks

(* Handlers come and go.                                                    *)
LEMMA ArriveMaps ==
    ASSUME KvInv, NEW h \in Handlers, Arrive(h)
    PROVE  Map!MapNext
<1>1. task[h] = Idle /\ UNCHANGED <<table, waiting>>
    BY DEF Arrive
<1>2. PICK r \in Requests : task' = [task EXCEPT ![h] = Called(r)]
    BY ZenonT(30) DEF Arrive
<1>3. \A g \in Handlers : Effecting(g)' <=> Effecting(g)
    BY <1>1, ArriveInv DEF Effecting, KvInv, HolderInv
<1>4. Tasks' = [Tasks EXCEPT ![h] = TaskOfMap(h)']
    BY <1>1, <1>2, <1>3, OneTask DEF KvInv, QueueInv, Idle
<1>5. ~Effecting(h) /\ ~Effecting(h)'
    BY ArriveInv, <1>3 DEF Effecting
<1>6. TaskOfMap(h) = Idle
    BY <1>1, <1>5 DEF TaskOfMap, Effecting, Idle
<1>7. TaskOfMap(h)' = Called(r)
    BY <1>2, <1>1, <1>5 DEF TaskOfMap, Effecting, Called, KvInv, QueueInv, Idle
<1>8. Map!MapCall(h)
    BY ZenonT(30), <1>1, <1>4, <1>6, <1>7, FoundKept DEF Map!MapCall, Map!Idle, Map!Called,
       Idle, Called, Tasks
<1> QED
    BY <1>8, MapSteps

(* A client that goes away gives up its request.                            *)
LEMMA CancelMaps ==
    ASSUME KvInv, MaxUnread = 0, NEW h \in Handlers, Cancel(h)
    PROVE  Map!MapNext
<1>1. task' = [task EXCEPT ![h] = Idle] /\ UNCHANGED table
    BY DEF Cancel
<1>2. /\ queue # <<>> /\ Queued(h)
      /\ h # Holder => queue' # <<>> /\ Holder' = Holder
    BY CancelQueued DEF KvInv
<1>3. task'[h] = Idle /\ \A g \in Handlers : g # h => task'[g] = task[g]
    BY <1>1 DEF KvInv, QueueInv
<1>4. Tasks' = [Tasks EXCEPT ![h] = TaskOfMap(h)']
    BY <1>3, <1>2, OneTask DEF Effecting, Cancel
<1>5. TaskOfMap(h).st = "called"
    BY <1>2, CalledTask DEF Effecting, Cancel
<1>6. TaskOfMap(h)' = Idle
    BY <1>3, <1>2 DEF TaskOfMap, Effecting, Idle, Cancel
<1> QED
    BY <1>1, <1>4, <1>5, <1>6, FoundKept, MapSteps DEF Map!MapGiveUp, Map!Idle, Idle, Tasks

(* The HTTP response is sent.                                               *)
LEMMA RespondMaps ==
    ASSUME KvInv, NEW h \in Handlers, Respond(h)
    PROVE  Map!MapNext
<1>1. /\ task[h].st = "answered" /\ task' = [task EXCEPT ![h] = Idle]
      /\ UNCHANGED <<table, queue, waiting>>
    BY DEF Respond
<1>2. \A g \in Handlers : Effecting(g)' <=> Effecting(g)
    BY <1>1 DEF Effecting, Holder
<1>3. TaskOfMap(h).st = "answered"
    BY <1>1, RespondInv, <1>2, HolderCalled DEF TaskOfMap, Effecting, Answered, KvInv,
       QueueInv
<1>4. TaskOfMap(h)' = Idle
    BY <1>1, RespondInv, <1>2, HolderCalled DEF TaskOfMap, Effecting, Idle, KvInv, QueueInv
<1>5. Map!MapReturn(h)
    BY <1>1, <1>2, OneTask, <1>3, <1>4, FoundKept DEF Map!MapReturn, Map!Idle, Idle, Tasks
<1> QED
    BY <1>5, MapSteps

(* The task of the holder before and after a step that ends its method.     *)
LEMMA HolderTask ==
    ASSUME KvInv, queue # <<>>
    PROVE  /\ waiting \in {"none", "slot"} =>
                 TaskOfMap(Holder).st = "called" /\ TaskOfMap(Holder).req = Req
           /\ waiting \notin {"none", "slot"} =>
                 TaskOfMap(Holder) = Map!Effected(Req, <<waiting>>)
BY HolderCalled, CalledTask DEF KvInv, Effecting, Req, TaskOfMap, Map!Effected

(* What Finish does to the tasks.                                           *)
LEMMA FinishTask ==
    ASSUME KvInv, queue # <<>>, NEW ans, Finish(ans)
    PROVE  /\ ans[1] # "Slots" =>
                 Tasks' = [Tasks EXCEPT ![Holder] = Map!Answered(Req, ans)]
           /\ ans[1] = "Slots" =>
                 Tasks' = [Tasks EXCEPT ![Holder] =
                              Map!Answered(Req, <<"Slots", Listed(ans[2])>>)]
<1>1. PICK h \in Handlers : h = Holder
    BY HolderCalled DEF KvInv
<1>2. PICK r : r = Req
    OBVIOUS
<1>3. task' = [task EXCEPT ![h] = Answered(r, ans)] /\ waiting' = "none"
    BY <1>1, <1>2 DEF Finish
<1>4. task'[h] = Answered(r, ans) /\ \A g \in Handlers : g # h => task'[g] = task[g]
    BY <1>3 DEF KvInv, QueueInv
<1>5. Tasks' = [Tasks EXCEPT ![h] = TaskOfMap(h)']
    BY <1>4, <1>1, <1>3, OneTask DEF Effecting
<1>6. TaskOfMap(h)' = IF ans[1] = "Slots" THEN Answered(r, <<"Slots", Listed(ans[2])>>)
                      ELSE Answered(r, ans)
    BY <1>3, <1>4 DEF TaskOfMap, Answered
<1> QED
    BY ZenonT(30), <1>1, <1>2, <1>5, <1>6 DEF Answered, Map!Answered

(* The request of a holder fails.                                           *)
LEMMA ErrorMaps ==
    ASSUME KvInv, queue # <<>>, Finish(<<"Error">>), UNCHANGED table
    PROVE  Map!MapNext
<1>1. PICK h \in Handlers : h = Holder
    BY HolderCalled DEF KvInv
<1>2. TaskOfMap(h).st \in {"called", "effected"} /\ TaskOfMap(h).req = Req
    BY <1>1, HolderTask DEF Map!Effected
<1>3. Tasks' = [Tasks EXCEPT ![h] = Map!Answered(Req, <<"Error">>)]
    BY ZenonT(30), <1>1, FinishTask
<1>4. Map!MapFail(h)
    BY ZenonT(30), <1>2, <1>3, FoundKept DEF Map!MapFail, Tasks
<1> QED
    BY <1>4, MapSteps

(* The request of a holder takes effect and is answered at once.            *)
LEMMA AnswerMaps ==
    ASSUME KvInv, queue # <<>>, waiting \in {"none", "slot"}, NEW ans, Finish(ans),
           UNCHANGED table, Map!After(Req) = Found,
           \/ ans[1] # "Slots" /\ Map!AnswerTo(Req) = ans
           \/ ans[1] = "Slots" /\ Map!AnswerTo(Req) = <<"Slots", Listed(ans[2])>>
    PROVE  Map!MapNext
<1>1. PICK h \in Handlers : h = Holder
    BY HolderCalled DEF KvInv
<1>2. TaskOfMap(h).st = "called" /\ TaskOfMap(h).req = Req
    BY <1>1, HolderTask
<1>3. Tasks' = [Tasks EXCEPT ![h] = Map!Answered(Req, Map!AnswerTo(Req))]
    BY ZenonT(30), <1>1, FinishTask
<1>4. Map!MapEffect(h)
    BY ZenonT(30), <1>2, <1>3, FoundKept DEF Map!MapEffect, Tasks
<1> QED
    BY <1>4, MapSteps

(* A write goes out and the request takes effect, before it is answered.    *)
LEMMA WriteMaps ==
    ASSUME KvInv, queue # <<>>, waiting = "slot", connected,
           NEW data, NEW ans \in {"Inserted", "Updated", "Deleted"}, WriteSlot(data, ans),
           Found' = Map!After(Req), Map!AnswerTo(Req) = <<ans>>
    PROVE  Map!MapNext
<1>1. PICK h \in Handlers : h = Holder
    BY HolderCalled DEF KvInv
<1>2. Tasks' = [Tasks EXCEPT ![h] = TaskOfMap(h)']
    BY <1>1, OneTask DEF Effecting, Holder, Req, WriteSlot
<1>3. TaskOfMap(h)' = Map!Effected(Req, <<ans>>)
    BY <1>1 DEF TaskOfMap, Map!Effected, Req, Holder, WriteSlot
<1>4. TaskOfMap(h).st = "called" /\ TaskOfMap(h).req = Req
    BY <1>1, HolderTask
<1>5. Map!MapEffect(h)
    BY ZenonT(30), <1>2, <1>3, <1>4 DEF Map!MapEffect, Tasks
<1> QED
    BY <1>5, MapSteps

(* The keys of the map are the ones a search finds.                         *)
LEMMA FoundKeys ==
    ASSUME NEW k \in Keys
    PROVE  /\ k \in DOMAIN Found <=> Hits(k) # {}
           /\ k \in DOMAIN Found => Found[k] = Lookup(k)
BY DEF Found

(* PUT finds an empty slot or its own key.                                  *)
LEMMA PutMaps ==
    ASSUME KvInv, SearchInv, StoredInv, FullAgrees, queue # <<>>, waiting = "slot", Req.op = "put",
           connected, NEW ans,
           \/ ~Occupied(table[Idx]) /\ ans = "Inserted"
           \/ Occupied(table[Idx]) /\ SlotKey(table[Idx]) = Req.key /\ ans = "Updated",
           WriteSlot(encode_slot(Req.key, Req.value), ans)
    PROVE  Map!MapNext
<1>1. /\ Req \in Requests /\ Req.key \in Keys
      /\ Passed(Req.key, probe) /\ probe \in 0 .. SLOT_COUNT - 1
      /\ Idx \in Slots /\ Idx = Path(Req.key)[probe + 1] /\ ~Oversized(Req)
    BY AtIdx DEF KeyOps
<1>2. Found' = Map!With(Req.key, Req.value)
    BY PutFound DEF WriteSlot
<1>3. CASE ~Occupied(table[Idx]) /\ ans = "Inserted"
    <2>1. Map!After(Req) = Map!With(Req.key, Req.value) /\ Map!AnswerTo(Req) = <<"Inserted">>
        BY <1>1, KvAssumption, EndsAbsent, FoundKeys, <1>3, MapPut DEF FullAgrees
    <2> QED
        BY <1>2, <1>3, <2>1, WriteMaps
<1>4. CASE Occupied(table[Idx]) /\ SlotKey(table[Idx]) = Req.key /\ ans = "Updated"
    <2>1. Map!After(Req) = Map!With(Req.key, Req.value) /\ Map!AnswerTo(Req) = <<"Updated">>
        BY <1>1, <1>4, EndsFound, FoundKeys, MapPut
    <2> QED
        BY SMTT(30), <1>2, <1>4, <2>1, WriteMaps
<1> QED
    BY <1>3, <1>4

(* DELETE finds its key.                                                    *)
LEMMA DeleteMaps ==
    ASSUME KvInv, SearchInv, StoredInv, StoredInv', queue # <<>>, waiting = "slot",
           Req.op = "delete", connected,
           Occupied(table[Idx]), SlotKey(table[Idx]) = Req.key,
           WriteSlot(ZeroedSlot, "Deleted")
    PROVE  Map!MapNext
<1>1. /\ Req.key \in Keys
      /\ Passed(Req.key, probe) /\ probe \in 0 .. SLOT_COUNT - 1
      /\ Idx \in Slots /\ Idx = Path(Req.key)[probe + 1]
    BY AtIdx DEF KeyOps
<1>2. PICK s \in Slots, k \in Keys : s = Idx /\ k = Req.key
    BY <1>1
<1>3. table' = [table EXCEPT ![s] = ZeroedSlot] /\ Occupied(table[s]) /\ k = SlotKey(table[s])
    BY <1>2 DEF WriteSlot
<1>4. Found' = [x \in DOMAIN Found \ {k} |-> Found[x]]
    BY ZenonT(30), <1>3, DeleteFound
<1>5. k \in DOMAIN Found
    BY <1>1, <1>2, EndsFound, FoundKeys
<1>6. Map!After(Req) = Found' /\ Map!AnswerTo(Req) = <<"Deleted">>
    BY SMTT(30), <1>2, <1>4, <1>5, MapDelete
<1> QED
    BY <1>6, WriteMaps

(* A search ends at an empty slot.                                          *)
LEMMA AbsentMaps ==
    ASSUME KvInv, queue # <<>>, waiting = "slot", Req.op \in {"get", "delete"},
           Req \in Requests, Req.key \in Keys, Hits(Req.key) = {}, Conclude(<<"NotFound">>)
    PROVE  Map!MapNext
<1>1. Req.key \notin DOMAIN Found
    BY FoundKeys
<1>2. Found = [k \in DOMAIN Found \ {Req.key} |-> Found[k]]
    <2>1. DOMAIN Found \ {Req.key} = DOMAIN Found
        BY ZenonT(30), <1>1
    <2> QED
        BY <2>1 DEF Found
<1>3. Map!After(Req) = Found /\ Map!AnswerTo(Req) = <<"NotFound">>
    <2>1. CASE Req.op = "get"
        BY <1>1, <2>1, MapGet
    <2>2. CASE Req.op = "delete"
        BY <1>2, <2>2, MapDelete
    <2> QED
        BY <2>1, <2>2
<1> QED
    BY <1>3, AnswerMaps DEF Conclude

(* A dump of all slots is the map at one moment.                            *)
LEMMA SlotsMaps ==
    ASSUME KvInv, SearchInv, StoredInv, queue # <<>>, waiting = "slot", Req.op = "slots",
           ~(probe + 1 < SLOT_COUNT),
           Conclude(<<"Slots", Append(slots, Info(table[Idx]))>>)
    PROVE  Map!MapNext
<1> DEFINE all == Append(slots, Info(table[Idx]))
<1>1. SLOT_COUNT \in Nat \ {0} /\ probe + 1 = SLOT_COUNT
    BY KvAssumption DEF KvInv, HolderInv, Slots
<1>2. all = [i \in 1 .. SLOT_COUNT |-> Info(table[i - 1])]
    BY ZenonT(30), <1>1, CollectSearch
<1>3. \A p : p \in Listed(all) <=> p # <<>> /\ \E s \in Slots : p = Info(table[s])
    <2> HIDE DEF all
    <2>1. \A i \in 1 .. SLOT_COUNT : i - 1 \in Slots
        BY <1>1 DEF Slots
    <2>2. \A s \in Slots : s + 1 \in 1 .. SLOT_COUNT /\ (s + 1) - 1 = s
        BY <1>1 DEF Slots
    <2> QED
        BY <1>2, <2>1, <2>2 DEF Listed
<1>4. \A p : p \in Listed(all) <=> p \in {<<k, Found[k]>> : k \in DOMAIN Found}
    <2> HIDE DEF all
    <2> DEFINE pair(s) == <<SlotKey(table[s]), SlotValue(table[s])>>
               of == {<<k, Found[k]>> : k \in DOMAIN Found}
    <2>1. \A p : p \in of <=> \E s \in Slots : Occupied(table[s]) /\ p = pair(s)
        BY StoredFound DEF FoundAll
    <2>2. \A s \in Slots : /\ Occupied(table[s]) => Info(table[s]) = pair(s)
                           /\ ~Occupied(table[s]) => Info(table[s]) = <<>>
                           /\ pair(s) # <<>>
        BY DEF Info
    <2> HIDE DEF pair, of
    <2> QED
        BY <1>3, <2>1, <2>2 DEF of
<1> HIDE DEF all
<1>5. Listed(all) = {<<k, Found[k]>> : k \in DOMAIN Found}
    BY <1>4
<1>6. Map!After(Req) = Found /\ Map!AnswerTo(Req) = <<"Slots", Listed(all)>>
    BY <1>5, MapOther
<1>7. Finish(<<"Slots", all>>) /\ UNCHANGED table
    BY DEF Conclude, all
<1> QED
    BY <1>6, <1>7, AnswerMaps

(* A step between two requests to the server is none for the map.           *)
LEMMA QuietMaps ==
    ASSUME UNCHANGED <<table, queue, task>>,
           waiting' = waiting \/ {waiting, waiting'} \subseteq {"none", "slot"}
    PROVE  UNCHANGED Map!mapVars
BY FoundKept DEF Holder, TaskOfMap, Answered, Listed, Tasks, Map!mapVars

(* A GET finds its key.                                                     *)
LEMMA FoundMaps ==
    ASSUME KvInv, SearchInv, queue # <<>>, waiting = "slot", Req.op = "get",
           Occupied(table[Idx]), SlotKey(table[Idx]) = Req.key,
           Conclude(<<"Found", SlotValue(table[Idx])>>)
    PROVE  Map!MapNext
BY AtIdx, EndsFound, FoundKeys, MapGet, AnswerMaps DEF KeyOps, Conclude

(* A search passes a slot of another key; at the last one it has seen the   *)
(* whole table.                                                             *)
LEMMA NextProbeMaps ==
    ASSUME KvInv, SearchInv, FullAgrees, queue # <<>>, waiting = "slot", Req.op \in KeyOps,
           Occupied(table[Idx]), SlotKey(table[Idx]) # Req.key, NextProbe
    PROVE  [Map!MapNext]_Map!mapVars
<1>1. CASE probe + 1 < SLOT_COUNT
    BY <1>1, QuietMaps DEF NextProbe, NextTurn
<1>2. CASE ~(probe + 1 < SLOT_COUNT)
    <2>1. /\ Req \in Requests /\ Req.key \in Keys
          /\ Passed(Req.key, probe) /\ probe \in 0 .. SLOT_COUNT - 1
          /\ Idx = Path(Req.key)[probe + 1] /\ (Req.op = "put" => ~Oversized(Req))
        BY AtIdx
    <2>2. Passed(Req.key, SLOT_COUNT)
        BY <2>1, <1>2, KvAssumption DEF Passed
    <2>3. Hits(Req.key) = {}
        BY <2>1, <2>2, KvAssumption, EndsAbsent
    <2>4. CASE Req.op \in {"get", "delete"}
        BY <1>2, <2>4, <2>1, <2>3, AbsentMaps DEF NextProbe
    <2>5. CASE Req.op = "put"
        <3>1. \A s \in Slots : Occupied(table[s])
            BY <2>1, <2>2, PathBijective DEF Passed
        <3>2. Req.key \notin DOMAIN Found
            BY <2>1, <2>3, FoundKeys
        <3>3. Map!After(Req) = Found /\ Map!AnswerTo(Req) = <<"TableFull">>
            BY <2>1, <2>5, <3>1, <3>2, MapPut DEF FullAgrees
        <3> QED
            BY <1>2, <2>5, <3>3, AnswerMaps DEF NextProbe, Conclude
    <2> QED
        BY <2>4, <2>5 DEF KeyOps
<1> QED
    BY <1>1, <1>2

(* The loops of put, get, delete and dump_slots.                            *)
LEMMA TakeSlotMaps ==
    ASSUME KvInv, SearchInv, StoredInv, StoredInv', FullAgrees, TakeSlot
    PROVE  [Map!MapNext]_Map!mapVars
<1>1. queue # <<>> /\ waiting = "slot" /\ responses # <<>>
    BY DEF TakeSlot
<1>2. Head(responses).type = "ReadResp" /\ Head(responses).data = table[Idx]
    BY <1>1, OwnResponse
<1>3. ASSUME ~connected, NEW data, NEW ans, WriteSlot(data, ans)
      PROVE  Map!MapNext
    BY <1>3, <1>1, ErrorMaps DEF WriteSlot
<1> DEFINE slot == Head(responses).data
<1>4. ASSUME Req.op = "slots", Collect(slot)
      PROVE  [Map!MapNext]_Map!mapVars
    <2>1. CASE probe + 1 < SLOT_COUNT
        BY <1>4, <2>1, <1>1, QuietMaps DEF Collect, NextTurn
    <2>2. CASE ~(probe + 1 < SLOT_COUNT)
        <3>1. Conclude(<<"Slots", Append(slots, Info(table[Idx]))>>)
            BY <1>2, <1>4, <2>2 DEF Collect
        <3> QED
            BY <1>1, <1>4, <2>2, <3>1, SlotsMaps
    <2> QED
        BY <2>1, <2>2
<1>5. ASSUME Req.op = "put", ~Occupied(slot),
             WriteSlot(encode_slot(Req.key, Req.value), "Inserted")
      PROVE  Map!MapNext
    BY <1>1, <1>2, <1>3, <1>5, PutMaps
<1>6. ASSUME Req.op \in {"get", "delete"}, ~Occupied(slot), Conclude(<<"NotFound">>)
      PROVE  Map!MapNext
    <2>1. /\ Req \in Requests /\ Req.key \in Keys
          /\ Passed(Req.key, probe) /\ probe \in 0 .. SLOT_COUNT - 1
          /\ Idx = Path(Req.key)[probe + 1]
        BY <1>1, <1>6, AtIdx DEF KeyOps
    <2>2. Hits(Req.key) = {}
        BY <1>2, <1>6, <2>1, KvAssumption, EndsAbsent
    <2> QED
        BY <1>1, <1>6, <2>1, <2>2, AbsentMaps
<1>7. ASSUME Req.op = "put", Matches(slot),
             WriteSlot(encode_slot(Req.key, Req.value), "Updated")
      PROVE  Map!MapNext
    BY <1>2, <1>7, <1>1, <1>3, PutMaps DEF Matches
<1>8. ASSUME Req.op = "get", Matches(slot), Conclude(<<"Found", SlotValue(slot)>>)
      PROVE  Map!MapNext
    BY <1>2, <1>8, <1>1, FoundMaps DEF Matches
<1>9. ASSUME Req.op = "delete", Matches(slot), WriteSlot(ZeroedSlot, "Deleted")
      PROVE  Map!MapNext
    BY <1>2, <1>9, <1>1, <1>3, DeleteMaps DEF Matches
<1>10. ASSUME Req.op \in KeyOps, Occupied(slot), SlotKey(slot) # Req.key, NextProbe
       PROVE  [Map!MapNext]_Map!mapVars
    BY <1>1, <1>2, <1>10, NextProbeMaps
<1> QED
    BY ZenonT(30), Zenon, <1>2, <1>4, <1>5, <1>6, <1>7, <1>8, <1>9, <1>10, TakeSlotCases

(* The answer to a write completes a request that has taken effect.         *)
LEMMA TakeWriteCompMaps ==
    ASSUME KvInv, SearchInv, TakeWriteComp
    PROVE  Map!MapNext
<1>1. queue # <<>> /\ waiting \notin {"none", "slot"} /\ responses # <<>>
    BY DEF TakeWriteComp
<1>2. Finish(<<waiting>>) /\ UNCHANGED table
    BY <1>1, OwnResponse DEF TakeWriteComp, Conclude
<1>3. <<waiting>>[1] # "Slots"
    BY DEF KvInv, HolderInv
<1>4. PICK h \in Handlers : h = Holder
    BY <1>1, HolderCalled DEF KvInv
<1>5. Tasks' = [Tasks EXCEPT ![h] = Map!Answered(Req, <<waiting>>)]
    BY ZenonT(30), <1>1, <1>2, <1>3, <1>4, FinishTask
<1>6. Tasks[h].st = "effected" /\ Tasks[h].req = Req /\ Tasks[h].ans = <<waiting>>
    BY <1>1, <1>4, HolderTask, MapSteps DEF Map!Effected
<1> QED
    BY <1>6, <1>5, <1>2, FoundKept, MapSteps DEF Map!MapAnswer, Tasks

(* The other steps of a holder.                                             *)
LEMMA HolderMaps ==
    ASSUME KvInv, SearchInv, PutTooLong \/ Stats \/ ReadSlot \/ ReceiveFails
    PROVE  [Map!MapNext]_Map!mapVars
BY MapPutTooLong, AnswerMaps, MapOther, QuietMaps, ErrorMaps DEF PutTooLong, Stats,
   SearchInv, ScanInv, ReadSlot, ReceiveFails

(* Every step of the service is a step of the map or leaves it alone.       *)
LEMMA StepMaps ==
    ASSUME KvInv, SearchInv, StoredInv, StoredInv', FullAgrees, MaxUnread = 0,
           [KvNext]_kvVars
    PROVE  [Map!MapNext]_Map!mapVars
<1>1. ASSUME NEW h \in Handlers, Arrive(h) \/ Cancel(h) \/ Respond(h)
      PROVE  Map!MapNext
    BY <1>1, ArriveMaps, CancelMaps, RespondMaps
<1>2. CASE PutTooLong \/ Stats \/ ReadSlot \/ ReceiveFails
    BY <1>2, HolderMaps
<1>3. CASE TakeSlot
    BY <1>3, TakeSlotMaps
<1>4. CASE TakeWriteComp
    BY <1>4, TakeWriteCompMaps
<1>5. CASE LoseConnection
    BY <1>5, QuietMaps DEF LoseConnection
<1>6. CASE UNCHANGED kvVars
    BY <1>6, QuietMaps DEF kvVars
<1> QED
    BY <1>1, <1>2, <1>3, <1>4, <1>5, <1>6 DEF KvNext, HolderStep

(* The zeroed table is the empty map.                                       *)
LEMMA InitMaps ==
    ASSUME KvInit
    PROVE  Map!MapInit
<1>1. \A s \in Slots : ~Occupied(table[s])
    BY KvAssumption DEF Occupied, ZeroedSlot, Zeros, KvInit
<1>2. Found = [k \in {} |-> k]
    BY StoredInvInit, StoredFound, <1>1 DEF FoundAll
<1> QED
    BY <1>2 DEF Map!MapInit, TaskOfMap, Idle, Map!Idle, KvInit

-----------------------------------------------------------------------------
(* The keys of the map are as many as the occupied slots.                   *)

Sets == INSTANCE FiniteSetTheorems

(* Finite sets as that module has them.                                     *)
LEMMA SetsCardinality ==
    ASSUME NEW S
    PROVE  Sets!Cardinality(S) = Cardinality(S)
BY DEF Sets!Cardinality, Cardinality

(* The map is full exactly when the table is.                               *)
LEMMA FullTable ==
    ASSUME StoredInv
    PROVE  FullAgrees
<1> DEFINE occ == {s \in Slots : Occupied(table[s])}
           f == [s \in occ |-> SlotKey(table[s])]
<1>1. Sets!IsFiniteSet(Slots) /\ Sets!Cardinality(Slots) = SLOT_COUNT
    <2>1. /\ Sets!IsFiniteSet(0 .. SLOT_COUNT - 1)
          /\ Sets!Cardinality(0 .. SLOT_COUNT - 1)
                = IF 0 > SLOT_COUNT - 1 THEN 0 ELSE (SLOT_COUNT - 1) - 0 + 1
        BY KvAssumption, Sets!FS_Interval
    <2> QED
        BY KvAssumption, <2>1 DEF Slots
<1>2. Sets!IsFiniteSet(occ) /\ (Sets!Cardinality(Slots) = Sets!Cardinality(occ) => Slots = occ)
    BY <1>1, Sets!FS_Subset
<1>3. \A k : k \in DOMAIN Found <=> \E s \in occ : f[s] = k
    BY StoredFound DEF FoundAll
<1>4. \A s, t \in occ : f[s] = f[t] => s = t
    BY DEF StoredInv
<1>5. f \in Sets!Bijection(occ, DOMAIN Found)
    <2> HIDE DEF f, occ
    <2>1. f \in [occ -> DOMAIN Found]
        BY SMTT(30), <1>3 DEF f
    <2> QED
        BY <1>3, <1>4, <2>1 DEF Sets!Bijection, Sets!Injection, Sets!Surjection,
           Sets!IsInjective
<1> QED
    BY <1>1, <1>2, <1>5, Sets!FS_Bijection, SetsCardinality DEF FullAgrees,
       Sets!ExistsBijection

(* The service is a map on which requests take effect one at a time, each   *)
(* between its call and its answer, for every table size, hash and set of   *)
(* requests, as long as no handler is dropped at a response and no DELETE   *)
(* empties a slot that the search for another key passes over: the two      *)
(* conditions that the runs kv_cancelled and kv_delete_collides drop.       *)
THEOREM KvImplementsMap ==
    ASSUME MaxUnread = 0
    PROVE  KvSpec /\ [][DeletesCutNothing]_kvVars => ImplementsMap
<1>1. KvInit => KvInv /\ SearchInv /\ StoredInv /\ Map!MapInit
    BY KvInvInit, SearchInvInit, StoredInvInit, InitMaps
<1>2. KvInv /\ SearchInv /\ StoredInv /\ [KvNext]_kvVars /\ [DeletesCutNothing]_kvVars
      => KvInv' /\ SearchInv' /\ StoredInv'
    BY KvInvStep, SearchInvStep, StoredInvStep
<1>3. KvInv /\ SearchInv /\ StoredInv /\ StoredInv' /\ [KvNext]_kvVars
      => [Map!MapNext]_Map!mapVars
    BY StepMaps, FullTable
<1> QED
    BY PTL, <1>1, <1>2, <1>3 DEF KvSpec, ImplementsMap, Map!MapSpec

(* The condition on DELETE holds when none is asked for.                    *)
LEMMA NoDelete ==
    ASSUME KvInv, \A r \in Requests : r.op # "delete", [KvNext]_kvVars
    PROVE  [DeletesCutNothing]_kvVars
<1> SUFFICES ASSUME KvNext, waiting = "slot", waiting' = "Deleted"
             PROVE  FALSE
    BY DEF DeletesCutNothing
<1>1. ASSUME NEW ans, Finish(ans)  PROVE FALSE
    BY <1>1 DEF Finish
<1>2. ASSUME NEW h \in Handlers, Arrive(h) \/ Cancel(h) \/ Respond(h)  PROVE FALSE
    BY <1>2 DEF Arrive, Cancel, Respond
<1>3. CASE PutTooLong \/ Stats \/ ReadSlot \/ TakeWriteComp \/ ReceiveFails
    BY <1>1, <1>3 DEF PutTooLong, Stats, ReadSlot, TakeWriteComp, ReceiveFails, Conclude
<1>4. CASE TakeSlot
    <2>1. Req.op # "delete"
        BY HolderCalled DEF KvInv, HolderInv
    <2> QED
        BY <1>4, <2>1, <1>1, TakeSlotCases DEF WriteSlot, Conclude, Collect, NextTurn,
           NextProbe
<1>5. CASE LoseConnection
    BY <1>5 DEF LoseConnection
<1> QED
    BY <1>2, <1>3, <1>4, <1>5 DEF KvNext, HolderStep

(* A store on which nothing is deleted is a map without that condition:     *)
(* keys that collide, updates, a full table and a connection that ends      *)
(* included.                                                                *)
THEOREM KvImplementsMapWithoutDelete ==
    ASSUME MaxUnread = 0, \A r \in Requests : r.op # "delete"
    PROVE  KvSpec => ImplementsMap
<1>1. KvInit => KvInv
    BY KvInvInit
<1>2. KvInv /\ [KvNext]_kvVars => KvInv'
    BY KvInvStep
<1>3. KvInv /\ [KvNext]_kvVars => [DeletesCutNothing]_kvVars
    BY NoDelete
<1>4. KvSpec => KvSpec /\ [][DeletesCutNothing]_kvVars
    BY PTL, <1>1, <1>2, <1>3 DEF KvSpec
<1> QED
    BY PTL, <1>4, KvImplementsMap
=============================================================================
