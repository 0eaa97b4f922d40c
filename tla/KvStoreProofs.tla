--------------------------- MODULE KvStoreProofs ---------------------------
(* Proofs about KvStore, for any set of handlers and requests, any hash     *)
(* function and any size of the table.                                      *)
EXTENDS KvStore, TLAPS

(* The concatenation of two sequences.                                      *)
LEMMA SeqConcat ==
    ASSUME NEW S, NEW s \in Seq(S), NEW t \in Seq(S)
    PROVE  /\ s \o t \in Seq(S) /\ Len(s \o t) = Len(s) + Len(t)
           /\ \A i \in 1 .. Len(s) + Len(t) :
                 (s \o t)[i] = IF i <= Len(s) THEN s[i] ELSE t[i - Len(s)]
OBVIOUS

(* The entries of a sequence, and that it has some.                         *)
LEMMA SeqEntry ==
    ASSUME NEW S, NEW s \in Seq(S)
    PROVE  /\ \A i \in 1 .. Len(s) : s[i] \in S
           /\ s # <<>> => Len(s) \in Nat \ {0}
OBVIOUS

SlotLen == 3 + MAX_KEY_LEN + MAX_VALUE_LEN

(* Sequences of zeros.                                                      *)
LEMMA ZerosType ==
    ASSUME NEW n \in Nat
    PROVE  /\ Zeros(n) \in Seq(Nat) /\ Len(Zeros(n)) = n
           /\ \A i \in 1 .. n : Zeros(n)[i] = 0
BY DEF Zeros

(* Padding keeps the data and fills up to the length.                       *)
LEMMA PadType ==
    ASSUME NEW n \in Nat, NEW s \in Seq(Nat), Len(s) <= n
    PROVE  /\ Pad(s, n) \in Seq(Nat) /\ Len(Pad(s, n)) = n
           /\ \A i \in 1 .. Len(s) : Pad(s, n)[i] = s[i]
<1>1. PICK k \in Nat : k = Len(s)
    OBVIOUS
<1> DEFINE z == Zeros(n - k)
<1> HIDE DEF z
<1> QED
    BY <1>1, ZerosType DEF z, Pad

IsJoined(c, s, t, m, n) ==
    /\ c \in Seq(Nat) /\ Len(c) = m + n
    /\ \A i \in 1 .. m : c[i] = s[i]
    /\ \A i \in 1 .. n : c[m + i] = t[i]

(* Where the cells of two sequences are in their concatenation.             *)
LEMMA Joined ==
    ASSUME NEW m \in Nat, NEW n \in Nat, NEW s \in Seq(Nat), NEW t \in Seq(Nat),
           Len(s) = m, Len(t) = n
    PROVE  IsJoined(s \o t, s, t, m, n)
<1> DEFINE c == s \o t
<1>1. c \in Seq(Nat) /\ Len(c) = m + n
    BY ZenonT(30), SeqConcat
<1>2. \A i \in 1 .. m + n : c[i] = IF i <= m THEN s[i] ELSE t[i - m]
    BY ZenonT(30), SeqConcat
<1> HIDE DEF c
<1>3. ASSUME NEW i \in 1 .. n  PROVE c[m + i] = t[i]
    <2> DEFINE j == m + i
    <2> HIDE DEF j
    <2> QED
        BY <1>2 DEF j
<1> QED
    BY <1>1, <1>3 DEF c, IsJoined

(* Where the cells of a part of a sequence come from.                       *)
LEMMA Cut ==
    ASSUME NEW m \in Nat, NEW n \in Nat, NEW l \in Nat, NEW e \in Seq(Nat),
           NEW s \in Seq(Nat), Len(s) = n, m + n <= Len(e), l = m + n,
           \A i \in 1 .. n : e[m + i] = s[i]
    PROVE  SubSeq(e, m + 1, l) = s
<1>1. PICK k \in Nat : k = Len(e)
    OBVIOUS
<1> DEFINE f == m + 1
           c == SubSeq(e, f, l)
<1>2. f \in Int /\ l \in Int /\ l - f + 1 = n
    OBVIOUS
<1>3. ASSUME NEW i \in 1 .. n  PROVE e[f + i - 1] = s[i]
    OBVIOUS
<1> HIDE DEF f
<1>4. /\ c \in Seq(Nat)
      /\ Len(c) = IF f <= l THEN l - f + 1 ELSE 0
      /\ \A i \in 1 .. l - f + 1 : c[i] = e[f + i - 1]
    BY <1>2
<1> HIDE DEF c
<1>5. \A i \in 1 .. n : c[i] = s[i]
    BY ZenonT(30), <1>2, <1>3, <1>4
<1> QED
    BY <1>4, <1>2, <1>5 DEF c, f

(* What a slot keeps of the pair it is written with: decode_slot undoes     *)
(* encode_slot.                                                             *)
LEMMA EncodedSlot ==
    ASSUME NEW key \in Seq(Nat), NEW value \in Seq(Nat),
           Len(key) <= MAX_KEY_LEN, Len(value) <= MAX_VALUE_LEN
    PROVE  /\ encode_slot(key, value) \in Seq(Nat)
           /\ Len(encode_slot(key, value)) = SlotLen
           /\ encode_slot(key, value)[1] = 1
           /\ encode_slot(key, value)[2] = Len(key)
           /\ encode_slot(key, value)[3] = Len(value)
           /\ SlotKey(encode_slot(key, value)) = key
           /\ SlotValue(encode_slot(key, value)) = value
<1> DEFINE h == <<1, Len(key), Len(value)>>
           k == Pad(key, MAX_KEY_LEN)
           v == Pad(value, MAX_VALUE_LEN)
           a == h \o k
           e == encode_slot(key, value)
           M == 3 + MAX_KEY_LEN
<1>1. MAX_KEY_LEN \in Nat /\ MAX_VALUE_LEN \in Nat /\ M \in Nat
    BY KvAssumption
<1>2. /\ k \in Seq(Nat) /\ Len(k) = MAX_KEY_LEN
      /\ \A i \in 1 .. Len(key) : k[i] = key[i]
    BY ZenonT(30), <1>1, PadType
<1>3. /\ v \in Seq(Nat) /\ Len(v) = MAX_VALUE_LEN
      /\ \A i \in 1 .. Len(value) : v[i] = value[i]
    BY ZenonT(30), <1>1, PadType
<1>4. h \in Seq(Nat) /\ Len(h) = 3 /\ h[1] = 1 /\ h[2] = Len(key) /\ h[3] = Len(value)
    OBVIOUS
<1>5. e = a \o v
    BY DEF encode_slot
<1> HIDE DEF h, k, v, e
<1>6. /\ a \in Seq(Nat) /\ Len(a) = M
      /\ \A i \in 1 .. 3 : a[i] = h[i]
      /\ \A i \in 1 .. MAX_KEY_LEN : a[3 + i] = k[i]
    <2>1. IsJoined(a, h, k, 3, MAX_KEY_LEN)
        BY Zenon, <1>1, <1>2, <1>4, Joined
    <2> QED
        BY ZenonT(30), <2>1 DEF IsJoined
<1> HIDE DEF a, M
<1>7. /\ e \in Seq(Nat) /\ Len(e) = M + MAX_VALUE_LEN
      /\ \A i \in 1 .. M : e[i] = a[i]
      /\ \A i \in 1 .. MAX_VALUE_LEN : e[M + i] = v[i]
    <2>1. IsJoined(a \o v, a, v, M, MAX_VALUE_LEN)
        BY <1>3, <1>6, Joined
    <2> QED
        BY ZenonT(30), <1>5, <2>1 DEF IsJoined
<1>8. e[1] = 1 /\ e[2] = Len(key) /\ e[3] = Len(value)
    BY <1>1, <1>6, <1>7, <1>4 DEF M
<1>9. SlotKey(e) = key
    <2>1. PICK n \in Nat : n = Len(key)
        OBVIOUS
    <2>2. ASSUME NEW i \in 1 .. n  PROVE e[3 + i] = key[i]
        <3>1. i \in 1 .. MAX_KEY_LEN /\ 3 + i \in 1 .. M
            BY <1>1, <2>1 DEF M
        <3> QED
            BY ZenonT(30), <1>2, <1>6, <1>7, <2>1, <3>1
    <2> QED
        BY <1>8, <2>1, <2>2 DEF SlotKey
<1>10. SlotValue(e) = value
    <2>1. PICK n \in Nat : n = Len(value)
        OBVIOUS
    <2>2. ASSUME NEW i \in 1 .. n  PROVE e[M + i] = value[i]
        BY <1>3, <1>7, <2>1
    <2>3. M + n <= Len(e)
        BY <1>1, <1>7, <2>1
    <2>4. SubSeq(e, M + 1, M + n) = value
        <3>1. M \in Nat /\ M + n \in Nat /\ e \in Seq(Nat) /\ Len(value) = n
            BY <1>1, <1>7, <2>1
        <3> QED
            BY Zenon, <2>2, <2>3, <3>1, Cut
    <2>5. 4 + MAX_KEY_LEN = M + 1 /\ 3 + MAX_KEY_LEN + n = M + n
        BY <1>1 DEF M
    <2> QED
        BY <1>8, <2>1, <2>4, <2>5 DEF SlotValue
<1> QED
    BY <1>7, <1>8, <1>9, <1>10 DEF e, M, SlotLen

-----------------------------------------------------------------------------
(* Counting past the end of the table wraps around once.                    *)
LEMMA Wraps ==
    ASSUME NEW n \in Nat \ {0}, NEW a \in 0 .. 2 * n - 1
    PROVE  a % n = IF a < n THEN a ELSE a - n
<1> DEFINE q == a \div n
           r == a % n
<1> HIDE DEF q, r
<1> QED
    BY DEF r

(* A search visits slots of the table, each at one turn.                    *)
LEMMA PathBijective ==
    ASSUME NEW k \in Keys
    PROVE  /\ \A i \in 1 .. SLOT_COUNT : Path(k)[i] \in Slots
           /\ \A i, j \in 1 .. SLOT_COUNT : Path(k)[i] = Path(k)[j] => i = j
           /\ \A s \in Slots : \E i \in 1 .. SLOT_COUNT : Path(k)[i] = s
<1> DEFINE n == SLOT_COUNT
           b == Hash[k]
<1>1. n \in Nat \ {0} /\ b \in 0 .. n - 1
    BY KvAssumption DEF Slots
<1> HIDE DEF b
<1>2. ASSUME NEW i \in 1 .. n
      PROVE  Path(k)[i] = IF b + i - 1 < n THEN b + i - 1 ELSE b + i - 1 - n
    <2> DEFINE a == b + i - 1
    <2>1. a \in 0 .. 2 * n - 1 /\ Path(k)[i] = a % n
        BY <1>1 DEF Path, b
    <2> HIDE DEF a, n
    <2>2. a % n = IF a < n THEN a ELSE a - n
        BY ZenonT(30), <1>1, <2>1, Wraps
    <2> QED
        BY <1>1, <2>1, <2>2 DEF a
<1> HIDE DEF n
<1>3. ASSUME NEW s \in 0 .. n - 1  PROVE \E i \in 1 .. n : Path(k)[i] = s
    <2>1. CASE s >= b
        <3>1. s - b + 1 \in 1 .. n /\ b + (s - b + 1) - 1 = s /\ s < n
            BY <1>1, <2>1
        <3> QED
            BY <1>2, <3>1
    <2>2. CASE s < b
        <3>1. PICK i \in 1 .. n : b + i - 1 = s + n
            BY <1>1, <2>2
        <3> QED
            BY <1>2, <1>1, <3>1
    <2> QED
        BY <1>1, <2>1, <2>2
<1> QED
    BY <1>3, <1>1, <1>2 DEF n, Slots

-----------------------------------------------------------------------------
(* The inductive invariant of KvSpec: KvTypeOK with the layout of slots and *)
(* responses, the queue without duplicates, and what a holder that awaits a *)
(* response has checked before.                                             *)

Cells ==
    {c \in Seq(Nat) :
        /\ Len(c) = SlotLen
        /\ c[1] \in {0, 1} /\ c[2] <= MAX_KEY_LEN /\ c[3] <= MAX_VALUE_LEN}

Responses == [type : {"ReadResp"}, data : Cells] \cup [type : {"WriteComp"}]

Infos == {<<>>} \cup Seq(Nat) \X Seq(Nat)

QueueInv ==
    /\ queue \in Seq(Handlers)
    /\ \A i, j \in 1 .. Len(queue) : queue[i] = queue[j] => i = j
    /\ task = [h \in Handlers |-> task[h]]
    /\ \A h \in Handlers : task[h].st = "called" <=> Queued(h)
    /\ \A h \in Handlers : Queued(h) => task[h].req \in Requests

HolderInv ==
    /\ probe \in Slots
    /\ slots \in Seq(Infos) /\ Len(slots) <= probe
    /\ waiting \in {"none", "slot", "Inserted", "Updated", "Deleted"}
    /\ queue = <<>> => waiting = "none"
    /\ waiting # "none" /\ Req.op = "put" => ~Oversized(Req)

DataInv ==
    /\ table \in [Slots -> Cells]
    /\ responses \in Seq(Responses)
    /\ connected \in BOOLEAN

KvInv == QueueInv /\ HolderInv /\ DataInv

(* The invariant is as strong as what the runs check.                       *)
LEMMA InvTypeOK ==
    KvInv => KvTypeOK
<1> SUFFICES ASSUME KvInv PROVE KvTypeOK
    OBVIOUS
<1>1. \A i \in 1 .. Len(responses) : responses[i].type \in {"ReadResp", "WriteComp"}
    BY DEF KvInv, DataInv, Responses
<1> QED
    BY <1>1 DEF KvInv, DataInv, QueueInv, HolderInv, KvTypeOK, Cells, SlotLen

(* The handler at the head of the queue has an open request.                *)
LEMMA HolderCalled ==
    ASSUME QueueInv, queue # <<>>
    PROVE  /\ Holder \in Handlers /\ Queued(Holder)
           /\ Holder = queue[1] /\ Len(queue) \in Nat \ {0}
           /\ task[Holder].st = "called" /\ Req \in Requests
BY DEF QueueInv, Holder, Queued, Req

(* What a request brings along.                                             *)
LEMMA RequestType ==
    ASSUME NEW r \in Requests
    PROVE  /\ r.op \in KeyOps \cup {"slots", "stats"}
           /\ r.key \in Seq(Nat) /\ r.value \in Seq(Nat)
           /\ r.op \in KeyOps => r.key \in Keys
BY KvAssumption DEF Keys

(* Who is at the mutex after its holder has dropped it.                     *)
LEMMA TailQueued ==
    ASSUME QueueInv, queue # <<>>, queue' = Tail(queue)
    PROVE  /\ queue' \in Seq(Handlers)
           /\ \A i, j \in 1 .. Len(queue') : queue'[i] = queue'[j] => i = j
           /\ \A h \in Handlers : Queued(h)' <=> Queued(h) /\ h # Holder
<1>1. PICK n \in Nat \ {0} : n = Len(queue)
    BY DEF QueueInv
<1>2. /\ queue' \in Seq(Handlers) /\ Len(queue') = n - 1
      /\ \A i \in 1 .. n - 1 : queue'[i] = queue[i + 1]
    BY <1>1 DEF QueueInv
<1>3. ASSUME NEW i \in 1 .. n - 1, NEW j \in 1 .. n - 1, queue'[i] = queue'[j]
      PROVE  i = j
    BY <1>2, <1>3, <1>1 DEF QueueInv
<1>4. ASSUME NEW h \in Handlers, NEW i \in 1 .. n - 1, queue'[i] = h
      PROVE  Queued(h) /\ h # Holder
    BY <1>2, <1>4, <1>1, HolderCalled DEF Queued, QueueInv
<1>5. ASSUME NEW h \in Handlers, NEW i \in 1 .. n, queue[i] = h, h # Holder
      PROVE  \E j \in 1 .. n - 1 : queue'[j] = h
    BY HolderCalled, <1>5, <1>2
<1> QED
    BY <1>2, <1>3, <1>4, <1>5 DEF Queued

(* Who is at the mutex after a handler has been dropped.                    *)
LEMMA CancelQueued ==
    ASSUME QueueInv, NEW h \in Handlers, Cancel(h)
    PROVE  /\ queue' \in Seq(Handlers) /\ queue # <<>> /\ Queued(h)
           /\ \A i, j \in 1 .. Len(queue') : queue'[i] = queue'[j] => i = j
           /\ \A g \in Handlers : Queued(g)' <=> Queued(g) /\ g # h
           /\ h # Holder => queue' # <<>> /\ Holder' = Holder
<1>1. PICK n \in Nat : n = Len(queue)
    BY DEF QueueInv
<1>2. PICK i \in 1 .. n :
        /\ queue[i] = h
        /\ queue' = [j \in 1 .. n - 1 |-> queue[IF j < i THEN j ELSE j + 1]]
    BY <1>1 DEF Cancel
<1>3. n # 0 /\ queue # <<>> /\ Holder = queue[1] /\ n - 1 \in Nat
    BY <1>1, HolderCalled DEF QueueInv
<1> DEFINE f(j) == IF j < i THEN j ELSE j + 1
<1>4. \A j \in 1 .. n - 1 : f(j) \in 1 .. n /\ f(j) # i /\ queue'[j] = queue[f(j)]
    BY <1>2
<1>5. \A j, k \in 1 .. n - 1 : f(j) = f(k) => j = k
    OBVIOUS
<1>6. \A j \in 1 .. n : j # i => \E k \in 1 .. n - 1 : f(k) = j
    <2>1. ASSUME NEW j \in 1 .. n, j < i  PROVE j \in 1 .. n - 1 /\ f(j) = j
        BY <2>1
    <2>2. ASSUME NEW j \in 1 .. n, j > i  PROVE j - 1 \in 1 .. n - 1 /\ f(j - 1) = j
        BY <2>2
    <2> HIDE DEF f
    <2> QED
        BY <2>1, <2>2
<1>7. queue' \in Seq(Handlers) /\ Len(queue') = n - 1
    BY <1>2, <1>1 DEF QueueInv
<1> HIDE DEF f
<1>8. \A j, k \in 1 .. n - 1 : queue'[j] = queue'[k] => j = k
    BY <1>4, <1>5, <1>1 DEF QueueInv
<1>9. \A g \in Handlers : Queued(g)' <=> Queued(g) /\ g # h
    <2>1. ASSUME NEW g \in Handlers, NEW j \in 1 .. n - 1, queue'[j] = g
          PROVE  Queued(g) /\ g # h
        BY <1>1, <1>2, <2>1 DEF Queued, QueueInv
    <2>2. ASSUME NEW g \in Handlers, NEW j \in 1 .. n, queue[j] = g, g # h
          PROVE  \E k \in 1 .. n - 1 : queue'[k] = g
        <3>1. j # i
            BY <1>2, <2>2
        <3> QED
            BY <1>4, <1>6, <2>2, <3>1
    <2> QED
        BY <1>1, <1>7, <2>1, <2>2 DEF Queued
<1>10. h # Holder => queue' # <<>> /\ Holder' = Holder
    <2> SUFFICES ASSUME h # Holder PROVE queue' # <<>> /\ Holder' = Holder
        OBVIOUS
    <2>1. 1 \in 1 .. n - 1 /\ queue'[1] = queue[1]
        BY <1>4, <1>2, <1>3
    <2> QED
        BY <1>7, <2>1 DEF Holder
<1>11. Queued(h)
    BY <1>1, <1>2 DEF Queued
<1> QED
    BY <1>3, <1>7, <1>8, <1>9, <1>10, <1>11

(* The end of a method leaves the mutex to the next handler.                *)
LEMMA FinishInv ==
    ASSUME QueueInv, queue # <<>>, NEW ans, Finish(ans)
    PROVE  QueueInv' /\ HolderInv'
<1>1. /\ task' = [h \in Handlers |-> task'[h]]
      /\ task'[Holder] = Answered(Req, ans)
      /\ \A h \in Handlers : h # Holder => task'[h] = task[h]
    BY HolderCalled DEF QueueInv, Finish
<1> QED
    BY TailQueued, <1>1, KvAssumption DEF QueueInv, Answered, HolderInv, Slots, Finish

(* Taking a response leaves responses of the same kinds.                    *)
LEMMA TakenType ==
    ASSUME DataInv, responses # <<>>
    PROVE  /\ Head(responses) \in Responses
           /\ Tail(responses) \in Seq(Responses)
BY DEF DataInv

(* So does the end of a method that took one.                               *)
LEMMA ConcludeInv ==
    ASSUME KvInv, queue # <<>>, responses # <<>>, NEW ans, Conclude(ans), UNCHANGED connected
    PROVE  KvInv'
BY FinishInv DEF KvInv, Conclude, DataInv

(* What the holder asks for is a slot of the table.                         *)
LEMMA IdxType ==
    ASSUME KvInv, queue # <<>>, Req.op # "stats"
    PROVE  /\ Idx \in Slots
           /\ Req.op \in KeyOps => probe + 1 \in 1 .. SLOT_COUNT /\ Idx = Path(Req.key)[probe + 1]
<1>1. CASE Req.op = "slots"
    BY KvAssumption, <1>1 DEF Idx, Slots, KeyOps, KvInv, HolderInv
<1>2. CASE Req.op \in KeyOps
    <2>1. Req.key \in Keys /\ Req.op # "slots"
        BY HolderCalled, <1>2, RequestType DEF KeyOps, KvInv
    <2>2. probe + 1 \in 1 .. SLOT_COUNT /\ (probe + 1) - 1 = probe
        BY KvAssumption DEF KvInv, HolderInv, Slots
    <2>3. Idx = Path(Req.key)[probe + 1]
        BY <2>1, <2>2 DEF Idx, Path
    <2> QED
        BY <2>1, <2>2, <2>3, PathBijective
<1> QED
    BY HolderCalled, <1>1, <1>2, RequestType DEF KvInv

(* The slots that put and delete write are well formed.                     *)
LEMMA WrittenType ==
    /\ ZeroedSlot \in Cells /\ ~Occupied(ZeroedSlot)
    /\ \A r \in Requests :
          ~Oversized(r) => encode_slot(r.key, r.value) \in Cells
<1>1. MAX_KEY_LEN \in Nat /\ MAX_VALUE_LEN \in Nat /\ SlotLen \in Nat /\ SlotLen >= 3
    BY KvAssumption DEF SlotLen
<1>2. /\ ZeroedSlot \in Seq(Nat) /\ Len(ZeroedSlot) = SlotLen
      /\ \A i \in 1 .. SlotLen : ZeroedSlot[i] = 0
    BY <1>1, ZerosType DEF ZeroedSlot, SlotLen
<1>3. ASSUME NEW r \in Requests, ~Oversized(r)
      PROVE  encode_slot(r.key, r.value) \in Cells
    <2>1. r.key \in Seq(Nat) /\ r.value \in Seq(Nat)
        BY RequestType
    <2>2. Len(r.key) <= MAX_KEY_LEN /\ Len(r.value) <= MAX_VALUE_LEN
        BY <1>1, <1>3 DEF Oversized
    <2>3. /\ encode_slot(r.key, r.value) \in Seq(Nat)
          /\ Len(encode_slot(r.key, r.value)) = SlotLen
          /\ encode_slot(r.key, r.value)[1] = 1
          /\ encode_slot(r.key, r.value)[2] = Len(r.key)
          /\ encode_slot(r.key, r.value)[3] = Len(r.value)
        BY ZenonT(30), <2>1, <2>2, EncodedSlot
    <2> QED
        BY <2>2, <2>3 DEF Cells
<1> QED
    BY <1>1, <1>2, <1>3 DEF Cells, Occupied

(* A write leaves the table well formed.                                    *)
LEMMA WriteSlotInv ==
    ASSUME KvInv, queue # <<>>, responses # <<>>, UNCHANGED connected, Req.op # "stats",
           NEW data \in Cells, NEW ans \in {"Inserted", "Updated", "Deleted"},
           waiting # "none", WriteSlot(data, ans)
    PROVE  KvInv'
<1>1. CASE connected
    <2>1. /\ table' = [table EXCEPT ![Idx] = data]
          /\ responses' = Append(Tail(responses), [type |-> "WriteComp"])
          /\ waiting' = ans
          /\ UNCHANGED <<queue, task, probe, slots>>
        BY <1>1 DEF WriteSlot
    <2> QED
        BY IdxType, TakenType, <2>1 DEF KvInv, QueueInv, Queued, HolderInv, Oversized, Req,
           Holder, DataInv, Responses
<1>2. CASE ~connected
    BY <1>2, ConcludeInv DEF WriteSlot, Conclude
<1> QED
    BY <1>1, <1>2

(* What dump_slots collects of a slot.                                      *)
LEMMA InfoType ==
    ASSUME NEW c \in Cells
    PROVE  Info(c) \in Infos
<1>1. c \in Seq(Nat) /\ Len(c) = SlotLen /\ SlotLen = 3 + MAX_KEY_LEN + MAX_VALUE_LEN
    BY DEF Cells, SlotLen
<1>2. MAX_KEY_LEN \in Nat /\ MAX_VALUE_LEN \in Nat
    BY KvAssumption
<1>3. \A i \in 1 .. SlotLen : c[i] \in Nat
    BY <1>1
<1>4. /\ c[2] \in Nat /\ c[2] <= MAX_KEY_LEN
      /\ c[3] \in Nat /\ c[3] <= MAX_VALUE_LEN
    BY <1>1, <1>2, <1>3 DEF Cells
<1>5. SlotKey(c) \in Seq(Nat)
    <2>1. \A i \in 4 .. 3 + c[2] : c[i] \in Nat
        BY SMTT(30), <1>1, <1>2, <1>3, <1>4
    <2> QED
        BY <1>4, <2>1 DEF SlotKey
<1>6. SlotValue(c) \in Seq(Nat)
    <2> DEFINE f == 4 + MAX_KEY_LEN
               l == 3 + MAX_KEY_LEN + c[3]
    <2>1. f \in Int /\ l \in Int /\ f >= 1 /\ l <= SlotLen /\ SlotLen \in Nat
        BY SMTT(30), <1>1, <1>2, <1>4
    <2>2. SlotValue(c) = SubSeq(c, f, l)
        BY DEF SlotValue
    <2> HIDE DEF f, l
    <2> QED
        BY <2>1, <2>2, <1>3
<1> QED
    BY <1>5, <1>6 DEF Info, Infos

(* The next turn of a loop.                                                 *)
LEMMA NextTurnInv ==
    ASSUME KvInv, queue # <<>>, responses # <<>>, UNCHANGED connected, NextTurn,
           probe + 1 < SLOT_COUNT, slots' \in Seq(Infos), Len(slots') <= probe + 1
    PROVE  KvInv'
BY KvAssumption DEF NextTurn, KvInv, DataInv, HolderInv, Slots, QueueInv, Queued

(* A handler arrives.                                                       *)
LEMMA ArriveInv ==
    ASSUME KvInv, NEW h \in Handlers, Arrive(h)
    PROVE  /\ KvInv'
           /\ queue # <<>> => queue' # <<>> /\ Holder' = Holder /\ Holder # h
<1>1. /\ task[h] = Idle
      /\ queue' = Append(queue, h)
      /\ UNCHANGED <<table, responses, connected, probe, slots, waiting>>
    BY DEF Arrive
<1>2. PICK r \in Requests : task' = [task EXCEPT ![h] = Called(r)]
    BY ZenonT(30) DEF Arrive
<1>3. queue \in Seq(Handlers) /\ task = [g \in Handlers |-> task[g]]
    BY DEF KvInv, QueueInv
<1>4. PICK n \in Nat : n = Len(queue)
    BY <1>3
<1>5. /\ queue' \in Seq(Handlers) /\ Len(queue') = n + 1
      /\ \A i \in 1 .. n : queue'[i] = queue[i] /\ queue[i] # h
      /\ queue'[n + 1] = h
    BY <1>1, <1>3, <1>4 DEF Queued, KvInv, QueueInv, Idle
<1>6. \A i, j \in 1 .. n + 1 : queue'[i] = queue'[j] => i = j
    BY <1>4, <1>5 DEF KvInv, QueueInv
<1>7. /\ task' = [g \in Handlers |-> task'[g]]
      /\ task'[h] = Called(r)
      /\ \A g \in Handlers : g # h => task'[g] = task[g]
    BY ZenonT(30), <1>2, <1>3
<1>8. task'[h].st = "called" /\ task'[h].req \in Requests
    BY <1>7 DEF Called
<1>9. \A g \in Handlers : Queued(g)' <=> Queued(g) \/ g = h
    BY <1>4, <1>5 DEF Queued
<1>10. QueueInv'
    BY <1>5, <1>6, <1>7, <1>8, <1>9 DEF KvInv, QueueInv
<1> QED
    BY <1>10, <1>1, <1>4, <1>5, <1>7, HolderCalled DEF KvInv, DataInv, HolderInv, Req,
       Oversized, Holder

(* A handler is dropped.                                                    *)
LEMMA CancelInv ==
    ASSUME KvInv, NEW h \in Handlers, Cancel(h)
    PROVE  KvInv'
<1>1. /\ queue' \in Seq(Handlers) /\ queue # <<>>
      /\ \A i, j \in 1 .. Len(queue') : queue'[i] = queue'[j] => i = j
      /\ \A g \in Handlers : Queued(g)' <=> Queued(g) /\ g # h
      /\ h # Holder => queue' # <<>> /\ Holder' = Holder
    BY CancelQueued DEF KvInv
<1>2. /\ task' = [g \in Handlers |-> task'[g]]
      /\ task'[h] = Idle
      /\ \A g \in Handlers : g # h => task'[g] = task[g]
    BY DEF KvInv, QueueInv, Cancel
<1>3. DataInv'
    BY DEF KvInv, DataInv, Cancel
<1>4. HolderInv'
    <2>1. CASE h = Holder
        BY <2>1, KvAssumption DEF Cancel, HolderInv, Slots
    <2>2. CASE h # Holder
        BY <2>2, <1>1, <1>2, HolderCalled DEF Cancel, KvInv, Req, HolderInv, Oversized
    <2> QED
        BY <2>1, <2>2
<1> QED
    BY <1>1, <1>2, <1>3, <1>4 DEF KvInv, QueueInv, Idle

(* An answered handler returns.                                             *)
LEMMA RespondInv ==
    ASSUME KvInv, NEW h \in Handlers, Respond(h)
    PROVE  KvInv' /\ ~Queued(h)
<1>1. HolderInv'
    BY HolderCalled DEF KvInv, HolderInv, Req, Holder, Oversized, Idle, QueueInv, Respond
<1> QED
    BY <1>1 DEF KvInv, DataInv, QueueInv, Queued, Idle, Respond

(* A request of the holder goes out.                                        *)
LEMMA ReadSlotInv ==
    ASSUME KvInv, ReadSlot
    PROVE  KvInv'
<1>1. /\ queue # <<>> /\ waiting = "none" /\ Req.op # "stats"
      /\ ~(Req.op = "put" /\ Oversized(Req))
      /\ UNCHANGED <<table, connected>>
    BY DEF ReadSlot
<1>2. CASE connected
    <2>1. /\ responses' = Append(responses, [type |-> "ReadResp", data |-> table[Idx]])
          /\ waiting' = "slot"
          /\ UNCHANGED <<queue, task, probe, slots>>
        BY <1>2 DEF ReadSlot
    <2>2. HolderInv'
        BY <1>1, <2>1 DEF KvInv, HolderInv, Oversized, Req, Holder
    <2> QED
        BY <1>1, <2>1, IdxType, <2>2 DEF KvInv, DataInv, Responses, QueueInv, Queued
<1>3. CASE ~connected
    BY <1>3, <1>1, FinishInv DEF ReadSlot, KvInv, DataInv
<1> QED
    BY <1>2, <1>3

(* What a turn of a loop does with the slot it reads, by the request.       *)
LEMMA TakeSlotCases ==
    ASSUME TakeSlot
    PROVE  \/ Head(responses).type # "ReadResp" /\ Conclude(<<"Error">>)
           \/ /\ Head(responses).type = "ReadResp"
              /\ LET slot == Head(responses).data
                 IN  \/ Req.op = "slots" /\ Collect(slot)
                     \/ /\ Req.op = "put" /\ ~Occupied(slot)
                        /\ WriteSlot(encode_slot(Req.key, Req.value), "Inserted")
                     \/ Req.op \in {"get", "delete"} /\ ~Occupied(slot) /\ Conclude(<<"NotFound">>)
                     \/ /\ Req.op = "put" /\ Matches(slot)
                        /\ WriteSlot(encode_slot(Req.key, Req.value), "Updated")
                     \/ Req.op = "get" /\ Matches(slot) /\ Conclude(<<"Found", SlotValue(slot)>>)
                     \/ Req.op = "delete" /\ Matches(slot) /\ WriteSlot(ZeroedSlot, "Deleted")
                     \/ /\ Req.op \in KeyOps /\ Occupied(slot) /\ SlotKey(slot) # Req.key
                        /\ NextProbe
BY DEF TakeSlot, OnEmpty, OnMatch, Matches

(* The loops of put, get, delete and dump_slots.                            *)
LEMMA TakeSlotInv ==
    ASSUME KvInv, TakeSlot
    PROVE  KvInv'
<1>1. queue # <<>> /\ waiting = "slot" /\ responses # <<>> /\ UNCHANGED connected
    BY DEF TakeSlot
<1> DEFINE slot == Head(responses).data
<1>2. ASSUME NEW ans, Conclude(ans)
      PROVE  KvInv'
    BY <1>1, <1>2, ConcludeInv
<1>3. ASSUME Req.op = "put", NEW ans \in {"Inserted", "Updated"},
             WriteSlot(encode_slot(Req.key, Req.value), ans)
      PROVE  KvInv'
    BY <1>1, <1>3, HolderCalled, WrittenType, WriteSlotInv DEF KvInv, HolderInv
<1>4. ASSUME Req.op = "delete", WriteSlot(ZeroedSlot, "Deleted")
      PROVE  KvInv'
    BY <1>1, <1>4, WrittenType, WriteSlotInv
<1>5. ASSUME Head(responses).type = "ReadResp", Collect(slot)
      PROVE  KvInv'
    <2> DEFINE all == Append(slots, Info(slot))
    <2>1. all \in Seq(Infos) /\ Len(all) <= probe + 1
        BY <1>1, TakenType, <1>5, InfoType DEF Responses, KvInv, HolderInv, Slots
    <2>2. CASE probe + 1 < SLOT_COUNT
        BY <1>5, <2>2, <1>1, <2>1, NextTurnInv DEF Collect
    <2>3. CASE ~(probe + 1 < SLOT_COUNT)
        BY <1>5, <2>3, <1>2 DEF Collect
    <2> QED
        BY <2>2, <2>3
<1>6. ASSUME NextProbe
       PROVE  KvInv'
    BY <1>6, <1>1, NextTurnInv, <1>2 DEF NextProbe, KvInv, HolderInv, Slots
<1> QED
    BY <1>2, <1>3, <1>4, <1>5, <1>6, TakeSlotCases

(* The connection ends.                                                     *)
LEMMA LoseConnectionInv ==
    ASSUME KvInv, LoseConnection
    PROVE  KvInv'
<1>1. connected' = FALSE /\ UNCHANGED <<table, queue, task, probe, slots, waiting>>
    BY DEF LoseConnection
<1>2. PICK n \in 0 .. Len(responses) : responses' = SubSeq(responses, 1, n)
    BY DEF LoseConnection
<1>3. responses' \in Seq(Responses)
    BY <1>2 DEF KvInv, DataInv
<1>4. DataInv'
    BY ZenonT(30), <1>1, <1>3 DEF KvInv, DataInv
<1> QED
    BY <1>4, <1>1 DEF KvInv, QueueInv, Queued, HolderInv, Oversized, Req, Holder

(* The steps that end a method without a slot.                              *)
LEMMA FinishingInv ==
    ASSUME KvInv, PutTooLong \/ Stats \/ ReceiveFails \/ TakeWriteComp
    PROVE  KvInv'
<1>1. ASSUME PutTooLong \/ Stats \/ ReceiveFails
      PROVE  KvInv'
    <2>1. PICK ans : Finish(ans)
        BY <1>1 DEF PutTooLong, Stats, ReceiveFails
    <2> QED
        BY <2>1, <1>1, FinishInv DEF KvInv, PutTooLong, Stats, ReceiveFails, DataInv
<1>2. ASSUME TakeWriteComp
      PROVE  KvInv'
    BY <1>2, ConcludeInv DEF TakeWriteComp
<1> QED
    BY <1>1, <1>2

(* Every step keeps the invariant.                                          *)
LEMMA KvInvStep ==
    ASSUME KvInv, [KvNext]_kvVars
    PROVE  KvInv'
<1>1. CASE UNCHANGED kvVars
    BY <1>1 DEF kvVars, KvInv, QueueInv, HolderInv, DataInv, Queued, Req, Holder, Oversized
<1>2. ASSUME NEW h \in Handlers, Arrive(h) \/ Cancel(h) \/ Respond(h)
      PROVE  KvInv'
    BY <1>2, ArriveInv, CancelInv, RespondInv
<1>3. CASE HolderStep
    BY <1>3, FinishingInv, ReadSlotInv, TakeSlotInv DEF HolderStep
<1>4. CASE LoseConnection
    BY <1>4, LoseConnectionInv
<1> QED
    BY <1>1, <1>2, <1>3, <1>4 DEF KvNext

(* The table is empty at first.                                             *)
LEMMA KvInvInit ==
    ASSUME KvInit
    PROVE  KvInv
BY WrittenType, KvAssumption DEF KvInit, DataInv, QueueInv, Queued, Idle, HolderInv, Slots,
   KvInv

(* Whatever the requests, whoever gives up and whenever the connection ends:*)
(* the slots keep their layout, so that decode_slot stays inside them, and  *)
(* the mutex has exactly the unanswered requests.                           *)
THEOREM KvTypeCorrect == KvSpec => []KvTypeOK
<1>1. KvInit => KvInv
    BY KvInvInit
<1>2. KvInv /\ [KvNext]_kvVars => KvInv'
    BY KvInvStep
<1> QED
    BY PTL, <1>1, <1>2, InvTypeOK DEF KvSpec

-----------------------------------------------------------------------------
(* What a search knows.  A handler is not dropped at a response here, so    *)
(* the response a holder takes is the one to its own request; and while it  *)
(* holds the mutex the table does not change under it.                      *)

ResponseInv ==
    /\ waiting = "none" => responses = <<>>
    /\ waiting = "slot" =>
          \/ responses = <<>>
          \/ Len(responses) = 1 /\ responses[1] = [type |-> "ReadResp", data |-> table[Idx]]
    /\ waiting \notin {"none", "slot"} =>
          \/ responses = <<>>
          \/ Len(responses) = 1 /\ responses[1].type = "WriteComp"

Passed(k, n) ==
    \A j \in 1 .. n : Occupied(table[Path(k)[j]]) /\ SlotKey(table[Path(k)[j]]) # k

ScanInv ==
    /\ queue = <<>> => probe = 0 /\ slots = <<>>
    /\ queue # <<>> =>
          /\ Req.op \in KeyOps /\ waiting \in {"none", "slot"} => Passed(Req.key, probe)
          /\ Req.op = "slots" => slots = [i \in 1 .. probe |-> Info(table[i - 1])]
          /\ waiting # "none" => Req.op # "stats"
          /\ waiting \notin {"none", "slot"} => Req.op \in {"put", "delete"}

SearchInv == ResponseInv /\ ScanInv

(* What the table holds: pairs of requested keys, each where a search for   *)
(* its key passes over pairs only, and no key twice.                        *)
Reached(s) ==
    LET k == SlotKey(table[s])
    IN  /\ k \in Keys
        /\ \E i \in 1 .. SLOT_COUNT :
              Path(k)[i] = s /\ \A j \in 1 .. i : Occupied(table[Path(k)[j]])

StoredInv ==
    /\ \A s \in Slots : Occupied(table[s]) => Reached(s)
    /\ \A s, t \in Slots :
          /\ Occupied(table[s]) /\ Occupied(table[t])
          /\ SlotKey(table[s]) = SlotKey(table[t])
          => s = t

(* A handler that has just got the mutex has not searched yet.              *)
LEMMA SearchFresh ==
    ASSUME responses' = <<>>, probe' = 0, slots' = <<>>, waiting' = "none"
    PROVE  SearchInv'
BY DEF ResponseInv, Passed, ScanInv, SearchInv

(* A search goes on as it was while other handlers come and go.             *)
LEMMA SearchKept ==
    ASSUME SearchInv, UNCHANGED <<table, responses, probe, slots, waiting>>,
           queue # <<>>, queue' # <<>>, Req' = Req
    PROVE  SearchInv'
BY DEF Idx, SearchInv, ResponseInv, Passed, ScanInv

(* The one response that a holder may find is the one it awaits.            *)
LEMMA OwnResponse ==
    ASSUME KvInv, SearchInv, waiting # "none", responses # <<>>
    PROVE  /\ Tail(responses) = <<>>
           /\ Len(responses) = 1
           /\ waiting = "slot" =>
                 Head(responses).type = "ReadResp" /\ Head(responses).data = table[Idx]
           /\ waiting # "slot" => Head(responses).type = "WriteComp"
BY SeqEntry DEF SearchInv, ResponseInv, KvInv, DataInv

(* A method that ends has taken the response it awaited.                    *)
LEMMA ConcludeSearch ==
    ASSUME KvInv, SearchInv, waiting # "none", responses # <<>>, NEW ans, Conclude(ans)
    PROVE  SearchInv'
BY OwnResponse, SearchFresh DEF Conclude, Finish

(* The steps that end a method without a slot.                              *)
LEMMA FinishingSearch ==
    ASSUME KvInv, SearchInv, PutTooLong \/ Stats \/ ReceiveFails \/ TakeWriteComp
    PROVE  SearchInv'
<1>1. ASSUME PutTooLong \/ Stats \/ ReceiveFails
      PROVE  SearchInv'
    BY <1>1, SearchFresh DEF PutTooLong, Stats, ReceiveFails, Finish, SearchInv, ResponseInv,
       ScanInv
<1>2. ASSUME TakeWriteComp
      PROVE  SearchInv'
    BY <1>2, ConcludeSearch DEF TakeWriteComp
<1> QED
    BY <1>1, <1>2

(* A request of the holder goes out, and no other response is under way.    *)
LEMMA ReadSlotSearch ==
    ASSUME KvInv, SearchInv, ReadSlot
    PROVE  SearchInv'
<1>1. /\ queue # <<>> /\ waiting = "none" /\ Req.op # "stats"
      /\ UNCHANGED <<table, connected>> /\ responses = <<>>
    BY DEF ReadSlot, SearchInv, ResponseInv
<1>2. CASE connected
    <2>1. /\ responses' = Append(responses, [type |-> "ReadResp", data |-> table[Idx]])
          /\ waiting' = "slot"
          /\ UNCHANGED <<queue, task, probe, slots>>
        BY <1>2 DEF ReadSlot
    <2>2. Req' = Req /\ Holder' = Holder
        BY <2>1 DEF Req, Holder
    <2>3. Passed(Req.key, probe)' <=> Passed(Req.key, probe)
        BY <1>1, <2>1, <2>2 DEF Passed
    <2> QED
        BY <1>1, <2>1, <2>2, <2>3 DEF SearchInv, ResponseInv, Idx, ScanInv
<1>3. CASE ~connected
    BY <1>1, <1>3, SearchFresh DEF ReadSlot, Finish
<1> QED
    BY <1>2, <1>3

(* A write goes out in the place of the response it follows.                *)
LEMMA WriteSlotSearch ==
    ASSUME KvInv, SearchInv, waiting # "none", queue # <<>>, responses # <<>>,
           Req.op \in {"put", "delete"},
           NEW data, NEW ans \in {"Inserted", "Updated", "Deleted"}, WriteSlot(data, ans)
    PROVE  SearchInv'
<1>1. CASE connected
    BY <1>1, OwnResponse DEF WriteSlot, ResponseInv, Req, Holder, ScanInv, SearchInv
<1>2. CASE ~connected
    BY <1>2, ConcludeSearch DEF WriteSlot, Conclude
<1> QED
    BY <1>1, <1>2

(* A search that goes on has passed one slot more.                          *)
LEMMA NextProbeSearch ==
    ASSUME KvInv, SearchInv, waiting = "slot", queue # <<>>, responses # <<>>,
           Req.op \in KeyOps, Occupied(table[Idx]), SlotKey(table[Idx]) # Req.key,
           NextTurn, UNCHANGED slots
    PROVE  Passed(Req.key, probe + 1) /\ SearchInv'
<1>1. /\ probe' = probe + 1 /\ waiting' = "none" /\ responses' = Tail(responses)
      /\ UNCHANGED <<table, queue, task>>
    BY DEF NextTurn
<1>2. Passed(Req.key, probe + 1)
    <2>1. Passed(Req.key, probe) /\ Idx = Path(Req.key)[probe + 1]
        BY IdxType DEF KeyOps, SearchInv, ScanInv
    <2>2. probe \in Nat
        BY DEF KvInv, HolderInv, Slots
    <2> QED
        BY <2>1, <2>2 DEF Passed
<1>3. ScanInv'
    BY <1>1, <1>2 DEF ScanInv, Passed, KeyOps, SearchInv, Req, Holder
<1> QED
    BY <1>1, OwnResponse, <1>2, <1>3 DEF SearchInv, ResponseInv

(* A dump that goes on has one slot more.                                   *)
LEMMA CollectSearch ==
    ASSUME KvInv, SearchInv, waiting = "slot", queue # <<>>, Req.op = "slots"
    PROVE  /\ Append(slots, Info(table[Idx]))
                  = [i \in 1 .. probe + 1 |-> Info(table[i - 1])]
           /\ responses # <<>> /\ NextTurn /\ slots' = Append(slots, Info(table[Idx]))
                  => SearchInv'
<1>1. probe \in Nat /\ Idx = probe
    BY DEF KvInv, HolderInv, Slots, Idx
<1> DEFINE x == Info(table[Idx])
           all == [i \in 1 .. probe + 1 |-> Info(table[i - 1])]
<1>2. x = all[probe + 1]
    BY <1>1
<1>3. Len(slots) = probe /\ \A i \in 1 .. probe : slots[i] = all[i]
    BY <1>1 DEF SearchInv, ScanInv
<1>4. Append(slots, x) = all
    <2>1. all \in Seq(Infos) /\ Len(all) = probe + 1 /\ x \in Infos
        BY <1>1, KvAssumption, InfoType DEF KvInv, HolderInv, Slots, DataInv
    <2> HIDE DEF x, all
    <2> QED
        BY <2>1, <1>3, <1>2 DEF KvInv, HolderInv
<1> HIDE DEF x, all
<1>5. ASSUME responses # <<>>, NextTurn, slots' = Append(slots, Info(table[Idx]))
      PROVE  SearchInv'
    BY <1>5, OwnResponse, <1>4 DEF NextTurn, ResponseInv, Req, Holder, x, all, ScanInv,
       KeyOps, SearchInv
<1> QED
    BY <1>4, <1>5 DEF x, all

(* The loops of put, get, delete and dump_slots.                            *)
LEMMA TakeSlotSearch ==
    ASSUME KvInv, SearchInv, TakeSlot
    PROVE  SearchInv'
<1>1. queue # <<>> /\ waiting = "slot" /\ responses # <<>>
    BY DEF TakeSlot
<1> DEFINE slot == Head(responses).data
<1>2. ASSUME NEW ans, Conclude(ans)
      PROVE  SearchInv'
    BY <1>1, <1>2, ConcludeSearch
<1>3. ASSUME Req.op \in {"put", "delete"}, NEW data, NEW ans \in {"Inserted", "Updated", "Deleted"},
             WriteSlot(data, ans)
      PROVE  SearchInv'
    BY <1>1, <1>3, WriteSlotSearch
<1>4. ASSUME Req.op = "slots", Collect(slot)
      PROVE  SearchInv'
    BY <1>1, OwnResponse, <1>4, CollectSearch, <1>2 DEF Collect
<1>5. ASSUME Req.op \in KeyOps, Occupied(slot), SlotKey(slot) # Req.key, NextProbe
      PROVE  SearchInv'
    BY <1>1, OwnResponse, <1>5, NextProbeSearch, <1>2 DEF NextProbe
<1> QED
    BY <1>2, <1>3, <1>4, <1>5, TakeSlotCases

(* Handlers come and go.                                                    *)
LEMMA HandlersSearch ==
    ASSUME KvInv, SearchInv, MaxUnread = 0,
           NEW h \in Handlers, Arrive(h) \/ Cancel(h) \/ Respond(h)
    PROVE  SearchInv'
<1>1. CASE Arrive(h)
    <2>1. CASE queue = <<>>
        BY <1>1, <2>1, SearchFresh DEF KvInv, HolderInv, SearchInv, ResponseInv, ScanInv,
           Arrive
    <2>2. CASE queue # <<>>
        <3>1. queue' # <<>> /\ Holder' = Holder /\ Holder # h /\ Holder \in Handlers
            BY <1>1, <2>2, ArriveInv, HolderCalled DEF KvInv
        <3> QED
            BY <1>1, <2>2, <3>1, SearchKept DEF Arrive, Req, KvInv, QueueInv
    <2> QED
        BY <2>1, <2>2
<1>2. CASE Cancel(h)
    <2>1. queue # <<>> /\ (h # Holder => queue' # <<>> /\ Holder' = Holder)
        BY SMTT(30), <1>2, CancelQueued DEF KvInv
    <2>2. CASE h = Holder
        BY <1>2, <2>2, SearchFresh DEF Cancel, SearchInv, ResponseInv
    <2>3. CASE h # Holder
        BY <1>2, <2>3, <2>1, SearchKept DEF Cancel, KvInv, QueueInv, Req
    <2> QED
        BY <2>2, <2>3
<1>3. CASE Respond(h)
    <2>1. UNCHANGED <<table, responses, queue, probe, slots, waiting>>
        BY <1>3 DEF Respond
    <2>2. CASE queue = <<>>
        BY <2>1, <2>2 DEF KvInv, HolderInv, SearchInv, ResponseInv, ScanInv
    <2>3. CASE queue # <<>>
        BY <1>3, <2>3, RespondInv, HolderCalled, <2>1, SearchKept DEF KvInv, Respond,
           QueueInv, Holder, Req
    <2> QED
        BY <2>2, <2>3
<1> QED
    BY <1>1, <1>2, <1>3

(* The connection ends, with the response or without.                       *)
LEMMA LoseConnectionSearch ==
    ASSUME KvInv, SearchInv, LoseConnection
    PROVE  SearchInv'
<1>1. UNCHANGED <<table, queue, task, probe, slots, waiting>>
    BY DEF LoseConnection
<1>2. PICK n \in 0 .. Len(responses) : responses' = SubSeq(responses, 1, n)
    BY DEF LoseConnection
<1>3. responses' = <<>> \/ responses' = responses
    <2>1. CASE n = 0
        BY <1>2, <2>1
    <2>2. CASE n # 0
        <3>1. n = Len(responses)
            <4>1. PICK m \in {0, 1} : m = Len(responses)
                BY DEF SearchInv, ResponseInv, KvInv, HolderInv
            <4> QED
                BY <2>2, <4>1
        <3> QED
            BY <1>2, <3>1 DEF KvInv, DataInv
    <2> QED
        BY <2>1, <2>2
<1>4. Idx' = Idx /\ Req' = Req
    BY <1>1 DEF Idx, Req, Holder
<1>5. Passed(Req.key, probe)' <=> Passed(Req.key, probe)
    BY <1>1, <1>4 DEF Passed
<1>6. ScanInv'
    BY <1>1, <1>4, <1>5 DEF SearchInv, ScanInv
<1> QED
    BY <1>1, <1>3, <1>4, <1>6 DEF SearchInv, ResponseInv

(* Every step keeps what a search knows.                                    *)
LEMMA SearchInvStep ==
    ASSUME KvInv, SearchInv, MaxUnread = 0, [KvNext]_kvVars
    PROVE  SearchInv'
<1>1. CASE UNCHANGED kvVars
    BY <1>1, SearchKept DEF kvVars, Req, Holder, KvInv, HolderInv, SearchInv, ResponseInv,
       ScanInv
<1>2. ASSUME NEW h \in Handlers, Arrive(h) \/ Cancel(h) \/ Respond(h)
      PROVE  SearchInv'
    BY <1>2, HandlersSearch
<1>3. CASE HolderStep
    BY <1>3, FinishingSearch, ReadSlotSearch, TakeSlotSearch DEF HolderStep
<1>4. CASE LoseConnection
    BY <1>4, LoseConnectionSearch
<1> QED
    BY <1>1, <1>2, <1>3, <1>4 DEF KvNext

(* No search is under way at first.                                         *)
LEMMA SearchInvInit ==
    ASSUME KvInit
    PROVE  SearchInv
BY DEF KvInit, SearchInv, ResponseInv, ScanInv

-----------------------------------------------------------------------------
(* How a search ends, and what is in the table then.                        *)

(* The first of a set of turns.                                             *)
LEMMA FirstIs ==
    ASSUME NEW I \in SUBSET Nat, NEW i \in I, \A j \in I : i <= j
    PROVE  First(I) = i
<1>1. First(I) \in I /\ \A j \in I : First(I) <= j
    BY ZenonT(30) DEF First
<1>2. First(I) <= i /\ i <= First(I)
    BY ZenonT(30), <1>1
<1>3. First(I) \in Nat /\ i \in Nat
    BY ZenonT(30), <1>1
<1> QED
    BY <1>2, <1>3

(* A search that meets an empty slot, or none of its key in the whole       *)
(* table, is for a key that the table does not have.                        *)
LEMMA EndsAbsent ==
    ASSUME NEW k \in Keys, NEW n \in 0 .. SLOT_COUNT, Passed(k, n),
           n < SLOT_COUNT => ~Occupied(table[Path(k)[n + 1]])
    PROVE  Hits(k) = {}
BY KvAssumption DEF Hits, Passed

(* A search that meets its key has found what Lookup says.                  *)
LEMMA EndsFound ==
    ASSUME NEW k \in Keys, NEW n \in 0 .. SLOT_COUNT - 1, Passed(k, n),
           Occupied(table[Path(k)[n + 1]]), SlotKey(table[Path(k)[n + 1]]) = k
    PROVE  Hits(k) # {} /\ Lookup(k) = SlotValue(table[Path(k)[n + 1]])
<1>1. ASSUME NEW j \in Hits(k)
      PROVE  n + 1 <= j
    BY DEF Hits, Passed
<1> QED
    BY KvAssumption, <1>1, FirstIs DEF Lookup, Hits, Passed

(* The holder is the one whose request a step answers.                      *)
LEMMA FinishAnswers ==
    ASSUME KvInv, queue # <<>>, NEW ans, Finish(ans), NEW h \in Handlers,
           task[h].st = "called", task'[h].st = "answered"
    PROVE  h = Holder /\ task[h].req = Req /\ task'[h].ans = ans
BY DEF Finish, Answered, Req

(* A step that ends a method for another request or with an error answers   *)
(* no GET.                                                                  *)
LEMMA NoGetAnswered ==
    ASSUME KvInv, queue # <<>>, NEW ans, Finish(ans), Req.op # "get" \/ ans = <<"Error">>,
           NEW h \in Handlers
    PROVE  GetAnswer(h)
BY FinishAnswers DEF GetAnswer

(* The loop of get.                                                         *)
LEMMA TakeSlotTrue ==
    ASSUME KvInv, SearchInv, TakeSlot, NEW h \in Handlers
    PROVE  GetAnswer(h)
<1>1. queue # <<>> /\ waiting = "slot" /\ responses # <<>>
    BY DEF TakeSlot
<1>2. Head(responses).type = "ReadResp" /\ Head(responses).data = table[Idx]
    BY <1>1, OwnResponse
<1> SUFFICES ASSUME task[h].st = "called", task[h].req.op = "get",
                    task'[h].st = "answered", task'[h].ans # <<"Error">>
             PROVE  LET k == task[h].req.key
                    IN  task'[h].ans = IF Hits(k) = {} THEN <<"NotFound">>
                                       ELSE <<"Found", Lookup(k)>>
    BY DEF GetAnswer
<1>3. PICK ans : Finish(ans)
    BY TakeSlotCases DEF Conclude, WriteSlot, NextProbe, NextTurn, Collect
<1>4. h = Holder /\ task[h].req = Req /\ task'[h].ans = ans /\ Req.op = "get"
    BY <1>1, <1>3, FinishAnswers
<1> DEFINE k == Req.key
<1>5. /\ Passed(k, probe) /\ k \in Keys /\ Req.op \in KeyOps
      /\ Req.op # "put" /\ Req.op # "delete" /\ Req.op # "slots" /\ Req.op # "stats"
    BY SMTT(30), <1>1, <1>4, HolderCalled, RequestType DEF SearchInv, ScanInv, KvInv, KeyOps
<1>6. /\ Idx = Path(k)[probe + 1] /\ probe \in 0 .. SLOT_COUNT - 1
      /\ SLOT_COUNT \in Nat \ {0}
    BY <1>1, <1>5, IdxType, KvAssumption DEF KvInv, HolderInv, Slots
<1>7. ASSUME ~Occupied(table[Idx]), Conclude(<<"NotFound">>)
      PROVE  task'[h].ans = <<"NotFound">> /\ Hits(k) = {}
    BY <1>5, <1>6, <1>7, <1>1, FinishAnswers, EndsAbsent DEF Conclude
<1>8. ASSUME Matches(table[Idx]), Conclude(<<"Found", SlotValue(table[Idx])>>)
      PROVE  task'[h].ans = <<"Found", Lookup(k)>> /\ Hits(k) # {}
    BY <1>1, <1>8, FinishAnswers, <1>5, <1>6, EndsFound DEF Conclude, Matches
<1>9. ASSUME Occupied(table[Idx]), SlotKey(table[Idx]) # k, NextProbe
      PROVE  task'[h].ans = <<"NotFound">> /\ Hits(k) = {}
    BY <1>1, <1>9, <1>5, FinishAnswers, <1>6, EndsAbsent DEF Conclude, NextProbe, NextTurn,
       Passed
<1> QED
    BY <1>2, <1>4, <1>7, <1>8, <1>9, TakeSlotCases

(* Every other step.                                                        *)
LEMMA StepGetsTrue ==
    ASSUME KvInv, SearchInv, KvNext, NEW h \in Handlers
    PROVE  GetAnswer(h)
<1>1. ASSUME UNCHANGED task  PROVE GetAnswer(h)
    BY <1>1 DEF GetAnswer
<1>2. ASSUME NEW g \in Handlers, Arrive(g) \/ Cancel(g) \/ Respond(g)
      PROVE  GetAnswer(h)
    <2>1. \E t : task' = [task EXCEPT ![g] = t] /\ t.st # "answered"
        BY <1>2 DEF Arrive, Cancel, Respond, Called, Idle
    <2> QED
        BY <2>1 DEF GetAnswer
<1>3. CASE PutTooLong
    BY <1>3, NoGetAnswered DEF PutTooLong
<1>4. CASE Stats
    BY <1>4, NoGetAnswered DEF Stats
<1>5. CASE ReadSlot
    BY <1>1, <1>5, NoGetAnswered DEF ReadSlot
<1>6. CASE TakeSlot
    BY <1>6, TakeSlotTrue
<1>7. CASE TakeWriteComp
    BY <1>7, NoGetAnswered DEF TakeWriteComp, SearchInv, ScanInv, Conclude
<1>8. CASE ReceiveFails
    BY <1>8, NoGetAnswered DEF ReceiveFails
<1>9. CASE LoseConnection
    BY <1>1, <1>9 DEF LoseConnection
<1> QED
    BY <1>2, <1>3, <1>4, <1>5, <1>6, <1>7, <1>8, <1>9 DEF KvNext, HolderStep

(* As long as no handler is dropped at a response (kv_cancelled shows what  *)
(* happens otherwise), a GET answers for the table as it is at that moment, *)
(* whatever is deleted and however the connection ends.                     *)
THEOREM KvGetsAreTrue ==
    ASSUME MaxUnread = 0
    PROVE  KvSpec => GetsAreTrue
<1>1. KvInit => KvInv /\ SearchInv
    BY KvInvInit, SearchInvInit
<1>2. KvInv /\ SearchInv /\ [KvNext]_kvVars => KvInv' /\ SearchInv'
    BY KvInvStep, SearchInvStep
<1>3. KvInv /\ SearchInv /\ [KvNext]_kvVars => [\A h \in Handlers : GetAnswer(h)]_kvVars
    BY StepGetsTrue
<1> QED
    BY PTL, <1>1, <1>2, <1>3 DEF KvSpec, GetsAreTrue

=============================================================================
