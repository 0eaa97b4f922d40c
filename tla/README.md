# A formal model of RDoWS

RDoWS carries RDMA verbs over a WebSocket. This directory holds TLA+ modules
that model its server, its client library and the key-value service built on
them, and its wire format; TLC configurations that check them on small instances;
and TLAPS proofs of what matters most about the server and about a client and
its session together, for every value of the constants.

Run from this directory:

    tlc -workers 2 -config MCSession.cfg MCSession      # any of the runs below
    tlapm SessionProofs.tla                             # any of the proof modules

`PROJECT.json` lists the runs with their properties, the source lines each
definition models, the known hazards of the code, and the disagreements between
code and documents that the runs show.

## The system

| Part | Source | State | Operations | Module |
|---|---|---|---|---|
| Memory store | `rdows-server/src/memory_store.rs` | regions by L_Key, R_Key to L_Key, used R_Keys, next L_Key, byte count | register, deregister, write, read, atomic | `MemoryStore` |
| Session | `rdows-server/src/session.rs`, `handler.rs` | session state, sequence numbers, pending operation, receive depth, credits, rate window | one handler per message | `Session` |
| Rate limiter | `handler.rs:70-86` | window start, count | MR_REG | `RateLimit` |
| Accept loop | `rdows-server/src/lib.rs` | count per address | admit, refuse, handshakes, release | `SessionTracker` |
| Client library | `rdows-client/src/*.rs` (not `main.rs`) | sequence numbers, credits, completion queue, local buffers | verbs, connect, disconnect, poll | `Client` |
| Connection | both | frames under way in each direction | | `Rdows` |
| Key-value service | `rdows-kv/src/kv.rs`, `api.rs` | remote table, mutex, connection | PUT, GET, DELETE, slots, stats | `KvStore`, `KvMap` |
| Codec | `rdows-core/src/message.rs`, `frame.rs`, `queue.rs`, `opcode.rs`, `error.rs` | none | encode, decode | `Codec` |

How they interact. A server task per connection is admitted by the accept loop
and runs one session, which owns one memory store. The session takes one message
at a time and handles it to the end, replies included. The client runs one verb
at a time: a verb sends one frame or two, then takes frames until one answers it.
Frames travel in order and are lost only with the connection. The key-value
service shares one client between HTTP handlers through a mutex and does several
RDMA operations per request. Above the codec messages are records: `Session`,
`Client` and `KvStore` take from it that a message arrives as it was sent.

What is hard about it:

* a WRITE or SEND is two frames, and the server may refuse the first while the
  second is on its way;
* nothing in an answer ties it to its request but its place in the stream;
* each end keeps sequence numbers, credits and region tables that must match the
  other's, through wrap-around and refusals;
* the lengths and counts in a frame come from the peer, and the arithmetic on
  them is not always checked;
* tasks of one address count themselves in and out around long awaits;
* a request to the key-value service is not atomic, may lose its connection in
  the middle, and may be abandoned by its client at any await.

## Modules

**`MemoryStore`** has one action per method. The status a method returns is a
state function of its own (`RegisterStatus`, `WriteStatus`, ...), and the action
leaves the store alone when the status is an error. Memory is counted in cells,
each half of an atomic word: the coarsest unit that still has misaligned
addresses, torn words and carries. The random R_Key is any key not used before, or
none (`DrawnRkeys`). The byte count is an integer below `U64`, which is 2^64 in the
code: a length that overflows it panics in a build with overflow checks, and in
one without is refused by the wrapped sum or panics in the allocation
(`RegisterPanics`).

**`Session`** has the checks of `handle_message` (`RefusePayload`,
`RefuseSequence`) and one operator per handler, each with every reply it sends.
`expected_remote_seq` is set from CONNECT, so its `None` never meets a check.
`PeerSends` puts any frame on the wire, so the session's properties do not depend
on a well-behaved client. The clock behind the MR_REG window is a free choice
(`elapsed`). Bytes that do not decode end the session like a lost connection
(`ConnectionLost`); so does a registration that panics. A payload over the
negotiated size is refused by the session (`RefusePayload`) only if the WebSocket
library, which has a limit of its own, delivers it: with the default of 16 MiB on
both sides the library's limit is the one met first, and the case needs a peer
that negotiated less.

**`RateLimit`** has the same limiter with a clock that ticks, and a history of what
it admitted: when, in which window and as which of that window.

**`Client`** cuts each verb at its awaits: `Begin` (the checks and the first
frame), `SendData` (the second frame of SEND and WRITE), `TakeCredit` and
`TakeAnswer`. A call that its checks refuse changes nothing and is no step.
Entries of the completion queue are reduced to success or failure. The sums of
offset and length in `gather_sg_data`, `rdma_read` and the local accesses are
unchecked additions of `usize`; the model takes them not to overflow.

**`Rdows`** puts a client and a session on the two ends of a connection. Its
history variable `in_step` becomes false when the server refuses a frame without
consuming what belongs to it (a refused WRITE, payload or sequence number); the
properties of the pair that rely on answers matching requests are stated for
behaviours in step, and the runs `write_completion` and `sequence_gap` show what
happens out of step.

**`SessionTracker`** has a program counter per connection task. The blocks under
the mutex are one action each; the three identical exit blocks are `Release`. A
session that panics (`SessionPanics`) unwinds its task past the exit block.

**`KvStore`** keeps the table as slots of cells, encoded and decoded as in
`kv.rs` (status, lengths, padded key, padded value). The mutex is the queue of the
handlers waiting for it, first come first served; its head holds it. The
connection is abstracted as `Rdows` justifies: a request takes effect when sent
and its response joins a queue from which the next receive takes. What a receive
checks is the kind of the response, as in `rdma_read` and `rdma_write`. The hash is
a parameter. Listing the slots reads them one by one under the mutex; the
statistics only take and drop the mutex (`Stats`). The completion queue needs no model
here: each operation polls its completion before the next, and the server
never refuses the in-bounds requests the store makes.

**`KvMap`** is the abstract specification: a map of bounded size on which each
request takes effect at one moment between call and answer. `KvStore` is shown to
implement it under the mapping in which the map is what searches of the table
find (`Found`); a listing of the slots is the map at one moment.

**`Codec`** is the wire format, byte by byte, with the code's sizes. The layouts are
tables of fields; encode and decode follow the code per opcode, including the
counts cast to 16 bits, the subtractions from `payload_length` that are not
checked for underflow, the optional L_Key and the lossy decoding of a description
(`Lossy`): what is not a UTF-8 character becomes U+FFFD, three bytes for as few as
one, so a description may come out longer than it was sent. The memory a WRITE's
list asks for before its bytes are counted, up to about 4 GiB, is taken to be
there; only the overflow of a capacity panics.
A frame may be cut, extended, given another `payload_length` or have a byte
changed before it is decoded. Multi-byte integers are in base `Radix`, 256 in the
code and 10 in the run, so that 16-bit counts wrap within a frame of moderate
size.

Definitions named `Bad...` are plausible faults of the definition after them.
Nothing refers to them; substituting one makes the property named in
`PROJECT.json` fail, which shows that the property can.

## Runs

| Run | States | Shows |
|---|---|---|
| `session` | 1,879,793 | Whatever a peer sends: a message answered with ERROR changes nothing but the operation announced before it; WRITE_COMP means the data is in a live, writable region where the WRITE said; memory changes only in answered requests; read-only regions stay zero; no R_Key is reused; the store is used within its specification. |
| `client_memory` | 2,967,578 | Client and server agree on regions and keys between verbs; the store's keys and regions correspond one to one and its byte count is exact, lengths that overflow it included; no call changes a region's shape; no answer is left over when a verb has returned; a verb that returns Ok has been carried out, with torn, misaligned and wrapping words. |
| `client_traffic` | 1,041,562 | Sequence numbers agree on both ends through wrap-around; credits are neither lost nor made up; answers match requests across ERR_RNR and discarded data; no completion is dropped; every verb returns (liveness), also out of step and when the connection is lost. |
| `tracker` | 272,824 | Counts per address are exact and within the limit; every slot comes back but those of sessions that panicked (liveness). |
| `rate` | 31,514 | At most twice the limit in any second; refusals only of a session that has used its limit. |
| `kv_table` | 83,146 | PUT and GET of colliding keys, DELETE of a key that no search passes on its way to another, and listings, implement the map; every stored pair is found, and a GET answers what the table holds. |
| `kv_answered` | 245,428 | Every request at the mutex is answered or abandoned (liveness). |
| `codec` | 77,262 | Every opcode survives the wire, lists and descriptions up to their length modulo 2^16; a frame that lost its end is refused or lost only what is optional; what was decoded from any frame can be sent on unchanged, a description that decoding has made longer than its count excepted; decode panics only where `payload_length` is below the fixed part of a WRITE or READ_RESP. |

Four runs are expected to find a violation; each checks a sentence of a document
(quoted in `PROJECT.json`) that the code does not keep:

* `write_completion`: a refused WRITE is answered twice, so later answers are
  taken by the wrong verb, and a write returns Ok before its data is written.
* `sequence_gap`: a session that reports a sequence gap stays open and refuses
  everything that follows.
* `kv_delete_collides`: deleting a key empties a slot in another key's probe path.
* `kv_cancelled`: an abandoned request leaves its response to the next one.

`rate` has a smaller one: the documents ask for a sliding window
(`docs/prompts/5_DOS.md:21`), the code restarts a fixed one, and twice the limit is
the bound that holds.

### Bounds

Every bound is a constant. Lengths of one to three cells reach within, at and
past the end of a region and have aligned and misaligned words. Two or three
R_Keys and L_Keys allow reuse after deregistration and the failure of
`generate_rkey`. `SeqSpace` of 2 to 4 makes sequence numbers wrap within a few
verbs. `ICC` of 8 grants credits every two sends, and `RecvQueueDepth` lets a
grant happen before the queue is exhausted. `CqCapacity` of 1 or 2 fills the
completion queue. `MaxInFlight` and `MaxLag` bound frames under way when another is
sent: the client waits for its answers, so only the data of a refused SEND or
WRITE and a CREDIT_UPDATE can be under way between verbs. `U64` of 32 with a
length of 31 overflows the byte count as soon as one cell is registered. The
tracker has five tasks of two addresses and a limit of two, so that a panicked
session, a full address and a refusal meet. The rate limiter has three seconds of
three ticks. The table has two slots for three keys, so that it fills and searches
wrap; `MaxUnread` bounds the responses abandoned requests leave. The codec sends
every opcode with zero, maximal and distinct fields and with lists and
descriptions of a length just below, at and above where their count wraps.
`Lengths` and `StrangeBytes` hold the values around each comparison of decode.
Symmetry is used
only for R_Keys, and never with a liveness property.

Deadlock is not checked where the system may stop: a closed session, or a client
that has disconnected.

### Fairness

`client_traffic` assumes that the server goes on taking messages and the client
goes on with the verb it is in (both are tasks of the tokio scheduler). The
application need not start anything and the connection need not fail.
`tracker` assumes that a task waiting for the tracker's mutex gets it: no
task holds it across an await. The handshakes have no timeout and are not assumed
to end. `kv_answered` assumes that the task that holds the mutex goes on; tokio's
mutex is fair, which the queue models.

## Proofs

All for arbitrary constants that satisfy the modules' named assumptions.

* **`MemoryStoreProofs`**: `StoreTypeCorrect`, `KeysAlwaysAgree`,
  `AccountingAlwaysExact`, `ReadOnlyAlwaysZero`, `NoRkeyReuse`, `ShapeKept`. None of
  the invariants is inductive alone: deregister keeps the byte count a natural
  number only because the accounting is exact, the accounting needs each region's
  L_Key to be below `next_lkey` so that register adds cells that are new, and
  writes stay within a region only because the key maps agree. `StoreInv` is their
  conjunction with the finiteness of the cells held; the action properties follow
  from it step by step.
* **`SessionProofs`**: `SessionTypeCorrect`, and `SessionImplementsStore`: each
  step of a session, whatever message it takes, is a step of `StoreSpec` or leaves
  the store alone. The store's theorems therefore hold in every session
  (`SessionKeepsStoreInvariants`).
  `ErrorsOnlyChangePending`, `WriteCompTruthful` and `NoSilentMemoryChange` are
  shown handler by handler: what a handler adds to the replies, and that the store
  changes only on the branch that answers success. The second needs the store's
  invariants, through `SessionImplementsStore`: the region a WRITE_DATA lands in is
  found by a key that may have been dropped and granted anew since the WRITE. The
  first is about one message: it does not say that an operation of two messages
  that fails at the second leaves no trace of the first. A SEND has used its
  receive by then.
* **`LimitProofs`**, the accept loop: `TrackerTypeCorrect`, `CountsAlwaysExact` and
  `LimitAlwaysRespected`. The check compares the limit with a count that is exact,
  and the count is exact because each counted task finds the entry it decrements;
  `TrackerInv` says so together with the types. A session that panicked stays
  counted.
* **`LimitProofs`**, the rate limiter: `RateTypeCorrect`, `TwiceTheLimitAlways`,
  `RefusalsAlwaysJustified`. The counter alone says nothing about a second that
  straddles two windows. `RateInv` adds that windows that admitted something are
  at least a second apart (so a second meets two of them at most) and that a
  window numbers what it admits from 1 to the limit (so each contributes at most
  the limit).
* **`RdowsProofs`**: `SequencesAlwaysAgree`, `NoCompletionEverDropped`. Agreement at
  the ends is not inductive, because taking a frame exposes the next one. `SeqInv`
  says it of the frames under way: each channel holds consecutive numbers modulo
  `SeqSpace`, from what the receiver expects to what the sender uses next. For
  completions, `CqInv` ties the room in the queue to the verb that is under way.
* **`PairingProofs`**: `AnswersAlwaysPaired`. `PairInv` lists, for each phase of the
  client, what may be under way in either direction and what the session waits
  for: a request, its body, or exactly one answer, each perhaps behind the body
  of a SEND that was refused and is to be discarded. It uses `SeqInv`: while
  sequence numbers agree no frame is refused for its number, so none is answered
  out of turn.
* **`HandleProofs`**: `HandlesAlwaysAgree`. The server changes its table when it
  answers, the client when it takes the answer; in between they differ.
  `HandleInv` says what the answer under way will do: applied to the client's
  table it gives the server's, and with no answer under way the tables agree. That
  there is one answer and that it belongs to the verb is `PairInv`.
* **`KvStoreProofs`**: `KvTypeCorrect`, `KvGetsAreTrue`. **`KvMapProofs`**:
  `KvImplementsMap`, `KvImplementsMapWithoutDelete`. See below.

### The key-value store

The proof that `KvStore` implements `KvMap` rests on three invariants, each of which
needs the one before.

* `KvInv`: the types of what is stored, queued and awaited. The queue of the mutex
  has each unanswered request once, a slot has the layout that `encode_slot`
  writes, and the holder is at a turn of its loop that exists. It holds
  whatever is deleted and wherever a handler is dropped; `KvTypeCorrect` follows.
* `SearchInv`: what the holder of the mutex knows. The one response on the
  connection is the one it awaits, read from the slot as it still is; the slots of
  the path before its turn are occupied by other keys; a listing so far is the
  beginning of the table. It holds as long as no handler is dropped at a response
  (`MaxUnread = 0`), and gives `KvGetsAreTrue`.
* `StoredInv`: no key is stored twice, and every slot on the path of a stored key
  before its own is occupied. PUT keeps it because it writes at the first slot
  that is empty or its own. DELETE keeps it if `DeletesCutNothing`: the slot it
  empties is not passed by the search for another stored key. It gives that a
  search finds what is stored, and that the keys found are as many as the slots
  occupied, which is what `TableFull` reports. With that condition assumed, that
  every stored pair is found (`StoredKeysAreFound`) says little more than the
  invariant itself, so it is left to TLC, which shows it in `kv_table` and refutes
  it in `kv_delete_collides`.

`KvImplementsMap` then takes each action to a step of the map or to none. A write
takes effect when it is sent, a GET, a listing and a refusal when they are answered,
and an error leaves open which. Both conditions are needed and the code guarantees
neither: `kv_cancelled` drops the first and `kv_delete_collides` the second.
`DeletesCutNothing` is a condition on the behaviour, stated as an action property;
it holds where nothing is deleted (`KvImplementsMapWithoutDelete`) and
in the instance of `kv_table`, which deletes only a key that ends every path it is
on.

The finite-set theorems are instantiated where the number of keys is counted, near
the end of `KvMapProofs`: with them in scope from the start its other obligations
take several times as long. For the same reason the pair of client and session, and
the key-value store, are each spread over modules that extend one another.

### Only model-checked

* Liveness (`VerbsReturn`, `SlotsComeBack`, `RequestsAnswered`), which is out of the
  prover's reach.
* The codec. Fields, lists and descriptions are encoded and decoded by folding
  over a layout of any length, and what a fold computes for every input takes
  induction over data.
* `CreditsConserved`, `ClientTypeOK`, `OkMeansDone` and `StoredKeysAreFound`.

## Not modelled

* The 24-byte form of a completion queue entry (`rdows-core/src/queue.rs`), which
  nothing sends.
* TLS, certificates and the WebSocket upgrade, beyond that they may fail.
* `next_lkey` going round after 2^32 registrations of one session; the model
  bounds it.
* A verb abandoned half way by another user of the client library than the
  key-value service, where `KvStore` has it.
* `usize` sums of offset and length that overflow in the client, and an allocation
  the machine refuses.
* `set_send_credits`, a test hook.
* The command-line programs (argument parsing, start-up, printing) and the
  Wireshark dissector (a display tool).

Where the RFC text asks for an ERROR on an unknown version or opcode, the code
ends the session; the models follow the code.

## Plan

The modules, runs and proofs above are complete in themselves. What would add
most next:

1. `OkMeansDone` as a theorem, from `HandleInv` and an invariant that relates an
   answer under way to the memory it reports.
2. Cancellation of a verb inside `Client`, so that what `KvStore` assumes of an
   abandoned request follows from `Rdows`.
