---------------------------- MODULE MemoryStore ----------------------------
(***************************************************************************)
(* The registered memory of one server session:                            *)
(* crates/rdows-server/src/memory_store.rs.                                *)
(*                                                                         *)
(* Memory is counted in cells.  A cell is half an atomic word (4 of the 8  *)
(* bytes of a u64): the smallest unit in which a misaligned address, a     *)
(* torn word and a carry between the halves of a word can be expressed.    *)
(*                                                                         *)
(* Every operation of the store is split into the status it returns (a     *)
(* state function) and the action it performs; the action leaves the store *)
(* alone when the status is an error, as the early returns of the code do. *)
(* Definitions named Bad... are faults a future edit of the code could     *)
(* introduce.  Nothing refers to them; they are there to be substituted    *)
(* for the definition that follows them, to see which property notices.    *)
(***************************************************************************)
EXTENDS Integers, Sequences, FiniteSets

CONSTANTS
    MaxRegions,     \* ServerConfig.max_regions_per_session
    MaxTotalBytes,  \* ServerConfig.max_total_bytes_per_session, in cells
    U64,            \* lengths and byte counts are below this (2^64 bytes)
    RKeys,          \* the R_Keys OsRng can draw (non-zero u32 values)
    MaxLKey,        \* bound: the last L_Key handed out (2^32 - 1 in the code)
    CellMod,        \* values of a cell (2^32 in the code)
    PDs,            \* protection domains named by requests
    Accesses,       \* access flag sets requested for regions
    Lens,           \* region lengths requested, in cells
    Offsets,        \* remote_va of requests, in cells
    Payloads,       \* data written, sequences of cells
    Operands        \* operands of atomics

Flags == {"LOCAL_WRITE", "REMOTE_WRITE", "REMOTE_READ", "REMOTE_ATOMIC"}
Cell == 0 .. CellMod - 1
WordMod == CellMod * CellMod
NoKey == 0          \* LKey(0) and RKey(0), never those of a region

ASSUME StoreAssumption ==
    /\ MaxRegions \in Nat /\ MaxTotalBytes \in Nat /\ MaxLKey \in Nat
    /\ NoKey \notin RKeys
    /\ CellMod \in Nat \ {0}
    /\ Accesses \subseteq SUBSET Flags
    /\ U64 \in Nat /\ MaxTotalBytes < U64
    /\ Lens \subseteq 0 .. U64 - 1 /\ Offsets \subseteq Nat
    /\ Payloads \subseteq Seq(Cell)
    /\ Operands \subseteq 0 .. WordMod - 1

VARIABLES
    regions,                \* L_Key -> MemoryRegionEntry
    rkey_to_lkey,           \* R_Key -> L_Key
    used_rkeys,             \* every R_Key ever handed out
    next_lkey,
    total_registered_bytes

storeVars ==
    <<regions, rkey_to_lkey, used_rkeys, next_lkey, total_registered_bytes>>

MemoryRegionEntry ==
    [pd : PDs, rkey : RKeys, access_flags : SUBSET Flags, data : Seq(Cell)]

StoreInit ==
    /\ regions = <<>>
    /\ rkey_to_lkey = <<>>
    /\ used_rkeys = {}
    /\ next_lkey = 1
    /\ total_registered_bytes = 0

With(f, k, v) == [x \in DOMAIN f \cup {k} |-> IF x = k THEN v ELSE f[x]]
Without(f, k) == [x \in DOMAIN f \ {k} |-> f[x]]
-----------------------------------------------------------------------------
(* register.  rkey is what generate_rkey drew: a fresh key, or NoKey when   *)
(* each of its 1000 draws was zero or already used.                         *)

BadDrawnRkeys == (RKeys \ DOMAIN rkey_to_lkey) \cup {NoKey}
DrawnRkeys == (RKeys \ used_rkeys) \cup {NoKey}

Overflows(len) == total_registered_bytes + len >= U64
WrappingAdd(a, b) == IF a + b >= U64 THEN a + b - U64 ELSE a + b

BadQuotaStatus(len) ==
    IF Cardinality(DOMAIN regions) >= MaxRegions THEN "ErrInternal"
    ELSE IF total_registered_bytes >= MaxTotalBytes THEN "ErrBounds"
    ELSE "Ok"

QuotaStatus(len) ==
    IF Cardinality(DOMAIN regions) >= MaxRegions THEN "ErrInternal"
    ELSE IF WrappingAdd(total_registered_bytes, len) > MaxTotalBytes THEN "ErrBounds"
    ELSE "Ok"

RegisterStatus(len, rkey) ==
    IF QuotaStatus(len) = "Ok" /\ rkey = NoKey THEN "ErrInternal"
    ELSE QuotaStatus(len)

Zeroes(len) == [i \in 1 .. len |-> 0]

\* The L_Key is consumed before generate_rkey can fail.  A sum that wraps passes
\* the quota, and vec! panics on the length: no region is ever made of it.
Register(pd, access_flags, len, rkey) ==
    \/ /\ QuotaStatus(len) # "Ok"
       /\ UNCHANGED storeVars
    \/ /\ QuotaStatus(len) = "Ok"
       /\ next_lkey <= MaxLKey
       /\ next_lkey' = next_lkey + 1
       /\ \/ /\ rkey = NoKey
             /\ UNCHANGED <<regions, rkey_to_lkey, used_rkeys, total_registered_bytes>>
          \/ /\ rkey # NoKey /\ ~Overflows(len)
             /\ used_rkeys' = used_rkeys \cup {rkey}
             /\ rkey_to_lkey' = With(rkey_to_lkey, rkey, next_lkey)
             /\ regions' = With(regions, next_lkey,
                                [pd |-> pd, rkey |-> rkey,
                                 access_flags |-> access_flags,
                                 data |-> Zeroes(len)])
             /\ total_registered_bytes' = total_registered_bytes + len

\* register panics: the addition overflows in a build that checks it, the
\* allocation of the length that wrapped past the quota in one that does not.
RegisterPanics(len) ==
    /\ Cardinality(DOMAIN regions) < MaxRegions
    /\ Overflows(len)
    /\ UNCHANGED storeVars
-----------------------------------------------------------------------------
DeregisterStatus(pd, lkey) ==
    IF lkey \notin DOMAIN regions THEN "ErrInvalidLkey"
    ELSE IF regions[lkey].pd # pd THEN "ErrInvalidPd"
    ELSE "Ok"

\* Forgets to drop the R_Key of the region.
BadDeregister(pd, lkey) ==
    \/ /\ DeregisterStatus(pd, lkey) # "Ok"
       /\ UNCHANGED storeVars
    \/ /\ DeregisterStatus(pd, lkey) = "Ok"
       /\ regions' = Without(regions, lkey)
       /\ total_registered_bytes' = total_registered_bytes - Len(regions[lkey].data)
       /\ UNCHANGED <<rkey_to_lkey, used_rkeys, next_lkey>>

Deregister(pd, lkey) ==
    \/ /\ DeregisterStatus(pd, lkey) # "Ok"
       /\ UNCHANGED storeVars
    \/ /\ DeregisterStatus(pd, lkey) = "Ok"
       /\ rkey_to_lkey' = Without(rkey_to_lkey, regions[lkey].rkey)
       /\ regions' = Without(regions, lkey)
       /\ total_registered_bytes' = total_registered_bytes - Len(regions[lkey].data)
       /\ UNCHANGED <<used_rkeys, next_lkey>>
-----------------------------------------------------------------------------
(* The look-up that validate_rkey performs, and that write_region,          *)
(* read_region and atomic_op each repeat.                                   *)

Target(rkey) == regions[rkey_to_lkey[rkey]]

\* Any remote right will do.
BadValidateRkey(rkey, required_access) ==
    IF rkey \notin DOMAIN rkey_to_lkey THEN "ErrInvalidMkey"
    ELSE IF rkey_to_lkey[rkey] \notin DOMAIN regions THEN "ErrInvalidMkey"
    ELSE IF Target(rkey).access_flags = {} THEN "ErrAccessDenied"
    ELSE "Ok"

ValidateRkey(rkey, required_access) ==
    IF rkey \notin DOMAIN rkey_to_lkey THEN "ErrInvalidMkey"
    ELSE IF rkey_to_lkey[rkey] \notin DOMAIN regions THEN "ErrInvalidMkey"
    ELSE IF required_access \notin Target(rkey).access_flags THEN "ErrAccessDenied"
    ELSE "Ok"

\* start.checked_add(len) fails only where the sum exceeds every length.
BoundsStatus(rkey, required_access, offset, len) ==
    IF ValidateRkey(rkey, required_access) # "Ok"
    THEN ValidateRkey(rkey, required_access)
    ELSE IF offset + len > Len(Target(rkey).data) THEN "ErrBounds"
    ELSE "Ok"

Splice(cells, start, w) ==
    [i \in 1 .. Len(cells) |->
        IF i \in start + 1 .. start + Len(w) THEN w[i - start] ELSE cells[i]]

\* Rebuilds the entry with every right.
BadStore(rkey, start, w) ==
    /\ regions' = [regions EXCEPT ![rkey_to_lkey[rkey]].data = Splice(@, start, w),
                                  ![rkey_to_lkey[rkey]].access_flags = Flags]
    /\ UNCHANGED <<rkey_to_lkey, used_rkeys, next_lkey, total_registered_bytes>>

Store(rkey, start, w) ==
    /\ regions' = [regions EXCEPT ![rkey_to_lkey[rkey]].data = Splice(@, start, w)]
    /\ UNCHANGED <<rkey_to_lkey, used_rkeys, next_lkey, total_registered_bytes>>

WriteStatus(rkey, offset, data) ==
    BoundsStatus(rkey, "REMOTE_WRITE", offset, Len(data))

\* Writes what fits of data that runs past the end, and then complains.
BadWriteRegion(rkey, offset, data) ==
    \/ ValidateRkey(rkey, "REMOTE_WRITE") # "Ok" /\ UNCHANGED storeVars
    \/ ValidateRkey(rkey, "REMOTE_WRITE") = "Ok" /\ Store(rkey, offset, data)

WriteRegion(rkey, offset, data) ==
    \/ WriteStatus(rkey, offset, data) # "Ok" /\ UNCHANGED storeVars
    \/ WriteStatus(rkey, offset, data) = "Ok" /\ Store(rkey, offset, data)

ReadStatus(rkey, offset, len) == BoundsStatus(rkey, "REMOTE_READ", offset, len)
ReadRegion(rkey, offset, len) == SubSeq(Target(rkey).data, offset + 1, offset + len)
-----------------------------------------------------------------------------
(* Atomics work on one aligned word of two cells, big-endian.               *)

FromBE(cells, start) == cells[start + 1] * CellMod + cells[start + 2]
BadToBE(v) == <<v % CellMod, v \div CellMod>>
ToBE(v) == <<v \div CellMod, v % CellMod>>

AtomicStatus(rkey, remote_va) ==
    IF ValidateRkey(rkey, "REMOTE_ATOMIC") # "Ok"
    THEN ValidateRkey(rkey, "REMOTE_ATOMIC")
    ELSE IF remote_va % 2 # 0 THEN "ErrAlignment"
    ELSE BoundsStatus(rkey, "REMOTE_ATOMIC", remote_va, 2)

Original(rkey, remote_va) == FromBE(Target(rkey).data, remote_va)

\* Adds without wrapping.
BadNewValue(original, atomic_type, operand1, operand2) ==
    CASE atomic_type = "CAS" -> IF original = operand1 THEN operand2 ELSE original
      [] atomic_type = "FAA" -> original + operand1

\* atomic_type 0x01 is CAS, 0x02 is FAA (wrapping_add).
NewValue(original, atomic_type, operand1, operand2) ==
    CASE atomic_type = "CAS" -> IF original = operand1 THEN operand2 ELSE original
      [] atomic_type = "FAA" -> (original + operand1) % WordMod

AtomicOp(rkey, remote_va, atomic_type, operand1, operand2) ==
    \/ AtomicStatus(rkey, remote_va) # "Ok" /\ UNCHANGED storeVars
    \/ /\ AtomicStatus(rkey, remote_va) = "Ok"
       /\ Store(rkey, remote_va,
                ToBE(NewValue(Original(rkey, remote_va), atomic_type, operand1, operand2)))
-----------------------------------------------------------------------------
(* The store driven by any sequence of calls.                               *)

StoreNext ==
    \/ \E pd \in PDs, acc \in Accesses, len \in Lens, rkey \in DrawnRkeys :
          Register(pd, acc, len, rkey)
    \/ \E pd \in PDs, lkey \in 1 .. MaxLKey : Deregister(pd, lkey)
    \/ \E rkey \in RKeys, off \in Offsets, data \in Payloads :
          WriteRegion(rkey, off, data)
    \/ \E rkey \in RKeys, off \in Offsets, type \in {"CAS", "FAA"},
          op1 \in Operands, op2 \in Operands :
          AtomicOp(rkey, off, type, op1, op2)

StoreSpec == StoreInit /\ [][StoreNext]_storeVars
-----------------------------------------------------------------------------
\* The fields of MemoryStore hold what their Rust types say, with data of
\* every region a sequence of cell values.
StoreTypeOK ==
    /\ DOMAIN regions \subseteq 1 .. MaxLKey
    /\ regions \in [DOMAIN regions -> MemoryRegionEntry]
    /\ DOMAIN rkey_to_lkey \subseteq RKeys
    /\ rkey_to_lkey \in [DOMAIN rkey_to_lkey -> 1 .. MaxLKey]
    /\ used_rkeys \subseteq RKeys
    /\ next_lkey \in 1 .. MaxLKey + 1
    /\ total_registered_bytes \in Nat

\* rkey_to_lkey is exactly the inverse of the regions' own R_Keys: a live R_Key
\* leads to the one region that carries it, no R_Key outlives its region, and
\* every live key was recorded by generate_rkey and numbered by next_lkey.
KeysAgree ==
    /\ \A l \in DOMAIN regions :
          regions[l].rkey \in DOMAIN rkey_to_lkey /\ rkey_to_lkey[regions[l].rkey] = l
    /\ \A k \in DOMAIN rkey_to_lkey :
          rkey_to_lkey[k] \in DOMAIN regions /\ regions[rkey_to_lkey[k]].rkey = k
    /\ DOMAIN rkey_to_lkey \subseteq used_rkeys
    /\ \A l \in DOMAIN regions : l < next_lkey

\* One element for every cell of every live region.
HeldCells == UNION {{l} \X (1 .. Len(regions[l].data)) : l \in DOMAIN regions}

\* total_registered_bytes is the memory the live regions really hold, so the
\* subtraction in deregister never underflows, and both quotas of register
\* bound what is held.
AccountingExact ==
    /\ total_registered_bytes = Cardinality(HeldCells)
    /\ total_registered_bytes <= MaxTotalBytes
    /\ Cardinality(DOMAIN regions) <= MaxRegions

\* A region that grants neither REMOTE_WRITE nor REMOTE_ATOMIC still holds the
\* zeroes register put there, whatever was requested of it.
ReadOnlyStaysZero ==
    \A l \in DOMAIN regions :
        regions[l].access_flags \cap {"REMOTE_WRITE", "REMOTE_ATOMIC"} = {} =>
            regions[l].data = Zeroes(Len(regions[l].data))

\* "R_Key stays in used_rkeys - never reuse within session": a key that has
\* been handed out and is dead stays dead, and a live one never changes region.
RkeysNeverReused ==
    [][\A k \in used_rkeys :
          k \in DOMAIN rkey_to_lkey' =>
              k \in DOMAIN rkey_to_lkey /\ rkey_to_lkey'[k] = rkey_to_lkey[k]]_storeVars

KeepShape ==
    LET kept == DOMAIN regions \cap DOMAIN regions' IN
    /\ \A l \in kept :
          /\ regions'[l].pd = regions[l].pd
          /\ regions'[l].rkey = regions[l].rkey
          /\ regions'[l].access_flags = regions[l].access_flags
          /\ Len(regions'[l].data) = Len(regions[l].data)
    /\ \A l, m \in kept :
          regions'[l].data # regions[l].data /\ regions'[m].data # regions[m].data
              => l = m

\* No call changes the owner, key, rights or length of a live region, and none
\* changes the contents of two regions.
RegionsKeepTheirShape == [][KeepShape]_storeVars
=============================================================================
