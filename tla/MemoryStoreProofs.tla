------------------------- MODULE MemoryStoreProofs --------------------------
(***************************************************************************)
(* The memory store, for every value of the constants: what its operators  *)
(* compute, and that its types, keys, accounting and read-only regions are *)
(* kept by any calls.                                                      *)
(***************************************************************************)
EXTENDS MemoryStore, FiniteSetTheorems, TLAPS
-----------------------------------------------------------------------------
(* Splicing keeps the length and the type of the cells.                     *)
LEMMA SpliceType ==
    ASSUME NEW cells \in Seq(Cell), NEW start \in Nat, NEW w \in Seq(Cell)
    PROVE  /\ Splice(cells, start, w) \in Seq(Cell)
           /\ Len(Splice(cells, start, w)) = Len(cells)
<1> DEFINE s == Splice(cells, start, w)
<1> QED
    BY DEF Splice

(* The zeroed buffer of a new region.                                       *)
LEMMA ZeroesType ==
    ASSUME NEW len \in Nat
    PROVE  Zeroes(len) \in Seq(Cell) /\ Len(Zeroes(len)) = len
BY StoreAssumption DEF Cell, Zeroes

(* An encoded word is two cells.                                            *)
LEMMA ToBEType ==
    ASSUME NEW v \in 0 .. WordMod - 1
    PROVE  ToBE(v) \in Seq(Cell) /\ Len(ToBE(v)) = 2
BY StoreAssumption DEF WordMod, ToBE, Cell

(* The word read before an atomic, and the one written back, fit a u64.     *)
LEMMA NewValueType ==
    ASSUME NEW cells \in Seq(Cell), NEW start \in Nat, start + 2 <= Len(cells),
           NEW type \in {"CAS", "FAA"},
           NEW op1 \in 0 .. WordMod - 1, NEW op2 \in 0 .. WordMod - 1
    PROVE  NewValue(FromBE(cells, start), type, op1, op2) \in 0 .. WordMod - 1
<1>1. CellMod \in Nat \ {0} /\ WordMod \in Nat \ {0}
    BY StoreAssumption DEF WordMod
<1>2. cells[start + 1] \in 0 .. CellMod - 1 /\ cells[start + 2] \in 0 .. CellMod - 1
    BY <1>1 DEF Cell
<1> DEFINE hi == cells[start + 1]
           lo == cells[start + 2]
<1>3. hi * CellMod + lo \in 0 .. WordMod - 1
    <2> HIDE DEF hi, lo
    <2>1. hi * CellMod <= (CellMod - 1) * CellMod
        <3>1. hi \in Nat /\ CellMod - 1 \in Nat /\ CellMod \in Nat /\ hi <= CellMod - 1
            BY <1>1, <1>2 DEF hi
        <3> QED
            BY <3>1
    <2> QED
        BY <1>2, <1>1, <2>1 DEF hi, lo, WordMod
<1>4. CASE type = "CAS"
    BY <1>3, <1>4 DEF NewValue, FromBE
<1>5. CASE type = "FAA"
    <2> DEFINE v == FromBE(cells, start)
    <2> QED
        BY <1>5, <1>1, <1>3 DEF NewValue, FromBE
<1> QED
    BY <1>4, <1>5
-----------------------------------------------------------------------------
(* Storing cells into a region changes the contents of that region only,    *)
(* and keeps its length.                                                    *)
LEMMA StoreEffect ==
    ASSUME StoreTypeOK, NEW rkey, NEW start \in Nat, NEW w \in Seq(Cell),
           rkey \in DOMAIN rkey_to_lkey, rkey_to_lkey[rkey] \in DOMAIN regions,
           Store(rkey, start, w)
    PROVE  /\ UNCHANGED <<rkey_to_lkey, used_rkeys, next_lkey, total_registered_bytes>>
           /\ regions' \in [DOMAIN regions -> MemoryRegionEntry]
           /\ \A l \in DOMAIN regions :
                 /\ regions'[l].pd = regions[l].pd
                 /\ regions'[l].rkey = regions[l].rkey
                 /\ regions'[l].access_flags = regions[l].access_flags
                 /\ Len(regions'[l].data) = Len(regions[l].data)
                 /\ l # rkey_to_lkey[rkey] => regions'[l] = regions[l]
<1> DEFINE t == rkey_to_lkey[rkey]
           d == Splice(regions[t].data, start, w)
<1>1. d \in Seq(Cell) /\ Len(d) = Len(regions[t].data)
    BY SpliceType DEF StoreTypeOK, MemoryRegionEntry
<1>2. regions' = [regions EXCEPT ![t].data = d]
    BY DEF Store
<1> HIDE DEF d
<1>3. ASSUME NEW l \in DOMAIN regions
      PROVE  /\ regions'[l].pd = regions[l].pd
             /\ regions'[l].rkey = regions[l].rkey
             /\ regions'[l].access_flags = regions[l].access_flags
             /\ Len(regions'[l].data) = Len(regions[l].data)
             /\ regions'[l] \in MemoryRegionEntry
             /\ l # t => regions'[l] = regions[l]
    <2>1. regions[l] \in MemoryRegionEntry
        BY DEF StoreTypeOK
    <2>2. CASE l = t
        <3>1. regions'[l] = [regions[l] EXCEPT !.data = d]
            BY <1>2, <2>2
        <3> QED
            BY SMTT(30), <1>1, <2>1, <2>2, <3>1 DEF MemoryRegionEntry
    <2>3. CASE l # t
        BY <1>2, <2>1, <2>3
    <2> QED
        BY <2>2, <2>3
<1> QED
    BY Zenon, <1>3 DEF Store

(* WriteRegion and AtomicOp either leave the store alone or store cells     *)
(* into the live region their R_Key leads to.                               *)
LEMMA WriteStores ==
    ASSUME StoreTypeOK, NEW rkey, NEW off \in Nat, NEW data \in Seq(Cell),
           WriteRegion(rkey, off, data)
    PROVE  \/ UNCHANGED storeVars
           \/ /\ rkey \in DOMAIN rkey_to_lkey /\ rkey_to_lkey[rkey] \in DOMAIN regions
              /\ "REMOTE_WRITE" \in regions[rkey_to_lkey[rkey]].access_flags
              /\ Store(rkey, off, data)
BY DEF WriteRegion, WriteStatus, BoundsStatus, ValidateRkey, Target

(* The same for an atomic, whose data is the encoded new word.              *)
LEMMA AtomicStores ==
    ASSUME StoreTypeOK, NEW rkey, NEW off \in Nat, NEW type \in {"CAS", "FAA"},
           NEW op1 \in 0 .. WordMod - 1, NEW op2 \in 0 .. WordMod - 1,
           AtomicOp(rkey, off, type, op1, op2)
    PROVE  \/ UNCHANGED storeVars
           \/ /\ rkey \in DOMAIN rkey_to_lkey /\ rkey_to_lkey[rkey] \in DOMAIN regions
              /\ "REMOTE_ATOMIC" \in regions[rkey_to_lkey[rkey]].access_flags
              /\ \E w \in Seq(Cell) : Store(rkey, off, w)
<1> DEFINE v == NewValue(Original(rkey, off), type, op1, op2)
<1>1. CASE AtomicStatus(rkey, off) # "Ok"
    BY <1>1 DEF AtomicOp
<1>2. CASE AtomicStatus(rkey, off) = "Ok"
    <2>1. /\ rkey \in DOMAIN rkey_to_lkey /\ rkey_to_lkey[rkey] \in DOMAIN regions
          /\ "REMOTE_ATOMIC" \in Target(rkey).access_flags
          /\ off + 2 <= Len(Target(rkey).data)
        BY <1>2 DEF AtomicStatus, ValidateRkey, BoundsStatus
    <2>2. Target(rkey).data \in Seq(Cell)
        BY <2>1 DEF StoreTypeOK, MemoryRegionEntry, Target
    <2>3. v \in 0 .. WordMod - 1
        BY Zenon, <2>1, <2>2, NewValueType DEF Original
    <2>4. Store(rkey, off, ToBE(v))
        BY <1>2 DEF AtomicOp
    <2> HIDE DEF v
    <2> QED
        BY <2>1, <2>3, ToBEType, <2>4 DEF Target
<1> QED
    BY <1>1, <1>2
-----------------------------------------------------------------------------
(* What was spliced in can be read back.                                    *)
LEMMA SpliceReads ==
    ASSUME NEW cells \in Seq(Cell), NEW start \in Nat, NEW w \in Seq(Cell),
           start + Len(w) <= Len(cells)
    PROVE  SubSeq(Splice(cells, start, w), start + 1, start + Len(w)) = w
<1> DEFINE s == Splice(cells, start, w)
           u == SubSeq(s, start + 1, start + Len(w))
<1> HIDE DEF s
<1> HIDE DEF u
<1> QED
    BY SpliceType DEF u, s, Splice

(* A store changes the contents of the region its R_Key leads to.           *)
LEMMA StoreChanges ==
    ASSUME StoreTypeOK, KeysAgree, NEW rkey \in DOMAIN rkey_to_lkey,
           NEW start \in Nat, NEW w \in Seq(Cell), Store(rkey, start, w)
    PROVE  /\ regions'[rkey_to_lkey[rkey]].data = Splice(Target(rkey).data, start, w)
           /\ \A l \in DOMAIN regions :
                 regions'[l].data # regions[l].data => regions[l].rkey = rkey
BY StoreEffect DEF KeysAgree, Target, StoreTypeOK, Store, MemoryRegionEntry

-----------------------------------------------------------------------------
(* The inductive invariant.  No conjunct is inductive alone: the type of    *)
(* total_registered_bytes needs the accounting (deregister subtracts), the  *)
(* accounting needs the L_Keys below next_lkey (a new region must not       *)
(* replace one), and each needs the types.                                  *)
StoreInv ==
    /\ StoreTypeOK
    /\ KeysAgree
    /\ AccountingExact
    /\ IsFiniteSet(HeldCells)
    /\ ReadOnlyStaysZero
-----------------------------------------------------------------------------
(* What a step of the store is: nothing, a fresh region, a region removed,  *)
(* cells stored into a live region, or an L_Key burnt.                      *)
LEMMA StepCases ==
    ASSUME StoreTypeOK, [StoreNext]_storeVars
    PROVE  \/ UNCHANGED storeVars
           \/ /\ next_lkey <= MaxLKey /\ next_lkey' = next_lkey + 1
              /\ UNCHANGED <<regions, rkey_to_lkey, used_rkeys, total_registered_bytes>>
           \/ \E pd \in PDs, acc \in Accesses, len \in Lens, rkey \in RKeys \ used_rkeys :
                 QuotaStatus(len) = "Ok" /\ Register(pd, acc, len, rkey)
           \/ \E pd \in PDs, lkey \in DOMAIN regions :
                 DeregisterStatus(pd, lkey) = "Ok" /\ Deregister(pd, lkey)
           \/ \E rkey \in DOMAIN rkey_to_lkey, off \in Nat, w \in Seq(Cell) :
                 /\ rkey_to_lkey[rkey] \in DOMAIN regions
                 /\ regions[rkey_to_lkey[rkey]].access_flags
                        \cap {"REMOTE_WRITE", "REMOTE_ATOMIC"} # {}
                 /\ Store(rkey, off, w)
<1>1. ASSUME NEW pd \in PDs, NEW acc \in Accesses, NEW len \in Lens,
             NEW rkey \in DrawnRkeys, Register(pd, acc, len, rkey)
      PROVE  \/ UNCHANGED storeVars
             \/ /\ next_lkey <= MaxLKey /\ next_lkey' = next_lkey + 1
                /\ UNCHANGED <<regions, rkey_to_lkey, used_rkeys, total_registered_bytes>>
             \/ rkey \in RKeys \ used_rkeys /\ QuotaStatus(len) = "Ok"
    BY <1>1 DEF Register, DrawnRkeys
<1>2. ASSUME NEW pd \in PDs, NEW lkey \in 1 .. MaxLKey, Deregister(pd, lkey)
      PROVE  \/ UNCHANGED storeVars
             \/ lkey \in DOMAIN regions /\ DeregisterStatus(pd, lkey) = "Ok"
    BY <1>2 DEF Deregister, DeregisterStatus
<1>3. ASSUME NEW rkey \in RKeys, NEW off \in Offsets, NEW data \in Payloads,
             WriteRegion(rkey, off, data)
      PROVE  \/ UNCHANGED storeVars
             \/ /\ rkey \in DOMAIN rkey_to_lkey /\ rkey_to_lkey[rkey] \in DOMAIN regions
                /\ "REMOTE_WRITE" \in regions[rkey_to_lkey[rkey]].access_flags
                /\ off \in Nat /\ data \in Seq(Cell) /\ Store(rkey, off, data)
    <2>1. off \in Nat /\ data \in Seq(Cell)
        BY StoreAssumption
    <2> QED
        BY <1>3, <2>1, WriteStores
<1>4. ASSUME NEW rkey \in RKeys, NEW off \in Offsets, NEW type \in {"CAS", "FAA"},
             NEW op1 \in Operands, NEW op2 \in Operands,
             AtomicOp(rkey, off, type, op1, op2)
      PROVE  \/ UNCHANGED storeVars
             \/ /\ rkey \in DOMAIN rkey_to_lkey /\ rkey_to_lkey[rkey] \in DOMAIN regions
                /\ "REMOTE_ATOMIC" \in regions[rkey_to_lkey[rkey]].access_flags
                /\ off \in Nat /\ \E w \in Seq(Cell) : Store(rkey, off, w)
    BY StoreAssumption, <1>4, AtomicStores
<1> QED
    BY <1>1, <1>2, <1>3, <1>4 DEF StoreNext
-----------------------------------------------------------------------------
(* There are finitely many regions, for L_Keys are bounded.                 *)
LEMMA RegionsFinite ==
    ASSUME StoreTypeOK
    PROVE  IsFiniteSet(DOMAIN regions)
<1>1. IsFiniteSet(1 .. MaxLKey)
    BY StoreAssumption, FS_Interval
<1> QED
    BY Zenon, <1>1, FS_Subset DEF StoreTypeOK

(* What a successful register does, in full.                                *)
LEMMA RegisterEffect ==
    ASSUME StoreTypeOK, NEW pd \in PDs, NEW acc \in Accesses, NEW len \in Lens,
           NEW rkey \in RKeys, QuotaStatus(len) = "Ok", Register(pd, acc, len, rkey)
    PROVE  /\ len \in Nat /\ acc \in SUBSET Flags
           /\ next_lkey \in 1 .. MaxLKey /\ next_lkey' = next_lkey + 1
           /\ used_rkeys' = used_rkeys \cup {rkey}
           /\ rkey_to_lkey' = With(rkey_to_lkey, rkey, next_lkey)
           /\ regions' = With(regions, next_lkey,
                              [pd |-> pd, rkey |-> rkey, access_flags |-> acc,
                               data |-> Zeroes(len)])
           /\ total_registered_bytes' = total_registered_bytes + len
           /\ total_registered_bytes + len <= MaxTotalBytes
           /\ Cardinality(DOMAIN regions) < MaxRegions
<1>1. len \in Nat /\ acc \in SUBSET Flags /\ rkey # NoKey /\ MaxLKey \in Nat
      /\ MaxTotalBytes \in Nat /\ MaxRegions \in Nat
    BY StoreAssumption
<1> QED
    BY <1>1, RegionsFinite, FS_CardinalityType DEF Register, StoreTypeOK, QuotaStatus,
       Overflows, WrappingAdd

(* What a successful deregister does, in full.                              *)
LEMMA DeregisterEffect ==
    ASSUME NEW pd \in PDs, NEW lkey \in DOMAIN regions,
           DeregisterStatus(pd, lkey) = "Ok", Deregister(pd, lkey)
    PROVE  /\ rkey_to_lkey' = Without(rkey_to_lkey, regions[lkey].rkey)
           /\ regions' = Without(regions, lkey)
           /\ total_registered_bytes' = total_registered_bytes - Len(regions[lkey].data)
           /\ UNCHANGED <<used_rkeys, next_lkey>>
BY DEF Deregister
-----------------------------------------------------------------------------
(* A block of n cells has n elements.                                       *)
LEMMA BlockSize ==
    ASSUME NEW l, NEW n \in Nat
    PROVE  /\ IsFiniteSet({l} \X (1 .. n))
           /\ Cardinality({l} \X (1 .. n)) = n
<1> DEFINE f == [i \in 1 .. n |-> <<l, i>>]
<1>1. f \in Bijection(1 .. n, {l} \X (1 .. n))
    <2>1. f \in [1 .. n -> {l} \X (1 .. n)]
        OBVIOUS
    <2>2. \A i, j \in 1 .. n : f[i] = f[j] => i = j
        OBVIOUS
    <2>3. \A b \in {l} \X (1 .. n) : \E i \in 1 .. n : f[i] = b
        OBVIOUS
    <2> HIDE DEF f
    <2> QED
        BY <2>1, <2>2, <2>3 DEF Bijection, Injection, Surjection, IsInjective
<1>2. ExistsBijection(1 .. n, {l} \X (1 .. n))
    BY Zenon, <1>1 DEF ExistsBijection
<1> QED
    BY <1>2, FS_NatBijection, FS_CountingElements

(* Joining a disjoint block adds its size.                                  *)
LEMMA AddBlock ==
    ASSUME NEW S, IsFiniteSet(S), NEW l, NEW n \in Nat,
           S \cap ({l} \X (1 .. n)) = {}
    PROVE  /\ IsFiniteSet(S \cup ({l} \X (1 .. n)))
           /\ Cardinality(S \cup ({l} \X (1 .. n))) = Cardinality(S) + n
<1> DEFINE B == {l} \X (1 .. n)
<1>1. IsFiniteSet(B) /\ Cardinality(B) = n
    BY Zenon, BlockSize
<1>2. Cardinality(S \cap B) = 0
    BY FS_EmptySet
<1> HIDE DEF B
<1>3. IsFiniteSet(S \cup B)
      /\ Cardinality(S \cup B) = Cardinality(S) + Cardinality(B) - Cardinality(S \cap B)
    BY Zenon, <1>1, FS_Union
<1> QED
    BY <1>3, <1>1, <1>2 DEF B

(* Taking away a block that is there subtracts its size.                    *)
LEMMA RemoveBlock ==
    ASSUME NEW S, IsFiniteSet(S), NEW l, NEW n \in Nat,
           ({l} \X (1 .. n)) \subseteq S
    PROVE  /\ IsFiniteSet(S \ ({l} \X (1 .. n)))
           /\ Cardinality(S \ ({l} \X (1 .. n))) = Cardinality(S) - n
           /\ n <= Cardinality(S)
<1> DEFINE B == {l} \X (1 .. n)
           R == S \ B
<1>1. IsFiniteSet(R) /\ Cardinality(R) \in Nat
    BY FS_Subset, FS_CardinalityType
<1>2. R \cap B = {} /\ R \cup B = S
    OBVIOUS
<1>3. Cardinality(R \cup B) = Cardinality(R) + n
    BY ZenonT(30), <1>1, <1>2, AddBlock
<1>4. Cardinality(S) = Cardinality(R) + n
    BY Zenon, <1>3
<1> HIDE DEF R
<1> QED
    BY <1>1, <1>4 DEF R

(* The empty store satisfies it.                                            *)
LEMMA InitInv ==
    ASSUME StoreInit
    PROVE  StoreInv
<1>1. IsFiniteSet(HeldCells) /\ Cardinality(HeldCells) = 0
      /\ Cardinality(DOMAIN regions) = 0
    BY FS_EmptySet DEF HeldCells, StoreInit
<1> QED
    BY <1>1, StoreAssumption DEF StoreInv, StoreTypeOK, StoreInit, AccountingExact,
       KeysAgree, ReadOnlyStaysZero

(* A new region: its L_Key and its R_Key are fresh, its cells are disjoint  *)
(* from all others, and the quotas leave room for it.                       *)
LEMMA RegisterKeepsInv ==
    ASSUME StoreInv, NEW pd \in PDs, NEW acc \in Accesses, NEW len \in Lens,
           NEW rkey \in RKeys \ used_rkeys, QuotaStatus(len) = "Ok",
           Register(pd, acc, len, rkey)
    PROVE  StoreInv'
<1> USE DEF StoreInv
<1> DEFINE e == [pd |-> pd, rkey |-> rkey, access_flags |-> acc, data |-> Zeroes(len)]
           n == next_lkey
<1>1. /\ len \in Nat /\ acc \in SUBSET Flags
      /\ n \in 1 .. MaxLKey /\ next_lkey' = n + 1
      /\ used_rkeys' = used_rkeys \cup {rkey}
      /\ rkey_to_lkey' = With(rkey_to_lkey, rkey, n)
      /\ regions' = With(regions, n, e)
      /\ total_registered_bytes' = total_registered_bytes + len
      /\ total_registered_bytes + len <= MaxTotalBytes
      /\ Cardinality(DOMAIN regions) < MaxRegions
    BY RegisterEffect
<1>2. e \in MemoryRegionEntry /\ Len(e.data) = len
    BY <1>1, ZeroesType DEF MemoryRegionEntry
<1>3. e.rkey = rkey /\ e.access_flags = acc /\ e.data = Zeroes(len)
    OBVIOUS
<1> HIDE DEF e
<1>4. n \notin DOMAIN regions /\ rkey \notin DOMAIN rkey_to_lkey
    BY DEF KeysAgree, StoreTypeOK
<1>5. /\ DOMAIN regions' = DOMAIN regions \cup {n}
      /\ regions'[n] = e
      /\ \A l \in DOMAIN regions : regions'[l] = regions[l]
      /\ regions' = [l \in DOMAIN regions' |-> regions'[l]]
    BY <1>1, <1>4 DEF With
<1>6. /\ DOMAIN rkey_to_lkey' = DOMAIN rkey_to_lkey \cup {rkey}
      /\ rkey_to_lkey'[rkey] = n
      /\ \A k \in DOMAIN rkey_to_lkey : rkey_to_lkey'[k] = rkey_to_lkey[k]
      /\ rkey_to_lkey' = [k \in DOMAIN rkey_to_lkey' |-> rkey_to_lkey'[k]]
    BY <1>1, <1>4 DEF With
<1>7. StoreTypeOK'
    <2>1. rkey_to_lkey' \in [DOMAIN rkey_to_lkey' -> 1 .. MaxLKey]
        BY <1>1, <1>6 DEF StoreTypeOK
    <2>2. next_lkey' \in 1 .. MaxLKey + 1 /\ total_registered_bytes' \in Nat
        BY SMTT(30), <1>1, StoreAssumption DEF StoreTypeOK
    <2> QED
        BY <1>5, <1>2, <1>6, <2>1, <1>1, <2>2 DEF StoreTypeOK
<1>8. KeysAgree'
    BY <1>3, <1>5, <1>6, <1>1 DEF KeysAgree, StoreTypeOK
<1>9. HeldCells' = HeldCells \cup ({n} \X (1 .. len))
      /\ HeldCells \cap ({n} \X (1 .. len)) = {}
    BY <1>2, <1>4, <1>5 DEF HeldCells
<1>10. IsFiniteSet(HeldCells') /\ Cardinality(HeldCells') = Cardinality(HeldCells) + len
    BY ZenonT(30), <1>1, <1>9, AddBlock
<1>11. AccountingExact'
    <2>1. Cardinality(DOMAIN regions') = Cardinality(DOMAIN regions) + 1
        BY RegionsFinite, <1>4, <1>5, FS_AddElement
    <2>2. Cardinality(DOMAIN regions) \in Nat /\ MaxRegions \in Nat
        BY RegionsFinite, FS_CardinalityType, StoreAssumption
    <2> QED
        BY <1>1, <1>10, <2>1, <2>2 DEF AccountingExact
<1>12. ReadOnlyStaysZero'
    BY <1>2, <1>3, <1>5 DEF ReadOnlyStaysZero
<1> QED
    BY <1>7, <1>8, <1>10, <1>11, <1>12

(* A region removed: its R_Key goes with it, and exactly its cells.         *)
LEMMA DeregisterKeepsInv ==
    ASSUME StoreInv, NEW pd \in PDs, NEW lkey \in DOMAIN regions,
           DeregisterStatus(pd, lkey) = "Ok", Deregister(pd, lkey)
    PROVE  StoreInv'
<1> USE DEF StoreInv
<1> DEFINE r == regions[lkey].rkey
           len == Len(regions[lkey].data)
<1>1. /\ rkey_to_lkey' = Without(rkey_to_lkey, r)
      /\ regions' = Without(regions, lkey)
      /\ total_registered_bytes' = total_registered_bytes - len
      /\ used_rkeys' = used_rkeys /\ next_lkey' = next_lkey
    BY DeregisterEffect
<1>2. len \in Nat
    BY DEF StoreTypeOK, MemoryRegionEntry
<1>3. /\ DOMAIN regions' = DOMAIN regions \ {lkey}
      /\ \A l \in DOMAIN regions' : regions'[l] = regions[l]
      /\ regions' = [l \in DOMAIN regions' |-> regions'[l]]
    BY <1>1 DEF Without
<1>4. {lkey} \X (1 .. len) \subseteq HeldCells
      /\ HeldCells' = HeldCells \ ({lkey} \X (1 .. len))
    BY <1>3 DEF HeldCells
<1>5. /\ IsFiniteSet(HeldCells')
      /\ Cardinality(HeldCells') = Cardinality(HeldCells) - len
      /\ len <= Cardinality(HeldCells)
    BY ZenonT(30), <1>2, <1>4, RemoveBlock
<1>6. total_registered_bytes' \in Nat
      /\ total_registered_bytes' = Cardinality(HeldCells')
      /\ total_registered_bytes' <= MaxTotalBytes
    <2>1. /\ total_registered_bytes = Cardinality(HeldCells)
          /\ total_registered_bytes \in Nat /\ total_registered_bytes <= MaxTotalBytes
        BY DEF AccountingExact, StoreTypeOK
    <2> HIDE DEF StoreInv, len
    <2> QED
        BY <1>1, <1>2, <1>5, <2>1, StoreAssumption
<1> HIDE DEF r, len
<1>7. KeysAgree'
    BY <1>3, <1>1 DEF KeysAgree, r, Without
<1>8. AccountingExact'
    <2>1. Cardinality(DOMAIN regions') = Cardinality(DOMAIN regions) - 1
        BY RegionsFinite, <1>3, FS_RemoveElement
    <2> QED
        BY <1>6, <2>1, RegionsFinite, FS_CardinalityType, StoreAssumption DEF AccountingExact
<1> QED
    BY <1>5, <1>1, <1>6, <1>7, <1>8, <1>3 DEF ReadOnlyStaysZero, StoreTypeOK, Without

(* Cells stored into a live region that is remotely writable: keys, lengths *)
(* and so the accounting stay, and no read-only region is touched.          *)
LEMMA StoreKeepsInv ==
    ASSUME StoreInv, NEW rkey \in DOMAIN rkey_to_lkey, NEW off \in Nat, NEW w \in Seq(Cell),
           rkey_to_lkey[rkey] \in DOMAIN regions,
           regions[rkey_to_lkey[rkey]].access_flags
               \cap {"REMOTE_WRITE", "REMOTE_ATOMIC"} # {},
           Store(rkey, off, w)
    PROVE  StoreInv'
<1> USE DEF StoreInv
<1>1. /\ UNCHANGED <<rkey_to_lkey, used_rkeys, next_lkey, total_registered_bytes>>
      /\ regions' \in [DOMAIN regions -> MemoryRegionEntry]
      /\ \A l \in DOMAIN regions :
            /\ regions'[l].rkey = regions[l].rkey
            /\ regions'[l].access_flags = regions[l].access_flags
            /\ Len(regions'[l].data) = Len(regions[l].data)
            /\ l # rkey_to_lkey[rkey] => regions'[l] = regions[l]
    BY StoreEffect
<1>2. DOMAIN regions' = DOMAIN regions
    BY <1>1
<1>3. StoreTypeOK'
    <2>1. StoreTypeOK
        OBVIOUS
    <2> HIDE DEF StoreInv
    <2> QED
        BY <1>1, <2>1 DEF StoreTypeOK
<1>4. KeysAgree'
    BY ZenonT(30), <1>1, <1>2 DEF KeysAgree
<1>5. HeldCells' = HeldCells
    BY <1>1 DEF HeldCells
<1> QED
    BY <1>3, <1>4, <1>5, <1>1 DEF ReadOnlyStaysZero, AccountingExact

(* Every step of the store keeps the invariant.                             *)
LEMMA StepKeepsInv ==
    ASSUME StoreInv, [StoreNext]_storeVars
    PROVE  StoreInv'
<1>1. CASE UNCHANGED storeVars
    BY SMTT(30), <1>1 DEF storeVars, StoreInv, StoreTypeOK, KeysAgree, AccountingExact,
       HeldCells, ReadOnlyStaysZero
<1>2. CASE /\ next_lkey <= MaxLKey /\ next_lkey' = next_lkey + 1
           /\ UNCHANGED <<regions, rkey_to_lkey, used_rkeys, total_registered_bytes>>
    <2>1. StoreTypeOK'
        BY SMTT(30), <1>2, StoreAssumption DEF StoreInv, StoreTypeOK
    <2>2. AccountingExact' /\ IsFiniteSet(HeldCells') /\ ReadOnlyStaysZero'
        BY <1>2 DEF StoreInv, AccountingExact, HeldCells, ReadOnlyStaysZero
    <2> QED
        BY <2>1, <1>2, <2>2 DEF StoreInv, StoreTypeOK, KeysAgree
<1> QED
    BY <1>1, <1>2, StepCases, RegisterKeepsInv, DeregisterKeepsInv, StoreKeepsInv DEF
       StoreInv

(* The invariant holds throughout.                                          *)
LEMMA StoreInvariant == StoreSpec => []StoreInv
BY PTL, InitInv, StepKeepsInv DEF StoreSpec
-----------------------------------------------------------------------------
(* The fields of the store keep their types: in particular                  *)
(* total_registered_bytes, a u64, never goes below zero.                    *)
THEOREM StoreTypeCorrect == StoreSpec => []StoreTypeOK
<1>1. StoreInv => StoreTypeOK
    BY DEF StoreInv
<1> QED
    BY PTL, <1>1, StoreInvariant

(* R_Keys and regions stay in one-to-one correspondence.                    *)
THEOREM KeysAlwaysAgree == StoreSpec => []KeysAgree
<1>1. StoreInv => KeysAgree
    BY DEF StoreInv
<1> QED
    BY PTL, <1>1, StoreInvariant

(* The byte counter is exact, and both quotas hold.                         *)
THEOREM AccountingAlwaysExact == StoreSpec => []AccountingExact
<1>1. StoreInv => AccountingExact
    BY DEF StoreInv
<1> QED
    BY PTL, <1>1, StoreInvariant

(* What grants no remote write is never written.                            *)
THEOREM ReadOnlyAlwaysZero == StoreSpec => []ReadOnlyStaysZero
<1>1. StoreInv => ReadOnlyStaysZero
    BY DEF StoreInv
<1> QED
    BY PTL, <1>1, StoreInvariant
-----------------------------------------------------------------------------
(* An R_Key that died stays dead, for generate_rkey draws outside           *)
(* used_rkeys; a live one keeps its region.                                 *)
THEOREM NoRkeyReuse == StoreSpec => RkeysNeverReused
<1> DEFINE Kept == \A k \in used_rkeys :
                      k \in DOMAIN rkey_to_lkey' =>
                          k \in DOMAIN rkey_to_lkey /\ rkey_to_lkey'[k] = rkey_to_lkey[k]
<1>1. ASSUME StoreInv, [StoreNext]_storeVars
      PROVE  [Kept]_storeVars
    <2>1. StoreTypeOK
        BY <1>1 DEF StoreInv
    <2>2. CASE UNCHANGED rkey_to_lkey
        BY <2>2
    <2>3. ASSUME NEW pd \in PDs, NEW acc \in Accesses, NEW len \in Lens,
                 NEW rkey \in RKeys \ used_rkeys,
                 QuotaStatus(len) = "Ok", Register(pd, acc, len, rkey)
          PROVE  Kept
        <3>1. rkey_to_lkey' = With(rkey_to_lkey, rkey, next_lkey)
            BY Zenon, <2>1, <2>3, RegisterEffect
        <3> QED
            BY <3>1 DEF With
    <2>4. ASSUME NEW pd \in PDs, NEW lkey \in DOMAIN regions,
                 DeregisterStatus(pd, lkey) = "Ok", Deregister(pd, lkey)
          PROVE  Kept
        <3>1. rkey_to_lkey' = Without(rkey_to_lkey, regions[lkey].rkey)
            BY <2>4, DeregisterEffect
        <3> QED
            BY <3>1 DEF Without
    <2> HIDE DEF Kept
    <2> QED
        BY <1>1, <2>1, <2>2, <2>3, <2>4, StepCases DEF storeVars, Store
<1> QED
    BY PTL, <1>1, StoreInvariant DEF StoreSpec, RkeysNeverReused

(* A step keeps owner, key, rights and length of every live region, and     *)
(* changes the contents of one region at most.                              *)
THEOREM ShapeKept == StoreSpec => RegionsKeepTheirShape
<1>1. ASSUME StoreInv, [StoreNext]_storeVars
      PROVE  [KeepShape]_storeVars
    <2>1. StoreTypeOK
        BY <1>1 DEF StoreInv
    <2>2. CASE UNCHANGED regions
        BY <2>2 DEF KeepShape
    <2>3. ASSUME NEW pd \in PDs, NEW acc \in Accesses, NEW len \in Lens,
                 NEW rkey \in RKeys \ used_rkeys,
                 QuotaStatus(len) = "Ok", Register(pd, acc, len, rkey)
          PROVE  KeepShape
        <3>1. PICK e : regions' = With(regions, next_lkey, e)
            BY ZenonT(30), <2>1, <2>3, RegisterEffect
        <3> QED
            BY <3>1, <1>1 DEF KeepShape, With, StoreInv, KeysAgree, StoreTypeOK
    <2>4. ASSUME NEW pd \in PDs, NEW lkey \in DOMAIN regions,
                 DeregisterStatus(pd, lkey) = "Ok", Deregister(pd, lkey)
          PROVE  KeepShape
        <3>1. \A l \in DOMAIN regions \cap DOMAIN regions' : regions'[l] = regions[l]
            <4>1. regions' = Without(regions, lkey)
                BY <2>4, DeregisterEffect
            <4> QED
                BY <4>1 DEF Without
        <3> QED
            BY <3>1 DEF KeepShape
    <2>5. ASSUME NEW rkey \in DOMAIN rkey_to_lkey, NEW off \in Nat, NEW w \in Seq(Cell),
                 rkey_to_lkey[rkey] \in DOMAIN regions, Store(rkey, off, w)
          PROVE  KeepShape
        BY <2>1, <2>5, StoreEffect DEF KeepShape
    <2> QED
        BY Zenon, <1>1, <2>1, <2>2, <2>3, <2>4, <2>5, StepCases DEF storeVars
<1> QED
    BY PTL, <1>1, StoreInvariant DEF StoreSpec, RegionsKeepTheirShape
=============================================================================
