---- MODULE FileSystemProofs ----
(***************************************************************************)
(* Proofs about the storage of fs/src, for every size of the device and of *)
(* its tables: the swap partition (Wm2ud), and the files of NEFS (Nefs).   *)
(*                                                                         *)
(* The hash table of WM2UD is probed linearly and emptied in place.  While *)
(* nothing was emptied (no hole), the slots a probe passes before the      *)
(* entry of an address are all used (Reachable), and that is why the probe *)
(* finds it; the rest of the invariant holds with holes as well.           *)
(***************************************************************************)
EXTENDS Wm2ud, Nefs, FiniteSetTheorems, TLAPS

LEMMA LeastNatural ==
  ASSUME NEW T, T \subseteq Nat, T # {}
  PROVE  \E m \in T : \A k \in T : m <= k
<1> DEFINE R == {ss \in Nat \X Nat : ss[1] < ss[2]}
<1>1. R = OpToRel(<, Nat)
  BY DEF OpToRel
<1>2. IsWellFoundedOn(R, Nat)
  BY <1>1, NatLessThanWellFounded
<1> HIDE DEF R
<1>3. PICK m \in T : \A k \in T : ~(<<k, m>> \in R)
  BY <1>2, WFMin
<1>4. ASSUME NEW k \in T PROVE m <= k
  <2>1. m \in Nat /\ k \in Nat
    OBVIOUS
  <2>2. ~(k < m)
    BY <1>3, <2>1, Zenon DEF R
  <2> QED BY <2>1, <2>2
<1> QED BY <1>4

----------------------------------------------------------------------------
SwapEntry == [virtual_addr : SwapAddresses \cup {0}, physical_block : 0 .. total_blocks - 1,
              last_access : 0 .. MaxSeconds]

\* The entry in slot i is for address a, holds its last version, and no probe
\* for a stops before it.
Reachable(a, i) ==
    /\ page_table[i].physical_block # 0 /\ page_table[i].virtual_addr = a
    /\ swap_disk[page_table[i].physical_block] = <<a, latest[a]>>
    /\ \A j \in Slots : ProbeDistance(a, j) < ProbeDistance(a, i) => page_table[j].physical_block # 0

\* Until the first hole an address has one entry, or none if it was not written.
TableIntact ==
    swap_up /\ ~holes => \A a \in SwapAddresses :
        /\ latest[a] = 0 => \A i \in Used : page_table[i].virtual_addr # a
        /\ latest[a] # 0 => \E i \in Slots : Reachable(a, i)
        /\ \A i, j \in Used : page_table[i].virtual_addr = a /\ page_table[j].virtual_addr = a => i = j

SwapInv ==
    /\ SwapTypeOK /\ NoForeignPage /\ FreePagesCounted /\ SpinsOnLargeDevices /\ TableIntact

----------------------------------------------------------------------------
(***************************************************************************)
(* Probing                                                                 *)
(***************************************************************************)
LEMMA DistanceIsWrapped ==
  \A h, i \in Slots : (i - h) % page_table_size = IF i >= h THEN i - h ELSE i - h + page_table_size
BY SwapAssumption DEF Slots

LEMMA DistanceType ==
  ASSUME NEW a \in Nat
  PROVE  /\ \A i \in Slots : ProbeDistance(a, i) \in Nat
         /\ \A i, j \in Slots : ProbeDistance(a, i) = ProbeDistance(a, j) => i = j
<1>1. hash_addr(a) \in Slots
  BY SwapAssumption DEF hash_addr, Slots
<1>2. \A i \in Slots : ProbeDistance(a, i) =
        IF i >= hash_addr(a) THEN i - hash_addr(a) ELSE i - hash_addr(a) + page_table_size
  BY <1>1, DistanceIsWrapped DEF ProbeDistance
<1> QED BY <1>1, <1>2, SwapAssumption DEF Slots

\* The three probe loops end at the first slot of Stops, if there is one.
LEMMA ProbeStops ==
  ASSUME NEW a \in Nat, Stops(a) # {}
  PROVE  /\ Probe(a) \in Stops(a) /\ Probe(a) \in Slots
         /\ \A j \in Stops(a) : ProbeDistance(a, Probe(a)) <= ProbeDistance(a, j)
<1> DEFINE T == {ProbeDistance(a, i) : i \in Stops(a)}
<1>1. Stops(a) \subseteq Slots
  BY DEF Stops
<1>2. T \subseteq Nat /\ T # {}
  BY <1>1, DistanceType
<1>3. PICK m \in T : \A k \in T : m <= k
  BY <1>2, LeastNatural
<1>4. \E i \in Stops(a) : \A j \in Stops(a) : ProbeDistance(a, i) <= ProbeDistance(a, j)
  BY <1>3
<1> QED BY <1>1, <1>4 DEF Probe

\* Where a probe for a ends when there is no entry for it: at an empty slot,
\* behind used ones.
LEMMA ProbeEmpty ==
  ASSUME NEW a \in Nat, Stops(a) # {}, ~Found(a)
  PROVE  /\ Probe(a) \in Slots /\ page_table[Probe(a)].physical_block = 0
         /\ \A j \in Slots : ProbeDistance(a, j) < ProbeDistance(a, Probe(a)) =>
              page_table[j].physical_block # 0
<1>1. Probe(a) \in Slots /\ page_table[Probe(a)].physical_block = 0
  BY ProbeStops DEF Found
<1>2. ASSUME NEW j \in Slots, ProbeDistance(a, j) < ProbeDistance(a, Probe(a)),
             page_table[j].physical_block = 0
      PROVE  FALSE
  <2>1. j \in Stops(a)
    BY <1>2 DEF Stops
  <2>2. ProbeDistance(a, j) \in Nat /\ ProbeDistance(a, Probe(a)) \in Nat
    BY <1>1, DistanceType
  <2> QED BY <1>2, <2>1, <2>2, ProbeStops
<1> QED BY <1>1, <1>2

\* An address that is found has a used slot of its own.
LEMMA FoundSlot ==
  ASSUME NEW a \in Nat, Found(a)
  PROVE  /\ Probe(a) \in Slots /\ Probe(a) \in Used
         /\ page_table[Probe(a)].virtual_addr = a
BY ProbeStops DEF Found, Stops, Used

\* In an intact table the probe finds exactly what was written.
LEMMA IntactFinds ==
  ASSUME TableIntact, swap_up, ~holes, NEW a \in SwapAddresses
  PROVE  /\ latest[a] = 0 => ~Found(a)
         /\ latest[a] # 0 =>
              Found(a) /\ swap_disk[page_table[Probe(a)].physical_block] = <<a, latest[a]>>
<1>1. a \in Nat
  BY SwapAssumption
<1>2. CASE latest[a] = 0
  BY <1>1, <1>2, FoundSlot DEF TableIntact
<1>3. CASE latest[a] # 0
  <2>1. PICK i \in Slots : Reachable(a, i)
    BY <1>3 DEF TableIntact
  <2>2. i \in Stops(a) /\ i \in Used
    BY <2>1 DEF Reachable, Stops, Used
  <2>3. Probe(a) \in Slots /\ Probe(a) \in Stops(a)
        /\ ProbeDistance(a, Probe(a)) <= ProbeDistance(a, i)
    BY <1>1, <2>2, ProbeStops
  <2>4. Probe(a) = i
    <3>1. ProbeDistance(a, Probe(a)) \in Nat /\ ProbeDistance(a, i) \in Nat
      BY <1>1, <2>3, DistanceType
    <3>2. CASE ProbeDistance(a, Probe(a)) = ProbeDistance(a, i)
      BY <1>1, <2>3, <3>2, DistanceType
    <3>3. CASE ProbeDistance(a, Probe(a)) < ProbeDistance(a, i)
      <4>1. page_table[Probe(a)].physical_block # 0
        BY <2>1, <2>3, <3>3 DEF Reachable
      <4>2. Probe(a) \in Used /\ page_table[Probe(a)].virtual_addr = a
        BY <2>3, <4>1 DEF Stops, Used
      <4> QED BY <2>1, <2>2, <4>2 DEF TableIntact, Reachable
    <3> QED BY <2>3, <3>1, <3>2, <3>3
  <2> QED BY <1>3, <2>1, <2>2, <2>4 DEF Found, Reachable
<1> QED BY <1>2, <1>3

----------------------------------------------------------------------------
(***************************************************************************)
(* Blocks                                                                  *)
(***************************************************************************)
LEMMA BlocksFinite ==
  ASSUME SwapTypeOK
  PROVE  /\ total_blocks \in Nat /\ total_blocks >= 2
         /\ IsFiniteSet(DataBlocks) /\ Cardinality(DataBlocks) = total_blocks - 1
         /\ FreeBlocks \subseteq DataBlocks /\ IsFiniteSet(FreeBlocks)
         /\ Cardinality(FreeBlocks) \in 0 .. total_blocks - 1
<1>1. total_blocks \in Nat /\ total_blocks >= 2
  BY SwapAssumption DEF SwapTypeOK
<1>2. IsFiniteSet(DataBlocks) /\ Cardinality(DataBlocks) = total_blocks - 1
  BY <1>1, FS_Interval DEF DataBlocks
<1>3. FreeBlocks \subseteq DataBlocks
  BY DEF FreeBlocks
<1>4. IsFiniteSet(FreeBlocks) /\ Cardinality(FreeBlocks) <= total_blocks - 1
  BY <1>2, <1>3, FS_Subset
<1>5. Cardinality(FreeBlocks) \in Nat
  BY <1>4, FS_CardinalityType
<1> QED BY <1>1, <1>2, <1>3, <1>4, <1>5

LEMMA BlockAllocated ==
  ASSUME SwapTypeOK, FreeBlocks # {}
  PROVE  alloc_block \in FreeBlocks
<1>1. FreeBlocks \subseteq Nat
  BY DEF FreeBlocks, DataBlocks
<1>2. \E b \in FreeBlocks : \A c \in FreeBlocks : b <= c
  BY <1>1, LeastNatural
<1> QED BY <1>2 DEF alloc_block

\* lru_evict finds a victim as soon as one entry is used.
LEMMA VictimFound ==
  ASSUME SwapTypeOK, Used # {}
  PROVE  lru_evict \in Used
<1> DEFINE Times == {page_table[i].last_access : i \in Used}
<1>1. \A i \in Used : i \in Slots /\ i \in Nat /\ page_table[i].last_access \in Nat
  BY SwapAssumption DEF Used, SwapTypeOK, Slots
<1>2. Times \subseteq Nat /\ Times # {}
  BY <1>1
<1>3. PICK t \in Times : \A u \in Times : t <= u
  BY <1>2, LeastNatural
<1> DEFINE Oldests == {i \in Used : page_table[i].last_access = t}
<1>4. Oldests \subseteq Nat /\ Oldests # {}
  BY <1>1
<1>5. PICK v \in Oldests : \A i \in Oldests : v <= i
  BY <1>4, LeastNatural
<1>6. ASSUME NEW j \in Used PROVE Older(v, j)
  <2>1. page_table[v].last_access = t /\ page_table[j].last_access \in Times
    BY <1>5
  <2>2. t <= page_table[j].last_access /\ t \in Nat /\ page_table[j].last_access \in Nat
    BY <1>1, <1>2, <1>3, <2>1
  <2>3. CASE t = page_table[j].last_access
    BY <1>5, <2>1, <2>3 DEF Older
  <2>4. CASE t < page_table[j].last_access
    BY <2>1, <2>4 DEF Older
  <2> QED BY <2>2, <2>3, <2>4
<1>7. v \in Used
  BY <1>5
<1> QED BY <1>6, <1>7 DEF lru_evict

\* Without a free block there is something to evict.
LEMMA FullTableUsed ==
  ASSUME SwapTypeOK, FreeBlocks = {}
  PROVE  Used # {}
<1>1. 1 \in DataBlocks
  BY BlocksFinite DEF DataBlocks
<1>2. PICK i \in Slots : page_table[i].physical_block = 1
  BY <1>1 DEF FreeBlocks
<1> QED BY <1>2 DEF Used

\* With every slot used the device has more blocks than the table has slots.
LEMMA EverySlotUsed ==
  ASSUME SwapTypeOK, NoForeignPage, Used = Slots
  PROVE  total_blocks > page_table_size
<1> DEFINE f == [i \in Slots |-> page_table[i].physical_block]
<1>1. total_blocks \in Nat /\ IsFiniteSet(DataBlocks) /\ Cardinality(DataBlocks) = total_blocks - 1
  BY BlocksFinite
<1>2. IsFiniteSet(Slots) /\ Cardinality(Slots) = page_table_size /\ page_table_size \in Nat
  BY SwapAssumption, FS_Interval DEF Slots
<1>3. \A i \in Slots : page_table[i].physical_block \in DataBlocks
  BY BlocksFinite DEF Used, SwapTypeOK, DataBlocks
<1>4. f \in [Slots -> DataBlocks]
  BY <1>3
<1>5. \A i, j \in Slots : f[i] = f[j] => i = j
  BY DEF NoForeignPage
<1> HIDE DEF f
<1>6. ~(Cardinality(DataBlocks) < Cardinality(Slots))
  BY <1>1, <1>2, <1>4, <1>5, FS_PigeonHole
<1> QED BY <1>1, <1>2, <1>6

----------------------------------------------------------------------------
(***************************************************************************)
(* Steps                                                                   *)
(***************************************************************************)
LEMMA TypesFolded ==
  SwapTypeOK <=>
    /\ swap_up \in BOOLEAN /\ spinning \in BOOLEAN /\ holes \in BOOLEAN
    /\ total_blocks \in SwapDevices
    /\ page_table \in [Slots -> SwapEntry]
    /\ free_pages \in 0 .. total_blocks - 1
    /\ swap_disk \in [DataBlocks -> {<< >>} \cup (SwapAddresses \X SwapVersions)]
    /\ seconds \in 0 .. MaxSeconds
    /\ latest \in [SwapAddresses -> SwapVersions \cup {0}]
BY DEF SwapTypeOK, SwapEntry

LEMMA EmptyTableTypes ==
  ASSUME total_blocks \in SwapDevices
  PROVE  /\ EmptyTable \in [Slots -> SwapEntry]
         /\ \A i \in Slots : EmptyTable[i].physical_block = 0
<1>1. total_blocks \in Nat /\ total_blocks >= 2
  BY SwapAssumption
<1> QED BY <1>1, SwapAssumption DEF EmptyTable, Blank, SwapEntry

LEMMA SwapInitInv == SwapInit => SwapInv
<1> SUFFICES ASSUME SwapInit PROVE SwapInv
  OBVIOUS
<1> USE DEF SwapInit
<1>1. total_blocks \in Nat /\ total_blocks >= 2
  BY SwapAssumption
<1>2. SwapTypeOK
  <2>1. page_table \in [Slots -> SwapEntry]
    BY EmptyTableTypes
  <2>2. 0 \in 0 .. total_blocks - 1 /\ 0 \in 0 .. MaxSeconds
    BY <1>1, SwapAssumption
  <2>3. swap_up \in BOOLEAN /\ spinning \in BOOLEAN /\ holes \in BOOLEAN
    BY Zenon
  <2> QED BY <2>1, <2>2, <2>3 DEF SwapTypeOK, SwapEntry
<1>3. Used = {}
  BY EmptyTableTypes DEF Used
<1>4. NoForeignPage /\ FreePagesCounted /\ SpinsOnLargeDevices /\ TableIntact
  BY <1>3 DEF NoForeignPage, FreePagesCounted, SpinsOnLargeDevices, TableIntact
<1> QED BY <1>2, <1>4 DEF SwapInv

\* Formatting leaves every slot empty and every block free.
LEMMA FormatInv ==
  ASSUME SwapInv, wm2ud_format
  PROVE  SwapInv'
<1>1. /\ swap_up' = TRUE /\ page_table' = EmptyTable /\ free_pages' = total_blocks - 1
      /\ latest' = [a \in SwapAddresses |-> 0] /\ holes' = FALSE
      /\ UNCHANGED <<total_blocks, swap_disk, seconds, spinning>>
  BY DEF wm2ud_format, FormatWith
<1>2. /\ total_blocks \in Nat /\ total_blocks >= 2 /\ total_blocks \in SwapDevices
      /\ IsFiniteSet(DataBlocks) /\ Cardinality(DataBlocks) = total_blocks - 1
  BY BlocksFinite DEF SwapInv, SwapTypeOK
<1>3. page_table' \in [Slots -> SwapEntry] /\ \A i \in Slots : page_table'[i].physical_block = 0
  BY <1>1, <1>2, EmptyTableTypes
<1>4. SwapTypeOK'
  <2>1. swap_up' \in BOOLEAN /\ holes' \in BOOLEAN
    BY <1>1, Zenon
  <2>2. free_pages' \in 0 .. total_blocks - 1 /\ latest' \in [SwapAddresses -> SwapVersions \cup {0}]
    BY <1>1, <1>2
  <2> QED BY <1>1, <1>3, <2>1, <2>2 DEF SwapInv, SwapTypeOK, SwapEntry, DataBlocks
<1>5. FreeBlocks' = DataBlocks
  BY <1>1, <1>3 DEF FreeBlocks, DataBlocks
<1>6. FreePagesCounted'
  BY <1>1, <1>2, <1>5 DEF FreePagesCounted
<1>7. NoForeignPage' /\ SpinsOnLargeDevices' /\ TableIntact'
  BY <1>1, <1>3 DEF NoForeignPage, SwapInv, SpinsOnLargeDevices, TableIntact, Used
<1> QED BY <1>4, <1>6, <1>7 DEF SwapInv

LEMMA UnmountInv ==
  ASSUME SwapInv, wm2ud_unmount
  PROVE  SwapInv'
<1>1. /\ swap_up' = FALSE
      /\ UNCHANGED <<total_blocks, page_table, free_pages, swap_disk, seconds, spinning,
                     latest, holes>>
  BY DEF wm2ud_unmount
<1>2. SwapTypeOK'
  <2>1. swap_up' \in BOOLEAN
    BY <1>1, Zenon
  <2> QED BY <1>1, <2>1 DEF SwapInv, SwapTypeOK, DataBlocks
<1> QED BY <1>1, <1>2 DEF SwapInv, NoForeignPage, Used, FreePagesCounted, SpinsOnLargeDevices,
      TableIntact

\* A step that writes neither the table nor the device leaves the table intact.
LEMMA SameTableIntact ==
  ASSUME TableIntact, UNCHANGED <<swap_up, page_table, swap_disk, latest, holes>>
  PROVE  TableIntact'
<1>1. \A a, i : Reachable(a, i)' <=> Reachable(a, i)
  BY DEF Reachable, ProbeDistance, hash_addr
<1>2. Used' = Used
  BY DEF Used
<1> QED BY <1>1, <1>2 DEF TableIntact

LEMMA SecondPassesInv ==
  ASSUME SwapInv, SecondPasses
  PROVE  SwapInv'
<1>1. /\ seconds < MaxSeconds /\ seconds' = seconds + 1
      /\ UNCHANGED <<swap_up, total_blocks, page_table, free_pages, swap_disk, spinning, latest, holes>>
  BY DEF SecondPasses
<1>2. SwapTypeOK'
  <2>1. seconds' \in 0 .. MaxSeconds
    BY <1>1, SwapAssumption DEF SwapInv, SwapTypeOK
  <2> QED BY <1>1, <2>1 DEF SwapInv, SwapTypeOK, DataBlocks
<1>3. NoForeignPage' /\ FreePagesCounted' /\ SpinsOnLargeDevices'
  BY <1>1 DEF SwapInv, NoForeignPage, Used, FreePagesCounted, FreeBlocks, DataBlocks,
     SpinsOnLargeDevices
<1>4. TableIntact'
  BY <1>1, SameTableIntact DEF SwapInv
<1> QED BY <1>2, <1>3, <1>4 DEF SwapInv

\* A probe that does not end has passed a used slot at every place.
LEMMA ProbeForeverInv ==
  ASSUME SwapInv, NEW a \in SwapAddresses, ProbeForever(a)
  PROVE  SwapInv'
<1>1. /\ Stops(a) = {} /\ spinning' = TRUE
      /\ UNCHANGED <<swap_up, total_blocks, page_table, free_pages, swap_disk, seconds, latest, holes>>
  BY DEF ProbeForever
<1>2. Used = Slots
  BY <1>1 DEF Stops, Used
<1>3. SwapTypeOK'
  <2>1. spinning' \in BOOLEAN
    BY <1>1, Zenon
  <2> QED BY <1>1, <2>1 DEF SwapInv, SwapTypeOK, DataBlocks
<1>4. SpinsOnLargeDevices'
  BY <1>1, <1>2, EverySlotUsed DEF SwapInv, SpinsOnLargeDevices
<1> QED BY <1>1, <1>3, <1>4 DEF SwapInv, NoForeignPage, Used, FreePagesCounted, FreeBlocks,
      DataBlocks, TableIntact, Reachable, ProbeDistance, hash_addr

\* Noting the time of an access changes no entry's address or block.
LEMMA Touched ==
  ASSUME SwapTypeOK, NEW p \in Slots, UNCHANGED total_blocks,
         page_table' = [page_table EXCEPT ![p].last_access = seconds]
  PROVE  /\ page_table' \in [Slots -> SwapEntry']
         /\ \A i \in Slots : /\ page_table'[i].physical_block = page_table[i].physical_block
                             /\ page_table'[i].virtual_addr = page_table[i].virtual_addr
         /\ Used' = Used /\ FreeBlocks' = FreeBlocks
<1>1. page_table \in [Slots -> SwapEntry] /\ seconds \in 0 .. MaxSeconds
  BY TypesFolded
<1>2. page_table' \in [Slots -> SwapEntry]
  BY <1>1 DEF SwapEntry
<1>3. \A i \in Slots : /\ page_table'[i].physical_block = page_table[i].physical_block
                       /\ page_table'[i].virtual_addr = page_table[i].virtual_addr
  BY <1>1 DEF SwapEntry
<1>4. SwapEntry' = SwapEntry
  BY DEF SwapEntry
<1> QED BY <1>2, <1>3, <1>4 DEF Used, FreeBlocks, DataBlocks

LEMMA ReadInv ==
  ASSUME SwapInv, NEW a \in SwapAddresses, wm2ud_read_page(a)
  PROVE  SwapInv'
<1>1. /\ Found(a) /\ page_table' = [page_table EXCEPT ![Probe(a)].last_access = seconds]
      /\ UNCHANGED <<swap_up, total_blocks, free_pages, swap_disk, seconds, spinning, latest, holes>>
  BY DEF wm2ud_read_page
<1>2. SwapTypeOK /\ Probe(a) \in Slots
  BY <1>1, FoundSlot, SwapAssumption DEF SwapInv
<1>3. /\ page_table' \in [Slots -> SwapEntry']
      /\ \A i \in Slots : /\ page_table'[i].physical_block = page_table[i].physical_block
                          /\ page_table'[i].virtual_addr = page_table[i].virtual_addr
      /\ Used' = Used /\ FreeBlocks' = FreeBlocks
  BY <1>1, <1>2, Touched
<1>4. SwapTypeOK'
  BY <1>1, <1>2, <1>3 DEF SwapTypeOK, SwapEntry, DataBlocks
<1>5. NoForeignPage'
  <2>1. \A i \in Used : i \in Slots
    BY DEF Used
  <2> QED BY <1>1, <1>3, <2>1 DEF SwapInv, NoForeignPage
<1>6. FreePagesCounted' /\ SpinsOnLargeDevices'
  BY <1>1, <1>3 DEF SwapInv, FreePagesCounted, SpinsOnLargeDevices
<1>7. TableIntact'
  <2>1. ASSUME NEW x \in SwapAddresses, NEW i \in Slots, Reachable(x, i)
        PROVE  Reachable(x, i)'
    BY <1>1, <1>3, <2>1 DEF Reachable, ProbeDistance, hash_addr
  <2>2. \A i \in Used : i \in Slots
    BY DEF Used
  <2>3. ASSUME swap_up, ~holes, NEW x \in SwapAddresses
        PROVE  /\ latest'[x] = 0 => \A i \in Used : page_table'[i].virtual_addr # x
               /\ latest'[x] # 0 => \E i \in Slots : Reachable(x, i)'
               /\ \A i, j \in Used : page_table'[i].virtual_addr = x
                    /\ page_table'[j].virtual_addr = x => i = j
    BY <1>1, <1>3, <2>1, <2>2, <2>3 DEF SwapInv, TableIntact
  <2> QED BY <1>1, <1>3, <2>3 DEF TableIntact
<1> QED BY <1>4, <1>5, <1>6, <1>7 DEF SwapInv

\* A version written over the one before: same entry, same block.
LEMMA RewriteInv ==
  ASSUME SwapInv, NEW a \in SwapAddresses, NEW v \in SwapVersions, Rewrite(a, v),
         UNCHANGED <<swap_up, total_blocks, seconds, spinning>>
  PROVE  SwapInv'
<1> DEFINE b == page_table[Probe(a)].physical_block
<1>1. /\ Found(a) /\ page_table' = [page_table EXCEPT ![Probe(a)].last_access = seconds]
      /\ swap_disk' = [swap_disk EXCEPT ![b] = <<a, v>>] /\ latest' = [latest EXCEPT ![a] = v]
      /\ UNCHANGED <<free_pages, holes>>
  BY DEF Rewrite, StoreAt
<1>2. /\ SwapTypeOK /\ Probe(a) \in Slots /\ Probe(a) \in Used
      /\ page_table[Probe(a)].virtual_addr = a
  BY <1>1, FoundSlot, SwapAssumption DEF SwapInv
<1>3. /\ page_table' \in [Slots -> SwapEntry']
      /\ \A i \in Slots : /\ page_table'[i].physical_block = page_table[i].physical_block
                          /\ page_table'[i].virtual_addr = page_table[i].virtual_addr
      /\ Used' = Used /\ FreeBlocks' = FreeBlocks
  BY <1>1, <1>2, Touched
<1>4. \A i \in Used : i \in Slots /\ page_table[i].physical_block \in DataBlocks
  BY <1>2, BlocksFinite DEF Used, SwapTypeOK, DataBlocks
<1>5. /\ swap_disk \in [DataBlocks -> {<< >>} \cup (SwapAddresses \X SwapVersions)]
      /\ latest \in [SwapAddresses -> SwapVersions \cup {0}] /\ b \in DataBlocks
  BY <1>2, <1>4 DEF SwapTypeOK
<1> HIDE DEF b
<1>6. /\ swap_disk' \in [DataBlocks -> {<< >>} \cup (SwapAddresses \X SwapVersions)]
      /\ latest' \in [SwapAddresses -> SwapVersions \cup {0}]
  BY <1>1, <1>5
<1>7. SwapTypeOK'
  BY <1>1, <1>2, <1>3, <1>6 DEF SwapTypeOK, SwapEntry, DataBlocks
<1>8. \A c \in DataBlocks : swap_disk'[c] = IF c = b THEN <<a, v>> ELSE swap_disk[c]
  BY <1>1, <1>5
<1>9. \A i \in Used : page_table[i].physical_block = b => i = Probe(a)
  BY <1>2 DEF SwapInv, NoForeignPage, b
<1>10. NoForeignPage'
  <2>1. ASSUME NEW i \in Used
        PROVE  swap_disk'[page_table[i].physical_block][1] = page_table[i].virtual_addr
    <3>1. CASE page_table[i].physical_block = b
      <4>1. i = Probe(a)
        BY <1>9, <3>1
      <4>2. swap_disk'[page_table[i].physical_block] = <<a, v>>
        BY <1>4, <1>8, <3>1
      <4> QED BY <1>2, <4>1, <4>2
    <3>2. CASE page_table[i].physical_block # b
      BY <1>4, <1>8, <3>2 DEF SwapInv, NoForeignPage
    <3> QED BY <3>1, <3>2
  <2> QED BY <1>3, <1>4, <2>1 DEF SwapInv, NoForeignPage
<1>11. FreePagesCounted' /\ SpinsOnLargeDevices'
  BY <1>1, <1>3 DEF SwapInv, FreePagesCounted, SpinsOnLargeDevices
<1>12. TableIntact'
  <2> SUFFICES ASSUME swap_up, ~holes, NEW x \in SwapAddresses
               PROVE  /\ latest'[x] = 0 => \A i \in Used : page_table[i].virtual_addr # x
                      /\ latest'[x] # 0 => \E i \in Slots : Reachable(x, i)'
                      /\ \A i, j \in Used : page_table[i].virtual_addr = x
                           /\ page_table[j].virtual_addr = x => i = j
    BY <1>1, <1>3, <1>4 DEF TableIntact
  <2>1. \A i, j \in Used : page_table[i].virtual_addr = x
                           /\ page_table[j].virtual_addr = x => i = j
    BY DEF SwapInv, TableIntact
  <2>2. CASE x = a
    <3>1. latest'[x] = v /\ v # 0
      BY <1>1, <1>5, <2>2, SwapAssumption
    <3>2. latest[a] # 0
      <4>1. latest[a] = 0 => ~Found(a)
        BY IntactFinds DEF SwapInv
      <4> QED BY <1>1, <4>1
    <3>3. PICK i \in Slots : Reachable(a, i)
      BY <3>2 DEF SwapInv, TableIntact
    <3>4. i = Probe(a)
      BY <1>2, <2>1, <2>2, <3>3 DEF Reachable, Used
    <3>5. swap_disk'[page_table[i].physical_block] = <<a, v>>
      BY <1>5, <1>8, <3>4 DEF b
    <3>6. Reachable(x, i)'
      BY <1>3, <2>2, <3>1, <3>3, <3>5 DEF Reachable, ProbeDistance, hash_addr
    <3> QED BY <2>1, <3>1, <3>6, SwapAssumption
  <2>3. CASE x # a
    <3>1. latest'[x] = latest[x]
      BY <1>1, <1>5, <2>3
    <3>2. ASSUME NEW i \in Slots, Reachable(x, i) PROVE Reachable(x, i)'
      <4>1. i \in Used /\ i # Probe(a)
        BY <1>2, <2>3, <3>2 DEF Reachable, Used
      <4>2. swap_disk'[page_table[i].physical_block] = swap_disk[page_table[i].physical_block]
        BY <1>4, <1>8, <1>9, <4>1
      <4> QED BY <1>3, <3>1, <3>2, <4>2 DEF Reachable, ProbeDistance, hash_addr
    <3> QED BY <2>1, <3>1, <3>2 DEF SwapInv, TableIntact
  <2> QED BY <2>2, <2>3
<1> QED BY <1>7, <1>10, <1>11, <1>12 DEF SwapInv

\* The entry of an address that had none: a free block, or the victim's.
LEMMA NewEntryInv ==
  ASSUME SwapInv, NEW a \in SwapAddresses, NEW v \in SwapVersions, WriteNew(a, v),
         swap_up, UNCHANGED <<swap_up, total_blocks, seconds, spinning>>
  PROVE  SwapInv'
<1> DEFINE p == Probe(a)
           b == alloc_block
<1>1. /\ ~Found(a) /\ Stops(a) # {} /\ FreeBlocks # {}
      /\ swap_disk' = [swap_disk EXCEPT ![b] = <<a, v>>] /\ latest' = [latest EXCEPT ![a] = v]
      /\ page_table' = [page_table EXCEPT ![p] = Entry(a, b)]
      /\ free_pages' = free_pages - 1 /\ UNCHANGED holes
  BY DEF WriteNew, StoreAt
<1>2. SwapTypeOK /\ a \in Nat
  BY SwapAssumption DEF SwapInv
<1>3. /\ p \in Slots /\ page_table[p].physical_block = 0
      /\ \A j \in Slots : ProbeDistance(a, j) < ProbeDistance(a, p) => page_table[j].physical_block # 0
  BY <1>1, <1>2, ProbeEmpty
<1>4. b \in FreeBlocks /\ b \in DataBlocks
  BY <1>1, <1>2, BlockAllocated DEF FreeBlocks
<1>5. /\ page_table \in [Slots -> SwapEntry] /\ seconds \in 0 .. MaxSeconds
      /\ swap_disk \in [DataBlocks -> {<< >>} \cup (SwapAddresses \X SwapVersions)]
      /\ latest \in [SwapAddresses -> SwapVersions \cup {0}]
  BY <1>2, TypesFolded
<1>6. \A i \in Used : i \in Slots /\ page_table[i].physical_block \in DataBlocks
  BY <1>2, BlocksFinite DEF Used, SwapTypeOK, DataBlocks
<1> HIDE DEF p, b
<1>7. Entry(a, b) \in SwapEntry /\ b # 0
  BY <1>2, <1>4, <1>5, BlocksFinite DEF Entry, SwapEntry, DataBlocks
<1>8. /\ page_table' \in [Slots -> SwapEntry]
      /\ \A i \in Slots : page_table'[i] = IF i = p THEN Entry(a, b) ELSE page_table[i]
  BY <1>1, <1>3, <1>5, <1>7
<1>9. /\ \A c \in DataBlocks : swap_disk'[c] = IF c = b THEN <<a, v>> ELSE swap_disk[c]
      /\ swap_disk' \in [DataBlocks -> {<< >>} \cup (SwapAddresses \X SwapVersions)]
      /\ latest' \in [SwapAddresses -> SwapVersions \cup {0}]
      /\ \A x \in SwapAddresses : latest'[x] = IF x = a THEN v ELSE latest[x]
  BY <1>1, <1>4, <1>5
<1>10. Entry(a, b).virtual_addr = a /\ Entry(a, b).physical_block = b
  BY DEF Entry
<1>11. p \notin Used /\ Used' = Used \cup {p}
  BY <1>3, <1>7, <1>8, <1>10 DEF Used
<1>12. \A i \in Used : i # p /\ page_table[i].physical_block # b
  BY <1>4, <1>6, <1>11 DEF FreeBlocks
<1>13. FreeBlocks' = FreeBlocks \ {b}
  <2>1. DataBlocks' = DataBlocks
    BY DEF DataBlocks
  <2>2. \A c \in DataBlocks : (\E i \in Slots : page_table'[i].physical_block = c) <=>
          c = b \/ \E i \in Slots : page_table[i].physical_block = c
    <3> SUFFICES ASSUME NEW c \in DataBlocks
                 PROVE  (\E i \in Slots : page_table'[i].physical_block = c) <=>
                          c = b \/ \E i \in Slots : page_table[i].physical_block = c
      OBVIOUS
    <3>1. c # 0
      BY <1>2, BlocksFinite DEF DataBlocks
    <3> QED BY <1>3, <1>8, <1>10, <3>1
  <2> QED BY <2>1, <2>2 DEF FreeBlocks
<1>14. /\ free_pages = Cardinality(FreeBlocks) \/ ~swap_up
       /\ IsFiniteSet(FreeBlocks) /\ Cardinality(FreeBlocks) \in 0 .. total_blocks - 1
       /\ Cardinality(FreeBlocks') = Cardinality(FreeBlocks) - 1
       /\ IsFiniteSet(FreeBlocks') /\ Cardinality(FreeBlocks') \in Nat
  <2>1. IsFiniteSet(FreeBlocks) /\ Cardinality(FreeBlocks) \in 0 .. total_blocks - 1
    BY <1>2, BlocksFinite
  <2>2. /\ IsFiniteSet(FreeBlocks \ {b})
        /\ Cardinality(FreeBlocks \ {b}) = Cardinality(FreeBlocks) - 1
    BY <1>4, <2>1, FS_RemoveElement
  <2>3. Cardinality(FreeBlocks \ {b}) \in Nat
    BY <2>2, FS_CardinalityType
  <2> QED BY <1>13, <2>1, <2>2, <2>3 DEF SwapInv, FreePagesCounted
<1>15. FreePagesCounted' /\ SpinsOnLargeDevices'
  BY <1>1, <1>14 DEF SwapInv, FreePagesCounted, SpinsOnLargeDevices
<1>16. SwapTypeOK'
  <2>1. free_pages' \in 0 .. total_blocks - 1
    BY <1>1, <1>14, BlocksFinite, <1>2
  <2> QED BY <1>1, <1>2, <1>8, <1>9, <2>1 DEF SwapTypeOK, SwapEntry, DataBlocks
<1>17. NoForeignPage'
  <2>1. swap_disk'[b] = <<a, v>> /\ page_table'[p] = Entry(a, b)
    BY <1>3, <1>4, <1>8, <1>9
  <2>2. \A i \in Used : /\ page_table'[i] = page_table[i]
                        /\ swap_disk'[page_table[i].physical_block] = swap_disk[page_table[i].physical_block]
    BY <1>6, <1>8, <1>9, <1>12
  <2> QED BY <1>10, <1>11, <1>12, <2>1, <2>2 DEF SwapInv, NoForeignPage
<1>18. TableIntact'
  <2>1. ASSUME ~holes, NEW x \in SwapAddresses
        PROVE  /\ latest'[x] = 0 => \A i \in Used' : page_table'[i].virtual_addr # x
               /\ latest'[x] # 0 => \E i \in Slots : Reachable(x, i)'
               /\ \A i, j \in Used' : page_table'[i].virtual_addr = x
                    /\ page_table'[j].virtual_addr = x => i = j
    <3>1. latest[a] = 0
      <4>1. latest[a] # 0 => Found(a)
        BY <2>1, IntactFinds DEF SwapInv
      <4> QED BY <1>1, <4>1
    <3>2. \A i \in Used : page_table[i].virtual_addr # a
      BY <2>1, <3>1 DEF SwapInv, TableIntact
    <3>3. \A i \in Used : page_table'[i].virtual_addr = page_table[i].virtual_addr
      BY <1>6, <1>8, <1>12
    <3>4. page_table'[p].virtual_addr = a /\ page_table'[p].physical_block = b
      BY <1>3, <1>8, <1>10
    <3>5. CASE x = a
      <4>1. latest'[x] = v /\ v # 0
        BY <1>9, <3>5, SwapAssumption
      <4>2. \A i \in Used' : page_table'[i].virtual_addr = x => i = p
        BY <1>11, <3>2, <3>3, <3>5
      <4>3. \A j \in Slots : ProbeDistance(a, j) < ProbeDistance(a, p) =>
              page_table'[j].physical_block # 0
        BY <1>3, <1>7, <1>8, <1>10
      <4>4. swap_disk'[b] = <<a, latest'[a]>>
        BY <1>4, <1>9, <3>5, <4>1
      <4>5. PICK i \in Slots : i = p
        BY <1>3
      <4>6. Reachable(x, i)'
        BY <1>7, <3>4, <3>5, <4>3, <4>4, <4>5 DEF Reachable, ProbeDistance, hash_addr
      <4> QED BY <4>1, <4>2, <4>6
    <3>6. CASE x # a
      <4>1. latest'[x] = latest[x]
        BY <1>9, <3>6
      <4>2. ASSUME NEW i \in Slots, Reachable(x, i) PROVE Reachable(x, i)'
        <5>1. i \in Used /\ i # p /\ page_table'[i] = page_table[i]
          BY <1>8, <1>12, <4>2 DEF Reachable, Used
        <5>2. swap_disk'[page_table[i].physical_block] = swap_disk[page_table[i].physical_block]
          BY <1>6, <1>9, <1>12, <5>1
        <5>3. \A j \in Slots : page_table[j].physical_block # 0 => page_table'[j].physical_block # 0
          BY <1>3, <1>8
        <5> QED BY <4>1, <4>2, <5>1, <5>2, <5>3 DEF Reachable, ProbeDistance, hash_addr
      <4>3. latest[x] = 0 => \A i \in Used' : page_table'[i].virtual_addr # x
        BY <1>11, <2>1, <3>3, <3>4, <3>6 DEF SwapInv, TableIntact
      <4>4. \A i, j \in Used : page_table[i].virtual_addr = x
              /\ page_table[j].virtual_addr = x => i = j
        BY <2>1 DEF SwapInv, TableIntact
      <4>5. latest[x] # 0 => \E i \in Slots : Reachable(x, i)
        BY <2>1 DEF SwapInv, TableIntact
      <4> QED BY <1>11, <3>3, <3>4, <3>6, <4>1, <4>2, <4>3, <4>4, <4>5
    <3> QED BY <3>5, <3>6
  <2> QED BY <1>1, <2>1 DEF TableIntact
<1> QED BY <1>15, <1>16, <1>17, <1>18 DEF SwapInv

LEMMA EvictInv ==
  ASSUME SwapInv, NEW a \in SwapAddresses, NEW v \in SwapVersions, WriteEvict(a, v),
         swap_up, UNCHANGED <<swap_up, total_blocks, seconds, spinning>>
  PROVE  SwapInv'
<1> DEFINE p == Probe(a)
           e == lru_evict
           b == page_table[e].physical_block
<1>1. /\ ~Found(a) /\ Stops(a) # {} /\ FreeBlocks = {}
      /\ swap_disk' = [swap_disk EXCEPT ![b] = <<a, v>>] /\ latest' = [latest EXCEPT ![a] = v]
      /\ page_table' = [page_table EXCEPT ![e].physical_block = 0, ![p] = Entry(a, b)]
      /\ holes' = TRUE /\ UNCHANGED free_pages
  BY DEF WriteEvict, StoreAt
<1>2. SwapTypeOK /\ a \in Nat
  BY SwapAssumption DEF SwapInv
<1>3. p \in Slots /\ page_table[p].physical_block = 0
  BY <1>1, <1>2, ProbeEmpty
<1>4. e \in Used
  BY <1>1, <1>2, FullTableUsed, VictimFound
<1>5. /\ page_table \in [Slots -> SwapEntry] /\ seconds \in 0 .. MaxSeconds
      /\ swap_disk \in [DataBlocks -> {<< >>} \cup (SwapAddresses \X SwapVersions)]
      /\ latest \in [SwapAddresses -> SwapVersions \cup {0}]
  BY <1>2, TypesFolded
<1>6. \A i \in Used : i \in Slots /\ page_table[i].physical_block \in DataBlocks
  BY <1>2, BlocksFinite DEF Used, SwapTypeOK, DataBlocks
<1>7. e \in Slots /\ b \in DataBlocks /\ e # p /\ b \in 0 .. total_blocks - 1 /\ b # 0
      /\ b = page_table[e].physical_block
  BY <1>2, <1>3, <1>4, <1>6, BlocksFinite DEF Used, DataBlocks
<1> HIDE DEF p, e, b
<1>8. Entry(a, b) \in SwapEntry /\ 0 \in 0 .. total_blocks - 1
  BY <1>2, <1>5, <1>7, BlocksFinite DEF Entry, SwapEntry
<1>9. Entry(a, b).virtual_addr = a /\ Entry(a, b).physical_block = b
  BY DEF Entry
<1>10. /\ page_table' \in [Slots -> SwapEntry]
       /\ page_table'[p] = Entry(a, b) /\ page_table'[e].physical_block = 0
       /\ \A i \in Slots \ {p, e} : page_table'[i] = page_table[i]
  <2> DEFINE emptied == [page_table[e] EXCEPT !.physical_block = 0]
  <2>1. emptied \in SwapEntry /\ emptied.physical_block = 0
    BY <1>5, <1>7, <1>8 DEF SwapEntry
  <2>2. page_table' = [[page_table EXCEPT ![e] = emptied] EXCEPT ![p] = Entry(a, b)]
    BY <1>1
  <2> HIDE DEF emptied
  <2> QED BY <1>3, <1>5, <1>7, <1>8, <2>1, <2>2
<1>11. /\ \A c \in DataBlocks : swap_disk'[c] = IF c = b THEN <<a, v>> ELSE swap_disk[c]
       /\ swap_disk' \in [DataBlocks -> {<< >>} \cup (SwapAddresses \X SwapVersions)]
       /\ latest' \in [SwapAddresses -> SwapVersions \cup {0}]
  BY <1>1, <1>5, <1>7
<1>12. Used' = (Used \ {e}) \cup {p}
  BY <1>3, <1>7, <1>9, <1>10 DEF Used
<1>13. \A i \in Used \ {e} : i # p /\ i # e /\ page_table[i].physical_block # b
  BY <1>3, <1>4, <1>7 DEF SwapInv, NoForeignPage, Used
<1>14. FreeBlocks' = {}
  <2>1. ASSUME NEW c \in DataBlocks PROVE \E i \in Slots : page_table'[i].physical_block = c
    <3>1. PICK i \in Slots : page_table[i].physical_block = c
      BY <1>1, <2>1 DEF FreeBlocks
    <3>2. c # 0
      BY <1>2, BlocksFinite DEF DataBlocks
    <3>3. CASE i = e
      BY <1>3, <1>7, <1>9, <1>10, <3>1, <3>3
    <3>4. CASE i # e
      BY <1>3, <1>10, <3>1, <3>2, <3>4
    <3> QED BY <3>3, <3>4
  <2> QED BY <2>1 DEF FreeBlocks, DataBlocks
<1>15. FreePagesCounted' /\ SpinsOnLargeDevices' /\ TableIntact'
  BY <1>1, <1>14 DEF SwapInv, FreePagesCounted, SpinsOnLargeDevices, TableIntact
<1>16. SwapTypeOK'
  <2>1. holes' \in BOOLEAN
    BY <1>1, Zenon
  <2> QED BY <1>1, <1>2, <1>10, <1>11, <2>1 DEF SwapTypeOK, SwapEntry, DataBlocks
<1>17. NoForeignPage'
  <2>1. swap_disk'[b] = <<a, v>>
    BY <1>7, <1>11
  <2>2. \A i \in Used \ {e} :
          /\ page_table'[i] = page_table[i]
          /\ swap_disk'[page_table[i].physical_block] = swap_disk[page_table[i].physical_block]
    BY <1>6, <1>10, <1>11, <1>13
  <2> QED BY <1>9, <1>10, <1>12, <1>13, <2>1, <2>2 DEF SwapInv, NoForeignPage
<1> QED BY <1>15, <1>16, <1>17 DEF SwapInv

\* A freed slot is a hole, and its block is free again.
LEMMA FreeInv ==
  ASSUME SwapInv, NEW a \in SwapAddresses, wm2ud_free_page(a)
  PROVE  SwapInv'
<1> DEFINE p == Probe(a)
           b == page_table[p].physical_block
<1>1. /\ Found(a) /\ swap_up
      /\ page_table' = [page_table EXCEPT ![p].physical_block = 0, ![p].virtual_addr = 0]
      /\ free_pages' = free_pages + 1 /\ latest' = [latest EXCEPT ![a] = 0] /\ holes' = TRUE
      /\ UNCHANGED <<swap_up, total_blocks, swap_disk, seconds, spinning>>
  BY DEF wm2ud_free_page
<1>2. SwapTypeOK /\ a \in Nat
  BY SwapAssumption DEF SwapInv
<1>3. p \in Slots /\ p \in Used
  BY <1>1, <1>2, FoundSlot
<1>4. /\ page_table \in [Slots -> SwapEntry] /\ latest \in [SwapAddresses -> SwapVersions \cup {0}]
  BY <1>2, TypesFolded
<1>5. \A i \in Used : i \in Slots /\ page_table[i].physical_block \in DataBlocks
  BY <1>2, BlocksFinite DEF Used, SwapTypeOK, DataBlocks
<1>6. b \in DataBlocks /\ b # 0 /\ b \notin FreeBlocks /\ b = page_table[p].physical_block
  BY <1>2, <1>3, <1>5, BlocksFinite DEF DataBlocks, FreeBlocks
<1> HIDE DEF p, b
<1>7. 0 \in 0 .. total_blocks - 1 /\ 0 \in SwapAddresses \cup {0}
  BY <1>2, BlocksFinite
<1>8. /\ page_table' \in [Slots -> SwapEntry] /\ page_table'[p].physical_block = 0
      /\ \A i \in Slots \ {p} : page_table'[i] = page_table[i]
  BY <1>1, <1>3, <1>4, <1>7 DEF SwapEntry
<1>9. Used' = Used \ {p}
  BY <1>3, <1>8 DEF Used
<1>10. FreeBlocks' = FreeBlocks \cup {b}
  <2>1. ASSUME NEW c \in DataBlocks
        PROVE  (\E i \in Slots : page_table'[i].physical_block = c) <=>
                 c # b /\ \E i \in Slots : page_table[i].physical_block = c
    <3>1. c # 0
      BY <1>2, BlocksFinite DEF DataBlocks
    <3>2. \A i \in Slots : page_table[i].physical_block = b => i = p
      BY <1>3, <1>6 DEF SwapInv, NoForeignPage, Used
    <3> QED BY <1>3, <1>6, <1>8, <3>1, <3>2
  <2>2. DataBlocks' = DataBlocks
    BY <1>1 DEF DataBlocks
  <2> QED BY <1>6, <2>1, <2>2 DEF FreeBlocks
<1>11. FreePagesCounted' /\ free_pages' \in 0 .. total_blocks - 1
  <2>1. IsFiniteSet(FreeBlocks) /\ free_pages = Cardinality(FreeBlocks)
    BY <1>1, <1>2, BlocksFinite DEF SwapInv, FreePagesCounted
  <2>2. Cardinality(FreeBlocks \cup {b}) = Cardinality(FreeBlocks) + 1
    BY <1>6, <2>1, FS_AddElement
  <2>3. FreeBlocks \cup {b} \subseteq DataBlocks
    BY <1>6 DEF FreeBlocks
  <2>4. Cardinality(FreeBlocks \cup {b}) <= total_blocks - 1
    BY <1>2, <2>3, BlocksFinite, FS_Subset
  <2> QED BY <1>1, <1>2, <1>10, <2>1, <2>2, <2>4, BlocksFinite DEF FreePagesCounted
<1>12. SwapTypeOK'
  <2>1. holes' \in BOOLEAN
    BY <1>1, Zenon
  <2>2. latest' \in [SwapAddresses -> SwapVersions \cup {0}]
    BY <1>1, <1>4
  <2> QED BY <1>1, <1>2, <1>8, <1>11, <2>1, <2>2 DEF SwapTypeOK, SwapEntry, DataBlocks
<1>13. NoForeignPage'
  BY <1>1, <1>5, <1>8, <1>9 DEF SwapInv, NoForeignPage
<1>14. SpinsOnLargeDevices' /\ TableIntact'
  BY <1>1 DEF SwapInv, SpinsOnLargeDevices, TableIntact
<1> QED BY <1>11, <1>12, <1>13, <1>14 DEF SwapInv

LEMMA SwapStep == SwapInv /\ [SwapNext]_swapVars => SwapInv'
<1> SUFFICES ASSUME SwapInv, [SwapNext]_swapVars PROVE SwapInv'
  OBVIOUS
<1>1. CASE wm2ud_format
  BY <1>1, FormatInv
<1>2. CASE wm2ud_unmount
  BY <1>2, UnmountInv
<1>3. CASE SecondPasses
  BY <1>3, SecondPassesInv
<1>4. ASSUME NEW a \in SwapAddresses, NEW v \in SwapVersions, wm2ud_write_page(a, v)
      PROVE  SwapInv'
  BY <1>4, RewriteInv, NewEntryInv, EvictInv DEF wm2ud_write_page
<1>5. ASSUME NEW a \in SwapAddresses, wm2ud_read_page(a) PROVE SwapInv'
  BY <1>5, ReadInv
<1>6. ASSUME NEW a \in SwapAddresses, wm2ud_free_page(a) PROVE SwapInv'
  BY <1>6, FreeInv
<1>7. ASSUME NEW a \in SwapAddresses, ProbeForever(a) PROVE SwapInv'
  BY <1>7, ProbeForeverInv
<1>8. CASE UNCHANGED swapVars
  <2>1. SwapTypeOK'
    BY <1>8 DEF SwapInv, swapVars, SwapTypeOK, DataBlocks
  <2>2. NoForeignPage' /\ FreePagesCounted' /\ SpinsOnLargeDevices'
    BY <1>8 DEF SwapInv, swapVars, NoForeignPage, Used, FreePagesCounted, FreeBlocks, DataBlocks,
       SpinsOnLargeDevices
  <2>3. TableIntact'
    BY <1>8, SameTableIntact DEF SwapInv, swapVars
  <2> QED BY <2>1, <2>2, <2>3 DEF SwapInv
<1> QED BY <1>1, <1>2, <1>3, <1>4, <1>5, <1>6, <1>7, <1>8 DEF SwapNext

LEMMA SwapInvSuffices == SwapInv => SwapCorrect
<1> SUFFICES ASSUME SwapInv PROVE ReadsLatestWithoutHoles
  BY DEF SwapInv, SwapCorrect
<1> QED BY IntactFinds DEF SwapInv, ReadsLatestWithoutHoles

\* The swap of WM2UD never confuses, loses (without a hole), miscounts or
\* searches for ever (without a full table) a page: wm2ud_write_page,
\* wm2ud_read_page, wm2ud_free_page and the eviction keep the table, the count
\* of free pages and the contents of the blocks together, for every size of
\* the device and of the table.
THEOREM SwapStaysCorrect == SwapSpec => []SwapCorrect
<1>1. SwapInv /\ [SwapNext]_swapVars => SwapInv'
  BY SwapStep
<1> QED BY SwapInitInv, SwapInvSuffices, <1>1, PTL DEF SwapSpec

----------------------------------------------------------------------------
(***************************************************************************)
(* NEFS.  A pointer to a block stands at one place: in an inode, or as a   *)
(* word of a block of pointers.  Allocating sets one pointer that was 0 to *)
(* a block nothing points to, or to NoBlock when there is none (PointerSet *)
(* and its uses, up to BlockFound); so no two blocks of files are found    *)
(* through one place (OneSpot), writing one leaves the others alone        *)
(* (OneBlockKept), and a full device gains no pointer (Extends).           *)
(***************************************************************************)
Device == 1 .. data_blocks

InodeType == [size : Nat, direct : [0 .. NDirect - 1 -> Pointers], indirect : Pointers, double : Pointers]

NefsState == [inode : [Inodes -> InodeType], used : SUBSET Device, free_blocks : Int,
              ptrs : [Device -> [Words -> Pointers]], data : [Device -> Nat]]

\* The pointer at place p.
AtIn(fs, p) == CASE p[1] = "direct" -> fs.inode[p[2]].direct[p[3]]
                 [] p[1] = "indirect" -> fs.inode[p[2]].indirect
                 [] p[1] = "double" -> fs.inode[p[2]].double
                 [] p[1] = "block" -> fs.ptrs[p[2]][p[3]]

\* No block is pointed to from two places, what is pointed to is used, and what
\* is not pointed to any more stays so; NoBlock stands somewhere only when
\* nothing is free.
Unshared(fs) == \A p, q \in Places : AtIn(fs, p) \in Device /\ AtIn(fs, p) = AtIn(fs, q) => p = q
UsedIsPointedTo(fs) ==
    /\ orphans \subseteq Device /\ \A p \in Places : AtIn(fs, p) \notin orphans
    /\ \A b \in Device : b \in fs.used <=> b \in orphans \/ \E p \in Places : AtIn(fs, p) = b
NoBlockWhenFull(fs) == \A p \in Places : AtIn(fs, p) = NoBlock => Free(fs) = {}

FsOK(fs) == /\ fs \in NefsState /\ fs.free_blocks = Cardinality(Free(fs))
            /\ Unshared(fs) /\ UsedIsPointedTo(fs) /\ NoBlockWhenFull(fs)

\* What allocating changes: pointers that were 0, and to blocks that were free.
Extends(fs, gs) ==
    /\ \A p \in Places : AtIn(fs, p) # 0 => AtIn(gs, p) = AtIn(fs, p)
    /\ fs.used \subseteq gs.used
    /\ Free(fs) = {} => \A p \in Places : AtIn(gs, p) \in Device => AtIn(fs, p) = AtIn(gs, p)
    /\ gs.data = fs.data
    /\ \A i \in Inodes : gs.inode[i].size = fs.inode[i].size

LEMMA PlaceForms ==
  /\ \A i \in Inodes, k \in 0 .. NDirect - 1 : <<"direct", i, k>> \in Places
  /\ \A i \in Inodes : <<"indirect", i, 0>> \in Places /\ <<"double", i, 0>> \in Places
  /\ \A b \in Device, w \in Words : <<"block", b, w>> \in Places
  /\ \A p \in Places : \/ \E i \in Inodes, k \in 0 .. NDirect - 1 : p = <<"direct", i, k>>
                       \/ \E i \in Inodes : p = <<"indirect", i, 0>> \/ p = <<"double", i, 0>>
                       \/ \E b \in Device, w \in Words : p = <<"block", b, w>>
BY DEF Places, Device

LEMMA AtForms == \A fs :
  /\ \A i \in Inodes, k \in 0 .. NDirect - 1 : AtIn(fs, <<"direct", i, k>>) = fs.inode[i].direct[k]
  /\ \A i \in Inodes : AtIn(fs, <<"indirect", i, 0>>) = fs.inode[i].indirect
  /\ \A i \in Inodes : AtIn(fs, <<"double", i, 0>>) = fs.inode[i].double
  /\ \A b \in Device, w \in Words : AtIn(fs, <<"block", b, w>>) = fs.ptrs[b][w]
BY DEF AtIn

LEMMA AtTyped ==
  ASSUME NEW fs \in NefsState, NEW p \in Places
  PROVE  AtIn(fs, p) \in Pointers
<1>1. ASSUME NEW i \in Inodes, NEW k \in 0 .. NDirect - 1, p = <<"direct", i, k>> PROVE AtIn(fs, p) \in Pointers
  <2>1. fs.inode[i] \in InodeType
    BY DEF NefsState
  <2>2. fs.inode[i].direct \in [0 .. NDirect - 1 -> Pointers]
    BY <2>1 DEF InodeType
  <2>3. fs.inode[i].direct[k] \in Pointers
    BY <2>2
  <2> QED BY <1>1, <2>3, AtForms
<1>2. ASSUME NEW i \in Inodes, p = <<"indirect", i, 0>> \/ p = <<"double", i, 0>> PROVE AtIn(fs, p) \in Pointers
  BY <1>2, AtForms DEF NefsState, InodeType
<1>3. ASSUME NEW b \in Device, NEW w \in Words, p = <<"block", b, w>> PROVE AtIn(fs, p) \in Pointers
  BY <1>3, AtForms DEF NefsState
<1> QED BY <1>1, <1>2, <1>3, PlaceForms

LEMMA PointersAre == Pointers = {0, NoBlock} \cup Device /\ 0 \notin Device /\ NoBlock \notin Device /\ NoBlock # 0
BY DEF Pointers, Device, NoBlock

\* A free block, or NoBlock if there is none, is written where there was no pointer.
LEMMA PointerSet ==
  ASSUME NEW fs, FsOK(fs), NEW p \in Places, AtIn(fs, p) = 0, NEW gs \in NefsState, NEW b, data_blocks \in Nat,
         \/ b = NoBlock /\ Free(fs) = {} /\ gs.used = fs.used /\ gs.free_blocks = fs.free_blocks
         \/ b \in Free(fs) /\ gs.used = fs.used \cup {b} /\ gs.free_blocks = fs.free_blocks - 1,
         \A q \in Places : AtIn(gs, q) = IF q = p THEN b ELSE AtIn(fs, q),
         gs.data = fs.data, \A j \in Inodes : gs.inode[j].size = fs.inode[j].size
  PROVE  FsOK(gs) /\ Extends(fs, gs)
<1>1. fs \in NefsState /\ fs.used \subseteq Device /\ Free(fs) = Device \ fs.used /\ Free(gs) = Device \ gs.used
  BY DEF FsOK, NefsState, Free, Device
<1>2. b \in Free(fs) => b \in Device /\ b \notin orphans /\ \A q \in Places : AtIn(fs, q) # b
  BY <1>1 DEF FsOK, UsedIsPointedTo
<1>3. gs.free_blocks = Cardinality(Free(gs))
  <2>1. CASE b = NoBlock /\ gs.used = fs.used /\ gs.free_blocks = fs.free_blocks
    BY <1>1, <2>1 DEF FsOK
  <2>2. CASE b \in Free(fs) /\ gs.used = fs.used \cup {b} /\ gs.free_blocks = fs.free_blocks - 1
    <3>1. IsFiniteSet(Device)
      BY FS_Interval DEF Device
    <3>2. IsFiniteSet(Free(fs))
      BY <1>1, <3>1, FS_Subset
    <3>3. Cardinality(Free(fs) \ {b}) = Cardinality(Free(fs)) - 1
      BY <2>2, <3>2, FS_RemoveElement
    <3>4. Free(gs) = Free(fs) \ {b}
      BY <1>1, <2>2
    <3> QED BY <2>2, <3>3, <3>4 DEF FsOK
  <2> QED BY <2>1, <2>2
<1>4. Unshared(gs)
  <2> SUFFICES ASSUME NEW q \in Places, NEW r \in Places, AtIn(gs, q) \in Device, AtIn(gs, q) = AtIn(gs, r)
               PROVE  q = r
    BY DEF Unshared
  <2>1. CASE b = NoBlock
    BY <2>1, PointersAre DEF FsOK, Unshared
  <2>2. CASE b \in Free(fs)
    BY <1>2, <2>2 DEF FsOK, Unshared
  <2> QED BY <2>1, <2>2
<1>5. UsedIsPointedTo(gs)
  <2>0. orphans \subseteq Device /\ \A q \in Places : AtIn(gs, q) \notin orphans
    BY <1>2, PointersAre DEF FsOK, UsedIsPointedTo
  <2> SUFFICES ASSUME NEW c \in Device
               PROVE  c \in gs.used <=> c \in orphans \/ \E q \in Places : AtIn(gs, q) = c
    BY <2>0 DEF UsedIsPointedTo
  <2>1. c \in fs.used <=> c \in orphans \/ \E q \in Places : AtIn(fs, q) = c
    BY DEF FsOK, UsedIsPointedTo
  <2>2. AtIn(gs, p) = b
    OBVIOUS
  <2>3. CASE b = NoBlock /\ gs.used = fs.used
    BY <2>1, <2>3, PointersAre
  <2>4. CASE b \in Free(fs) /\ gs.used = fs.used \cup {b}
    BY <1>2, <2>1, <2>2, <2>4, PointersAre
  <2> QED BY <2>3, <2>4
<1>6. NoBlockWhenFull(gs)
  <2> SUFFICES ASSUME NEW q \in Places, AtIn(gs, q) = NoBlock PROVE Free(gs) = {}
    BY DEF NoBlockWhenFull
  <2>1. CASE q = p
    BY <1>1, <1>2, <2>1, PointersAre
  <2>2. CASE q # p
    BY <1>1, <2>2 DEF FsOK, NoBlockWhenFull
  <2> QED BY <2>1, <2>2
<1>7. Extends(fs, gs)
  BY <1>1, PointersAre DEF Extends
<1> QED BY <1>3, <1>4, <1>5, <1>6, <1>7 DEF FsOK

LEMMA ExtendsChain ==
  ASSUME NEW fs \in NefsState, NEW gs \in NefsState, NEW hs \in NefsState, Extends(fs, gs), Extends(gs, hs)
  PROVE  Extends(fs, hs)
<1>1. Free(fs) = {} => Free(gs) = {}
  BY DEF Extends, Free, NefsState, Device
<1> QED BY <1>1, PointersAre DEF Extends

LEMMA ExtendsSelf == \A fs : Extends(fs, fs)
BY DEF Extends

LEMMA AllocBlock ==
  ASSUME NEW fs, FsOK(fs), NEW r, r = nefs_alloc_block(fs)
  PROVE  /\ r.fs \in NefsState /\ r.blk \in Pointers \ {0}
         /\ r.fs.inode = fs.inode /\ r.fs.ptrs = fs.ptrs /\ r.fs.data = fs.data
         /\ \/ r.blk = NoBlock /\ Free(fs) = {} /\ r.fs = fs
            \/ r.blk \in Free(fs) /\ r.fs.used = fs.used \cup {r.blk} /\ r.fs.free_blocks = fs.free_blocks - 1
<1>1. fs \in NefsState
  BY DEF FsOK
<1>2. CASE Free(fs) = {}
  BY <1>1, <1>2, PointersAre DEF nefs_alloc_block
<1>3. CASE Free(fs) # {}
  <2>1. Free(fs) \subseteq Nat /\ Free(fs) \subseteq Device
    BY DEF Free, Device
  <2>2. \E b \in Free(fs) : \A c \in Free(fs) : b <= c
    BY <1>3, <2>1, LeastNatural
  <2> DEFINE b == CHOOSE b \in Free(fs) : \A c \in Free(fs) : b <= c
  <2>3. b \in Free(fs)
    BY <2>2
  <2>4. r = [blk |-> b, fs |-> [fs EXCEPT !.used = @ \cup {b}, !.free_blocks = @ - 1]]
    BY <1>3 DEF nefs_alloc_block
  <2> HIDE DEF b
  <2>41. r.blk = b /\ r.fs = [fs EXCEPT !.used = @ \cup {b}, !.free_blocks = @ - 1]
    BY <2>4
  <2>5. /\ r.blk = b /\ r.fs.inode = fs.inode /\ r.fs.ptrs = fs.ptrs /\ r.fs.data = fs.data
        /\ r.fs.used = fs.used \cup {b} /\ r.fs.free_blocks = fs.free_blocks - 1
    BY <1>1, <2>41 DEF NefsState
  <2>6. fs.used \cup {b} \in SUBSET Device /\ fs.free_blocks - 1 \in Int /\ b \in Device
    BY <1>1, <2>1, <2>3 DEF NefsState
  <2>7. r.fs \in NefsState
    BY <1>1, <2>41, <2>6 DEF NefsState
  <2> QED BY <2>3, <2>5, <2>6, <2>7, PointersAre
<1> QED BY <1>2, <1>3

\* What finding or allocating a block r at place p promises.
FoundAt(fs, p, r) ==
    /\ FsOK(r.fs) /\ Extends(fs, r.fs)
    /\ r.blk \in Pointers \ {0} /\ AtIn(r.fs, p) = r.blk

LEMMA KnownFields == \A b, fs : Known(b, fs).blk = b /\ Known(b, fs).fs = fs
BY DEF Known

\* What nefs_alloc_block has done to fs when it answers with r.
Allocated(fs, r) ==
    /\ r.fs \in NefsState /\ r.blk \in Pointers \ {0}
    /\ r.fs.inode = fs.inode /\ r.fs.ptrs = fs.ptrs /\ r.fs.data = fs.data
    /\ \/ r.blk = NoBlock /\ Free(fs) = {} /\ r.fs = fs
       \/ r.blk \in Free(fs) /\ r.fs.used = fs.used \cup {r.blk} /\ r.fs.free_blocks = fs.free_blocks - 1

\* fs with inode i replaced by new: its pointer at p is what r allocated.
InodeSet(fs, gs, i, new, p, r) ==
    /\ gs \in NefsState /\ gs.inode = [fs.inode EXCEPT ![i] = new]
    /\ gs.used = r.fs.used /\ gs.free_blocks = r.fs.free_blocks /\ gs.ptrs = fs.ptrs /\ gs.data = fs.data
    /\ new \in InodeType /\ new.size = fs.inode[i].size
    /\ \A k \in 0 .. NDirect - 1 : new.direct[k] = IF p = <<"direct", i, k>> THEN r.blk ELSE fs.inode[i].direct[k]
    /\ new.indirect = IF p = <<"indirect", i, 0>> THEN r.blk ELSE fs.inode[i].indirect
    /\ new.double = IF p = <<"double", i, 0>> THEN r.blk ELSE fs.inode[i].double
    /\ p[1] # "block" /\ p[2] = i

LEMMA InodeSetFound ==
  ASSUME NEW fs, FsOK(fs), data_blocks \in Nat, NEW i \in Inodes, NEW p \in Places, AtIn(fs, p) = 0,
         NEW r, Allocated(fs, r), NEW new, NEW gs, InodeSet(fs, gs, i, new, p, r)
  PROVE  FoundAt(fs, p, Known(r.blk, gs))
<1>1. fs.inode \in [Inodes -> InodeType]
  BY DEF FsOK, NefsState
<1>2. gs.inode[i] = new /\ \A j \in Inodes \ {i} : gs.inode[j] = fs.inode[j]
  BY <1>1 DEF InodeSet
<1>0. gs.ptrs = fs.ptrs /\ p[1] # "block" /\ p[2] = i
  BY DEF InodeSet
<1>3. ASSUME NEW q \in Places PROVE AtIn(gs, q) = IF q = p THEN r.blk ELSE AtIn(fs, q)
  <2> DEFINE Goal == AtIn(gs, q) = IF q = p THEN r.blk ELSE AtIn(fs, q)
  <2>1. ASSUME NEW j \in Inodes, NEW k \in 0 .. NDirect - 1, q = <<"direct", j, k>> PROVE Goal
    <3>1. AtIn(gs, q) = gs.inode[j].direct[k] /\ AtIn(fs, q) = fs.inode[j].direct[k]
      BY <2>1, AtForms
    <3>2. CASE j = i
      BY <1>2, <2>1, <3>1, <3>2 DEF InodeSet
    <3>3. CASE j # i
      <4>1. q # p
        BY <1>0, <2>1, <3>3
      <4> QED BY <1>2, <3>1, <3>3, <4>1
    <3> QED BY <3>2, <3>3
  <2>2. ASSUME NEW j \in Inodes, q = <<"indirect", j, 0>> PROVE Goal
    <3>1. AtIn(gs, q) = gs.inode[j].indirect /\ AtIn(fs, q) = fs.inode[j].indirect
      BY <2>2, AtForms
    <3>2. CASE j = i
      BY <1>2, <2>2, <3>1, <3>2 DEF InodeSet
    <3>3. CASE j # i
      <4>1. q # p
        BY <1>0, <2>2, <3>3
      <4> QED BY <1>2, <3>1, <3>3, <4>1
    <3> QED BY <3>2, <3>3
  <2>3. ASSUME NEW j \in Inodes, q = <<"double", j, 0>> PROVE Goal
    <3>1. AtIn(gs, q) = gs.inode[j].double /\ AtIn(fs, q) = fs.inode[j].double
      BY <2>3, AtForms
    <3>2. CASE j = i
      BY <1>2, <2>3, <3>1, <3>2 DEF InodeSet
    <3>3. CASE j # i
      <4>1. q # p
        BY <1>0, <2>3, <3>3
      <4> QED BY <1>2, <3>1, <3>3, <4>1
    <3> QED BY <3>2, <3>3
  <2>4. ASSUME NEW b \in Device, NEW w \in Words, q = <<"block", b, w>> PROVE Goal
    <3>1. AtIn(gs, q) = gs.ptrs[b][w] /\ AtIn(fs, q) = fs.ptrs[b][w]
      BY <2>4, AtForms
    <3>2. q # p
      BY <1>0, <2>4
    <3> QED BY <1>0, <3>1, <3>2
  <2> HIDE DEF Goal
  <2>5. Goal
    BY <2>1, <2>2, <2>3, <2>4, PlaceForms
  <2> QED BY <2>5 DEF Goal
<1>4. \A j \in Inodes : gs.inode[j].size = fs.inode[j].size
  BY <1>2 DEF InodeSet
<1>5. FsOK(gs) /\ Extends(fs, gs)
  <2>1. gs \in NefsState /\ gs.used = r.fs.used /\ gs.free_blocks = r.fs.free_blocks /\ gs.data = fs.data
    BY DEF InodeSet
  <2>2. \/ r.blk = NoBlock /\ Free(fs) = {} /\ gs.used = fs.used /\ gs.free_blocks = fs.free_blocks
        \/ r.blk \in Free(fs) /\ gs.used = fs.used \cup {r.blk} /\ gs.free_blocks = fs.free_blocks - 1
    BY <2>1 DEF Allocated
  <2> QED BY <1>3, <1>4, <2>1, <2>2, PointerSet
<1>6. AtIn(gs, p) = r.blk
  BY <1>3
<1> QED BY <1>5, <1>6, KnownFields DEF FoundAt, Allocated

LEMMA DirectFound ==
  ASSUME NEW fs, FsOK(fs), data_blocks \in Nat, NEW i \in Inodes, NEW k \in 0 .. NDirect - 1
  PROVE  FoundAt(fs, <<"direct", i, k>>, DirectPtr(fs, i, k, TRUE))
<1> DEFINE p == <<"direct", i, k>>
<1>1. fs \in NefsState /\ p \in Places /\ AtIn(fs, p) = fs.inode[i].direct[k]
  BY PlaceForms, AtForms DEF FsOK
<1>2. CASE fs.inode[i].direct[k] # 0
  BY <1>1, <1>2, AtTyped, ExtendsSelf DEF DirectPtr, Known, FoundAt
<1>3. CASE fs.inode[i].direct[k] = 0
  <2> DEFINE r == nefs_alloc_block(fs)
             gs == [r.fs EXCEPT !.inode[i].direct[k] = r.blk]
             new == [fs.inode[i] EXCEPT !.direct = [@ EXCEPT ![k] = r.blk]]
  <2>1. DirectPtr(fs, i, k, TRUE) = Known(r.blk, gs)
    BY <1>3 DEF DirectPtr
  <2>2. Allocated(fs, r)
    BY AllocBlock DEF Allocated
  <2> HIDE DEF r
  <2>3. fs.inode \in [Inodes -> InodeType] /\ fs.inode[i] \in InodeType
    BY <1>1 DEF NefsState
  <2>4. fs.inode[i].direct \in [0 .. NDirect - 1 -> Pointers]
    BY <2>3 DEF InodeType
  <2>5. new \in InodeType /\ new.size = fs.inode[i].size
    BY <2>2, <2>3, <2>4 DEF InodeType, Allocated
  <2>6. /\ gs.inode = [fs.inode EXCEPT ![i] = new]
        /\ gs.used = r.fs.used /\ gs.free_blocks = r.fs.free_blocks
        /\ gs.ptrs = fs.ptrs /\ gs.data = fs.data
    BY <2>2, <2>3 DEF NefsState, Allocated
  <2>7. gs \in NefsState
    BY <2>2, <2>3, <2>5, <2>6 DEF NefsState, Allocated
  <2>8. /\ new.indirect = fs.inode[i].indirect /\ new.double = fs.inode[i].double
        /\ \A m \in 0 .. NDirect - 1 : new.direct[m] = IF m = k THEN r.blk ELSE fs.inode[i].direct[m]
    BY <2>3, <2>4 DEF InodeType
  <2> HIDE DEF gs, new
  <2>9. /\ \A m \in 0 .. NDirect - 1 : new.direct[m] = IF p = <<"direct", i, m>> THEN r.blk ELSE fs.inode[i].direct[m]
        /\ p # <<"indirect", i, 0>> /\ p # <<"double", i, 0>> /\ p[1] # "block" /\ p[2] = i
    BY <2>8
  <2> HIDE DEF p
  <2>10. FoundAt(fs, p, Known(r.blk, gs))
    BY <1>1, <1>3, <2>2, <2>5, <2>6, <2>7, <2>8, <2>9, InodeSetFound DEF InodeSet
  <2> QED BY <2>1, <2>10 DEF p
<1> QED BY <1>2, <1>3

LEMMA IndirectFound ==
  ASSUME NEW fs, FsOK(fs), data_blocks \in Nat, NEW i \in Inodes, NEW field \in {"indirect", "double"}
  PROVE  FoundAt(fs, <<field, i, 0>>, InodePtr(fs, i, field, TRUE))
<1> DEFINE p == <<field, i, 0>>
<1>1. fs \in NefsState /\ p \in Places /\ AtIn(fs, p) = fs.inode[i][field]
  <2>1. CASE field = "indirect"
    BY <2>1, PlaceForms, AtForms DEF FsOK
  <2>2. CASE field = "double"
    BY <2>2, PlaceForms, AtForms DEF FsOK
  <2> QED BY <2>1, <2>2
<1>2. CASE fs.inode[i][field] # 0
  BY <1>1, <1>2, AtTyped, ExtendsSelf DEF InodePtr, Known, FoundAt
<1>3. CASE fs.inode[i][field] = 0
  <2> DEFINE r == nefs_alloc_block(fs)
             gs == [r.fs EXCEPT !.inode[i][field] = r.blk]
             new == [fs.inode[i] EXCEPT ![field] = r.blk]
  <2>1. InodePtr(fs, i, field, TRUE) = Known(r.blk, gs)
    BY <1>3 DEF InodePtr
  <2>2. Allocated(fs, r)
    BY AllocBlock DEF Allocated
  <2> HIDE DEF r
  <2>3. fs.inode \in [Inodes -> InodeType] /\ fs.inode[i] \in InodeType
    BY <1>1 DEF NefsState
  <2>5. new \in InodeType /\ new.size = fs.inode[i].size
    BY <2>2, <2>3 DEF InodeType, Allocated
  <2>6. /\ gs.inode = [fs.inode EXCEPT ![i] = new]
        /\ gs.used = r.fs.used /\ gs.free_blocks = r.fs.free_blocks
        /\ gs.ptrs = fs.ptrs /\ gs.data = fs.data
    BY <2>2, <2>3 DEF NefsState, Allocated
  <2>7. gs \in NefsState
    BY <2>2, <2>3, <2>5, <2>6 DEF NefsState, Allocated
  <2>8. /\ new.indirect = IF field = "indirect" THEN r.blk ELSE fs.inode[i].indirect
        /\ new.double = IF field = "double" THEN r.blk ELSE fs.inode[i].double
        /\ new.direct = fs.inode[i].direct
    BY <2>3 DEF InodeType
  <2> HIDE DEF gs, new
  <2>9. /\ \A m \in 0 .. NDirect - 1 : p # <<"direct", i, m>>
        /\ p = <<"indirect", i, 0>> <=> field = "indirect"
        /\ p = <<"double", i, 0>> <=> field = "double"
        /\ p[1] # "block" /\ p[2] = i
    OBVIOUS
  <2> HIDE DEF p
  <2>10. FoundAt(fs, p, Known(r.blk, gs))
    BY <1>1, <1>3, <2>2, <2>5, <2>6, <2>7, <2>8, <2>9, InodeSetFound DEF InodeSet
  <2> QED BY <2>1, <2>10 DEF p
<1> QED BY <1>2, <1>3

LEMMA EntryFound ==
  ASSUME NEW fs, FsOK(fs), data_blocks \in Nat, NEW b \in Device, NEW w \in Words
  PROVE  FoundAt(fs, <<"block", b, w>>, Through(b, fs, w, TRUE))
<1> DEFINE p == <<"block", b, w>>
<1>1. fs \in NefsState /\ p \in Places /\ AtIn(fs, p) = fs.ptrs[b][w] /\ PtrEntry(fs, b, w) = fs.ptrs[b][w]
  BY PlaceForms, AtForms DEF FsOK, PtrEntry, Device
<1>2. CASE fs.ptrs[b][w] # 0
  BY <1>1, <1>2, AtTyped, ExtendsSelf DEF Through, Known, FoundAt
<1>3. CASE fs.ptrs[b][w] = 0
  <2> DEFINE r == nefs_alloc_block(fs)
             gs == [r.fs EXCEPT !.ptrs[b][w] = r.blk]
  <2>1. Through(b, fs, w, TRUE) = Known(r.blk, gs)
    BY <1>1, <1>3 DEF Through, SetPtrEntry, Device
  <2>2. Allocated(fs, r)
    BY AllocBlock DEF Allocated
  <2> HIDE DEF r
  <2>3. fs.ptrs \in [Device -> [Words -> Pointers]] /\ fs.ptrs[b] \in [Words -> Pointers]
    BY <1>1 DEF NefsState
  <2>4. /\ gs.ptrs = [fs.ptrs EXCEPT ![b] = [fs.ptrs[b] EXCEPT ![w] = r.blk]]
        /\ gs.inode = fs.inode /\ gs.used = r.fs.used /\ gs.free_blocks = r.fs.free_blocks /\ gs.data = fs.data
    BY <2>2, <2>3 DEF NefsState, Allocated
  <2>5. [fs.ptrs[b] EXCEPT ![w] = r.blk] \in [Words -> Pointers]
    BY <2>2, <2>3 DEF Allocated
  <2>6. gs \in NefsState
    BY <2>2, <2>3, <2>4, <2>5 DEF NefsState, Allocated
  <2>7. \A c \in Device, v \in Words : gs.ptrs[c][v] = IF c = b /\ v = w THEN r.blk ELSE fs.ptrs[c][v]
    BY <2>3, <2>4
  <2> HIDE DEF gs
  <2>8. ASSUME NEW q \in Places PROVE AtIn(gs, q) = IF q = p THEN r.blk ELSE AtIn(fs, q)
    <3> DEFINE Goal == AtIn(gs, q) = IF q = p THEN r.blk ELSE AtIn(fs, q)
    <3>1. ASSUME NEW j \in Inodes, NEW k \in 0 .. NDirect - 1, q = <<"direct", j, k>> PROVE Goal
      BY <2>4, <3>1, AtForms
    <3>2. ASSUME NEW j \in Inodes, q = <<"indirect", j, 0>> \/ q = <<"double", j, 0>> PROVE Goal
      BY <2>4, <3>2, AtForms
    <3>3. ASSUME NEW c \in Device, NEW v \in Words, q = <<"block", c, v>> PROVE Goal
      BY <2>7, <3>3, AtForms
    <3> HIDE DEF Goal
    <3>4. Goal
      BY <3>1, <3>2, <3>3, PlaceForms
    <3> QED BY <3>4 DEF Goal
  <2>9. AtIn(gs, p) = r.blk
    BY <1>1, <2>8
  <2>10. FsOK(gs) /\ Extends(fs, gs)
    <3>1. \A j \in Inodes : gs.inode[j].size = fs.inode[j].size
      BY <2>4
    <3>2. \/ r.blk = NoBlock /\ Free(fs) = {} /\ gs.used = fs.used /\ gs.free_blocks = fs.free_blocks
          \/ r.blk \in Free(fs) /\ gs.used = fs.used \cup {r.blk} /\ gs.free_blocks = fs.free_blocks - 1
      BY <2>2, <2>4 DEF Allocated
    <3> HIDE DEF p
    <3>3. AtIn(fs, p) = 0 /\ p \in Places /\ gs.data = fs.data
      BY <1>1, <1>3, <2>4
    <3> QED BY <2>6, <2>8, <3>1, <3>2, <3>3, PointerSet
  <2>11. r.blk \in Pointers \ {0}
    BY <2>2 DEF Allocated
  <2> HIDE DEF p
  <2>12. FoundAt(fs, p, Known(r.blk, gs))
    BY <2>9, <2>10, <2>11, KnownFields DEF FoundAt
  <2> QED BY <2>1, <2>12 DEF p
<1> QED BY <1>2, <1>3

LEMMA FoundFull ==
  ASSUME NEW fs, NEW p \in Places, NEW r, FoundAt(fs, p, r), r.blk \notin Device
  PROVE  r.blk = NoBlock /\ Free(r.fs) = {}
BY PointersAre DEF FoundAt, FsOK, NoBlockWhenFull

\* Below a block of pointers that could not be allocated there is nothing to allocate.
LEMMA NothingBelowNoBlock ==
  ASSUME NEW fs, Free(fs) = {}, NEW w \in Words
  PROVE  /\ Through(NoBlock, fs, w, TRUE).blk = NoBlock /\ Through(NoBlock, fs, w, TRUE).fs = fs
         /\ PtrEntry(fs, NoBlock, w) = 0
<1>1. NoBlock \notin 1..data_blocks
  BY PointersAre DEF Device
<1>2. PtrEntry(fs, NoBlock, w) = 0
  BY <1>1 DEF PtrEntry
<1>3. nefs_alloc_block(fs) = [blk |-> NoBlock, fs |-> fs]
  BY DEF nefs_alloc_block
<1>4. Through(NoBlock, fs, w, TRUE) = Known(NoBlock, fs)
  BY <1>1, <1>2, <1>3 DEF Through, SetPtrEntry
<1> QED BY <1>2, <1>4, KnownFields

\* The three levels of a file's blocks.
Direct(k) == k \in 0 .. NDirect - 1
Single(k) == k - NDirect \in Words
Word1(k) == (k - NDirect - PtrsPerBlock) \div PtrsPerBlock
Word2(k) == (k - NDirect - PtrsPerBlock) % PtrsPerBlock
Double(k) == k - NDirect - PtrsPerBlock \in 0 .. PtrsPerBlock * PtrsPerBlock - 1

\* The block of the file that a reader finds.
Lookup(fs, i, k) ==
    IF Direct(k) THEN fs.inode[i].direct[k]
    ELSE IF Single(k) THEN PtrEntry(fs, fs.inode[i].indirect, k - NDirect)
    ELSE IF Double(k) THEN PtrEntry(fs, PtrEntry(fs, fs.inode[i].double, Word1(k)), Word2(k))
    ELSE 0

LEMMA Levels ==
  ASSUME NEW k \in Nat
  PROVE  /\ k \in FileBlocks <=> Direct(k) \/ Single(k) \/ Double(k)
         /\ Double(k) => Word1(k) \in Words /\ Word2(k) \in Words
<1>1. NDirect \in Nat /\ PtrsPerBlock \in Nat \ {0} /\ PtrsPerBlock * PtrsPerBlock \in Nat
  BY NefsAssumption
<1>2. k \in FileBlocks <=> Direct(k) \/ Single(k) \/ Double(k)
  BY <1>1 DEF FileBlocks, Direct, Single, Double, Words
<1>3. ASSUME Double(k) PROVE Word1(k) \in Words /\ Word2(k) \in Words
  <2> DEFINE n == k - NDirect - PtrsPerBlock
  <2>1. n \in Nat /\ n < PtrsPerBlock * PtrsPerBlock
    BY <1>1, <1>3 DEF Double
  <2> HIDE DEF n
  <2>2. n \div PtrsPerBlock \in 0 .. PtrsPerBlock - 1 /\ n % PtrsPerBlock \in 0 .. PtrsPerBlock - 1
    BY <1>1, <2>1
  <2> QED BY <2>2 DEF n, Word1, Word2, Words
<1> QED BY <1>2, <1>3

LEMMA OneDouble ==
  ASSUME NEW k \in Nat, NEW m \in Nat, Double(k), Double(m), Word1(k) = Word1(m), Word2(k) = Word2(m)
  PROVE  k = m
<1> DEFINE n == k - NDirect - PtrsPerBlock
           l == m - NDirect - PtrsPerBlock
<1>1. NDirect \in Nat /\ PtrsPerBlock \in Nat \ {0} /\ n \in Nat /\ l \in Nat
  BY NefsAssumption DEF Double
<1>2. n \div PtrsPerBlock = l \div PtrsPerBlock /\ n % PtrsPerBlock = l % PtrsPerBlock
  BY DEF Word1, Word2
<1>3. n = l => k = m
  BY <1>1
<1> HIDE DEF n, l
<1> QED BY <1>1, <1>2, <1>3

LEMMA LookupIs ==
  ASSUME NEW fs, NEW i \in Inodes, NEW k \in Nat
  PROVE  /\ Direct(k) => Lookup(fs, i, k) = fs.inode[i].direct[k]
         /\ Single(k) => Lookup(fs, i, k) = PtrEntry(fs, fs.inode[i].indirect, k - NDirect)
         /\ Double(k) => Lookup(fs, i, k) = PtrEntry(fs, PtrEntry(fs, fs.inode[i].double, Word1(k)), Word2(k))
<1>1. NDirect \in Nat /\ PtrsPerBlock \in Nat \ {0}
  BY NefsAssumption
<1>2. (Single(k) => ~Direct(k)) /\ (Double(k) => ~Direct(k) /\ ~Single(k))
  BY <1>1 DEF Direct, Single, Double, Words
<1> QED BY <1>2 DEF Lookup

LEMMA ReaderFinds ==
  ASSUME NEW fs, NEW i \in Inodes, NEW k \in FileBlocks
  PROVE  get_block_at_offset(fs, i, k, FALSE).blk = Lookup(fs, i, k)
<1> DEFINE k1 == k - NDirect
           k2 == k1 - PtrsPerBlock
<1>0. k \in Nat
  BY NefsAssumption DEF FileBlocks
<1>1. NDirect \in Nat /\ PtrsPerBlock \in Nat \ {0} /\ PtrsPerBlock * PtrsPerBlock \in Nat
  BY NefsAssumption
<1>2. /\ Direct(k) => k1 < 0 /\ ~(k1 \in Words) /\ ~(k2 >= 0)
      /\ Single(k) => ~(k1 < 0) /\ k1 \in Words /\ ~(k2 >= 0)
      /\ Double(k) => ~(k1 < 0) /\ ~(k1 \in Words) /\ k2 >= 0 /\ k2 < PtrsPerBlock * PtrsPerBlock
  BY <1>0, <1>1 DEF Direct, Single, Double, Words
<1>3. CASE Direct(k)
  <2>1. get_block_at_offset(fs, i, k, FALSE) = DirectPtr(fs, i, k, FALSE)
    BY <1>2, <1>3 DEF get_block_at_offset
  <2>2. DirectPtr(fs, i, k, FALSE).blk = fs.inode[i].direct[k]
    BY KnownFields DEF DirectPtr
  <2> QED BY <1>0, <1>3, <2>1, <2>2, LookupIs
<1>4. CASE Single(k)
  <2>1. get_block_at_offset(fs, i, k, FALSE) = Below(InodePtr(fs, i, "indirect", FALSE), k1, FALSE)
    BY <1>2, <1>4 DEF get_block_at_offset
  <2>2. InodePtr(fs, i, "indirect", FALSE) = Known(fs.inode[i].indirect, fs)
    BY DEF InodePtr
  <2>3. Below(Known(fs.inode[i].indirect, fs), k1, FALSE).blk = PtrEntry(fs, fs.inode[i].indirect, k1)
    BY KnownFields DEF Below, Through
  <2> QED BY <1>0, <1>4, <2>1, <2>2, <2>3, LookupIs
<1>5. CASE Double(k)
  <2> DEFINE b == PtrEntry(fs, fs.inode[i].double, Word1(k))
  <2>1. get_block_at_offset(fs, i, k, FALSE)
          = Below(Below(InodePtr(fs, i, "double", FALSE), Word1(k), FALSE), Word2(k), FALSE)
    BY <1>2, <1>5 DEF get_block_at_offset, Word1, Word2
  <2>2. InodePtr(fs, i, "double", FALSE) = Known(fs.inode[i].double, fs)
    BY DEF InodePtr
  <2>3. Below(Known(fs.inode[i].double, fs), Word1(k), FALSE) = Known(b, fs)
    BY KnownFields DEF Below, Through
  <2>4. Below(Known(b, fs), Word2(k), FALSE).blk = PtrEntry(fs, b, Word2(k))
    BY KnownFields DEF Below, Through
  <2> QED BY <1>0, <1>5, <2>1, <2>2, <2>3, <2>4, LookupIs
<1> QED BY <1>0, <1>3, <1>4, <1>5, Levels

\* Where the pointer to block k of inode i stands.
Spot(fs, i, k, p) ==
    \/ Direct(k) /\ p = <<"direct", i, k>>
    \/ Single(k) /\ fs.inode[i].indirect \in Device /\ p = <<"block", fs.inode[i].indirect, k - NDirect>>
    \/ /\ Double(k) /\ fs.inode[i].double \in Device
       /\ fs.ptrs[fs.inode[i].double][Word1(k)] \in Device
       /\ p = <<"block", fs.ptrs[fs.inode[i].double][Word1(k)], Word2(k)>>

LEMMA EntryIs == \A fs, b, w : PtrEntry(fs, b, w) = IF b \in Device THEN fs.ptrs[b][w] ELSE 0
BY DEF PtrEntry, Device

LEMMA SpotFound ==
  ASSUME NEW fs \in NefsState, NEW i \in Inodes, NEW k \in FileBlocks, Lookup(fs, i, k) \in Device
  PROVE  \E p \in Places : Spot(fs, i, k, p) /\ AtIn(fs, p) = Lookup(fs, i, k)
<1>1. k \in Nat
  BY NefsAssumption DEF FileBlocks
<1>2. CASE Direct(k)
  <2>32. Lookup(fs, i, k) = fs.inode[i].direct[k]
    BY <1>1, <1>2, LookupIs
  <2>33. <<"direct", i, k>> \in Places /\ AtIn(fs, <<"direct", i, k>>) = fs.inode[i].direct[k]
    BY <1>2, PlaceForms, AtForms DEF Direct
  <2>1. <<"direct", i, k>> \in Places /\ AtIn(fs, <<"direct", i, k>>) = Lookup(fs, i, k)
    BY <2>32, <2>33
  <2> QED BY <1>2, <2>1 DEF Spot
<1>3. CASE Single(k)
  <2> DEFINE b == fs.inode[i].indirect
  <2>1. Lookup(fs, i, k) = PtrEntry(fs, b, k - NDirect)
    BY <1>1, <1>3, LookupIs
  <2>2. b \in Device /\ Lookup(fs, i, k) = fs.ptrs[b][k - NDirect]
    BY <2>1, EntryIs, PointersAre
  <2>3. <<"block", b, k - NDirect>> \in Places /\ AtIn(fs, <<"block", b, k - NDirect>>) = Lookup(fs, i, k)
    BY <1>3, <2>2, PlaceForms, AtForms DEF Single
  <2> QED BY <1>3, <2>2, <2>3 DEF Spot
<1>4. CASE Double(k)
  <2> DEFINE a == fs.inode[i].double
             b == PtrEntry(fs, a, Word1(k))
  <2>1. Lookup(fs, i, k) = PtrEntry(fs, b, Word2(k))
    BY <1>1, <1>4, LookupIs
  <2>2. b \in Device /\ Lookup(fs, i, k) = fs.ptrs[b][Word2(k)]
    BY <2>1, EntryIs, PointersAre
  <2>3. a \in Device /\ b = fs.ptrs[a][Word1(k)]
    BY <2>2, EntryIs, PointersAre
  <2>4. Word2(k) \in Words
    BY <1>1, <1>4, Levels
  <2>5. <<"block", b, Word2(k)>> \in Places /\ AtIn(fs, <<"block", b, Word2(k)>>) = Lookup(fs, i, k)
    BY <2>2, <2>4, PlaceForms, AtForms
  <2> QED BY <1>4, <2>2, <2>3, <2>5 DEF Spot
<1> QED BY <1>1, <1>2, <1>3, <1>4, Levels

LEMMA LookupTyped ==
  ASSUME NEW fs \in NefsState, NEW i \in Inodes, NEW k \in FileBlocks
  PROVE  Lookup(fs, i, k) \in Pointers
<1>1. k \in Nat
  BY NefsAssumption DEF FileBlocks
<1>2. \A b \in Pointers, w \in Words : PtrEntry(fs, b, w) \in Pointers
  BY EntryIs, PointersAre DEF NefsState
<1>3. fs.inode[i] \in InodeType
  BY DEF NefsState
<1>4. fs.inode[i].double \in Pointers /\ fs.inode[i].indirect \in Pointers
      /\ fs.inode[i].direct \in [0 .. NDirect - 1 -> Pointers]
  BY <1>3 DEF InodeType
<1>5. CASE Direct(k)
  <2>1. fs.inode[i].direct[k] \in Pointers
    BY <1>4, <1>5 DEF Direct
  <2> QED BY <1>1, <1>5, <2>1, LookupIs
<1>6. CASE Single(k)
  BY <1>1, <1>2, <1>4, <1>6, LookupIs DEF Single
<1>7. CASE Double(k)
  <2>1. Word1(k) \in Words /\ Word2(k) \in Words
    BY <1>1, <1>7, Levels
  <2>2. PtrEntry(fs, fs.inode[i].double, Word1(k)) \in Pointers
    BY <1>2, <1>4, <2>1
  <2>3. PtrEntry(fs, PtrEntry(fs, fs.inode[i].double, Word1(k)), Word2(k)) \in Pointers
    BY <1>2, <2>1, <2>2
  <2> QED BY <1>1, <1>7, <2>3, LookupIs
<1> QED BY <1>1, <1>5, <1>6, <1>7, Levels

\* Two blocks of files have no pointer in common.
LEMMA OneSpot ==
  ASSUME NEW fs, FsOK(fs), NEW i \in Inodes, NEW k \in FileBlocks, NEW j \in Inodes, NEW m \in FileBlocks,
         NEW p, Spot(fs, i, k, p), Spot(fs, j, m, p)
  PROVE  i = j /\ k = m
<1>1. k \in Nat /\ m \in Nat /\ NDirect \in Nat
  BY NefsAssumption DEF FileBlocks
<1>2. \A q, r \in Places : AtIn(fs, q) \in Device /\ AtIn(fs, q) = AtIn(fs, r) => q = r
  BY DEF FsOK, Unshared
<1> DEFINE ind(x) == <<"indirect", x, 0>>
           dbl(x) == <<"double", x, 0>>
           ent(x, l) == <<"block", fs.inode[x].double, Word1(l)>>
<1>3. \A x \in Inodes : /\ ind(x) \in Places /\ AtIn(fs, ind(x)) = fs.inode[x].indirect
                         /\ dbl(x) \in Places /\ AtIn(fs, dbl(x)) = fs.inode[x].double
  BY PlaceForms, AtForms
<1>4. ASSUME NEW x \in Inodes, NEW l \in Nat, Double(l), fs.inode[x].double \in Device
      PROVE  ent(x, l) \in Places /\ AtIn(fs, ent(x, l)) = fs.ptrs[fs.inode[x].double][Word1(l)]
  BY <1>4, Levels, PlaceForms, AtForms
<1>5. CASE Direct(k) /\ p = <<"direct", i, k>>
  BY <1>5 DEF Spot
<1>6. CASE Single(k) /\ fs.inode[i].indirect \in Device /\ p = <<"block", fs.inode[i].indirect, k - NDirect>>
  <2>1. CASE Single(m) /\ p = <<"block", fs.inode[j].indirect, m - NDirect>>
    <3>1. fs.inode[i].indirect = fs.inode[j].indirect /\ k - NDirect = m - NDirect
      BY <1>6, <2>1
    <3>2. ind(i) = ind(j)
      BY <1>2, <1>3, <1>6, <3>1
    <3> QED BY <1>1, <3>1, <3>2
  <2>2. CASE Double(m) /\ fs.inode[j].double \in Device /\ p = <<"block", fs.ptrs[fs.inode[j].double][Word1(m)], Word2(m)>>
    <3>1. fs.inode[i].indirect = fs.ptrs[fs.inode[j].double][Word1(m)]
      BY <1>6, <2>2
    <3>2. ent(j, m) \in Places /\ AtIn(fs, ent(j, m)) = fs.ptrs[fs.inode[j].double][Word1(m)]
      BY <1>1, <1>4, <2>2
    <3>3. ind(i) = ent(j, m)
      BY <1>2, <1>3, <1>6, <3>1, <3>2
    <3> QED BY <3>3
  <2> QED BY <1>6, <2>1, <2>2 DEF Spot
<1>7. CASE /\ Double(k) /\ fs.inode[i].double \in Device
           /\ fs.ptrs[fs.inode[i].double][Word1(k)] \in Device
           /\ p = <<"block", fs.ptrs[fs.inode[i].double][Word1(k)], Word2(k)>>
  <2>0. ent(i, k) \in Places /\ AtIn(fs, ent(i, k)) = fs.ptrs[fs.inode[i].double][Word1(k)]
    BY <1>1, <1>4, <1>7
  <2>1. CASE Single(m) /\ p = <<"block", fs.inode[j].indirect, m - NDirect>>
    <3>1. fs.inode[j].indirect = fs.ptrs[fs.inode[i].double][Word1(k)]
      BY <1>7, <2>1
    <3>2. ind(j) = ent(i, k)
      BY <1>2, <1>3, <1>7, <2>0, <3>1
    <3> QED BY <3>2
  <2>2. CASE Double(m) /\ fs.inode[j].double \in Device /\ p = <<"block", fs.ptrs[fs.inode[j].double][Word1(m)], Word2(m)>>
    <3>1. fs.ptrs[fs.inode[i].double][Word1(k)] = fs.ptrs[fs.inode[j].double][Word1(m)] /\ Word2(k) = Word2(m)
      BY <1>7, <2>2
    <3>2. ent(j, m) \in Places /\ AtIn(fs, ent(j, m)) = fs.ptrs[fs.inode[j].double][Word1(m)]
      BY <1>1, <1>4, <2>2
    <3>3. ent(i, k) = ent(j, m)
      BY <1>2, <1>7, <2>0, <3>1, <3>2
    <3>4. fs.inode[i].double = fs.inode[j].double /\ Word1(k) = Word1(m)
      BY <3>3
    <3>5. dbl(i) = dbl(j)
      BY <1>2, <1>3, <1>7, <3>4
    <3>6. k = m
      BY <1>1, <1>7, <2>2, <3>1, <3>4, OneDouble
    <3> QED BY <3>5, <3>6
  <2> QED BY <1>7, <2>1, <2>2 DEF Spot
<1> QED BY <1>5, <1>6, <1>7 DEF Spot

LEMMA OneReader ==
  ASSUME NEW fs, FsOK(fs), NEW i \in Inodes, NEW k \in FileBlocks, NEW j \in Inodes, NEW m \in FileBlocks,
         Lookup(fs, i, k) \in Device, Lookup(fs, i, k) = Lookup(fs, j, m)
  PROVE  i = j /\ k = m
<1>1. PICK p \in Places : Spot(fs, i, k, p) /\ AtIn(fs, p) = Lookup(fs, i, k)
  BY SpotFound DEF FsOK
<1>2. PICK q \in Places : Spot(fs, j, m, q) /\ AtIn(fs, q) = Lookup(fs, j, m)
  BY SpotFound DEF FsOK
<1>3. p = q
  BY <1>1, <1>2 DEF FsOK, Unshared
<1> QED BY <1>1, <1>2, <1>3, OneSpot

\* Allocating takes no block of a file away, and gives it none when none is free.
LEMMA LookupKept ==
  ASSUME NEW fs \in NefsState, NEW gs \in NefsState, Extends(fs, gs), NEW i \in Inodes, NEW k \in FileBlocks
  PROVE  /\ Lookup(fs, i, k) \in Device => Lookup(gs, i, k) = Lookup(fs, i, k)
         /\ Free(fs) = {} /\ Lookup(gs, i, k) \in Device => Lookup(fs, i, k) = Lookup(gs, i, k)
<1>1. k \in Nat
  BY NefsAssumption DEF FileBlocks
<1> DEFINE Same(x, y) == (x \in Device => y = x) /\ (Free(fs) = {} /\ y \in Device => x = y)
<1>2. \A p \in Places : Same(AtIn(fs, p), AtIn(gs, p))
  BY PointersAre DEF Extends
<1>3. \A b \in Device, w \in Words : Same(fs.ptrs[b][w], gs.ptrs[b][w])
  <2> SUFFICES ASSUME NEW b \in Device, NEW w \in Words PROVE Same(fs.ptrs[b][w], gs.ptrs[b][w])
    OBVIOUS
  <2>1. <<"block", b, w>> \in Places
    BY PlaceForms
  <2>2. AtIn(fs, <<"block", b, w>>) = fs.ptrs[b][w] /\ AtIn(gs, <<"block", b, w>>) = gs.ptrs[b][w]
    BY AtForms
  <2> QED BY <1>2, <2>1, <2>2
<1>4. ASSUME NEW b, NEW c, Same(b, c), NEW w \in Words PROVE Same(PtrEntry(fs, b, w), PtrEntry(gs, c, w))
  BY <1>3, <1>4, EntryIs, PointersAre
<1>5. Same(fs.inode[i].indirect, gs.inode[i].indirect) /\ Same(fs.inode[i].double, gs.inode[i].double)
  <2>1. <<"indirect", i, 0>> \in Places /\ <<"double", i, 0>> \in Places
    BY PlaceForms
  <2>2. /\ AtIn(fs, <<"indirect", i, 0>>) = fs.inode[i].indirect /\ AtIn(gs, <<"indirect", i, 0>>) = gs.inode[i].indirect
        /\ AtIn(fs, <<"double", i, 0>>) = fs.inode[i].double /\ AtIn(gs, <<"double", i, 0>>) = gs.inode[i].double
    BY AtForms
  <2> QED BY <1>2, <2>1, <2>2
<1>6. CASE Direct(k)
  <2>1. <<"direct", i, k>> \in Places
    BY <1>6, PlaceForms DEF Direct
  <2>2. AtIn(fs, <<"direct", i, k>>) = fs.inode[i].direct[k] /\ AtIn(gs, <<"direct", i, k>>) = gs.inode[i].direct[k]
    BY <1>6, AtForms DEF Direct
  <2>3. Same(fs.inode[i].direct[k], gs.inode[i].direct[k])
    BY <1>2, <2>1, <2>2
  <2> QED BY <1>1, <1>6, <2>3, LookupIs
<1>7. CASE Single(k)
  <2>1. Same(PtrEntry(fs, fs.inode[i].indirect, k - NDirect), PtrEntry(gs, gs.inode[i].indirect, k - NDirect))
    BY <1>4, <1>5, <1>7 DEF Single
  <2> QED BY <1>1, <1>7, <2>1, LookupIs
<1>8. CASE Double(k)
  <2>1. Word1(k) \in Words /\ Word2(k) \in Words
    BY <1>1, <1>8, Levels
  <2>2. Same(PtrEntry(fs, fs.inode[i].double, Word1(k)), PtrEntry(gs, gs.inode[i].double, Word1(k)))
    BY <1>4, <1>5, <2>1
  <2> DEFINE b == PtrEntry(fs, fs.inode[i].double, Word1(k))
             c == PtrEntry(gs, gs.inode[i].double, Word1(k))
  <2>3. Same(PtrEntry(fs, b, Word2(k)), PtrEntry(gs, c, Word2(k)))
    BY <1>4, <2>1, <2>2
  <2> QED BY <1>1, <1>8, <2>3, LookupIs
<1> QED BY <1>1, <1>6, <1>7, <1>8, Levels

\* A block that is there, or none on a full device.
Good(r) == FsOK(r.fs) /\ r.blk \in Pointers \ {0} /\ (r.blk \notin Device => Free(r.fs) = {})

LEMMA FoundGood ==
  ASSUME NEW fs, NEW p \in Places, NEW r, FoundAt(fs, p, r)
  PROVE  Good(r)
BY FoundFull DEF Good, FoundAt

LEMMA BelowGood ==
  ASSUME data_blocks \in Nat, NEW r, Good(r), NEW w \in Words, NEW n, n = Below(r, w, TRUE)
  PROVE  /\ Good(n) /\ Extends(r.fs, n.fs)
         /\ PtrEntry(n.fs, r.blk, w) \in Device \/ n.blk \in Device => PtrEntry(n.fs, r.blk, w) = n.blk
<1>1. n = Through(r.blk, r.fs, w, TRUE) /\ FsOK(r.fs)
  BY DEF Below, Good
<1>2. CASE r.blk \in Device
  <2>1. <<"block", r.blk, w>> \in Places
    BY <1>2, PlaceForms
  <2>2. FoundAt(r.fs, <<"block", r.blk, w>>, n)
    BY <1>1, <1>2, EntryFound
  <2>3. AtIn(n.fs, <<"block", r.blk, w>>) = PtrEntry(n.fs, r.blk, w)
    BY <1>2, AtForms, EntryIs
  <2>4. Good(n)
    BY <2>1, <2>2, FoundGood
  <2> QED BY <2>2, <2>3, <2>4 DEF FoundAt
<1>3. CASE r.blk \notin Device
  <2>1. r.blk = NoBlock /\ Free(r.fs) = {}
    BY <1>3, PointersAre DEF Good
  <2>32. n = Through(NoBlock, r.fs, w, TRUE)
    BY <1>1, <2>1
  <2>33. /\ Through(NoBlock, r.fs, w, TRUE).blk = NoBlock /\ Through(NoBlock, r.fs, w, TRUE).fs = r.fs
        /\ PtrEntry(r.fs, NoBlock, w) = 0
    BY <2>1, NothingBelowNoBlock
  <2>2. n.blk = NoBlock /\ n.fs = r.fs /\ PtrEntry(n.fs, r.blk, w) = 0
    BY <2>1, <2>32, <2>33
  <2> QED BY <1>1, <2>1, <2>2, PointersAre, ExtendsSelf DEF Good
<1> QED BY <1>2, <1>3

LEMMA PointerKept ==
  ASSUME NEW fs, NEW gs, Extends(fs, gs), NEW i \in Inodes
  PROVE  /\ fs.inode[i].indirect # 0 => gs.inode[i].indirect = fs.inode[i].indirect
         /\ fs.inode[i].double # 0 => gs.inode[i].double = fs.inode[i].double
<1>1. \A p \in Places : AtIn(fs, p) # 0 => AtIn(gs, p) = AtIn(fs, p)
  BY DEF Extends
<1>2. <<"indirect", i, 0>> \in Places /\ <<"double", i, 0>> \in Places
  BY PlaceForms
<1>3. /\ AtIn(fs, <<"indirect", i, 0>>) = fs.inode[i].indirect /\ AtIn(gs, <<"indirect", i, 0>>) = gs.inode[i].indirect
      /\ AtIn(fs, <<"double", i, 0>>) = fs.inode[i].double /\ AtIn(gs, <<"double", i, 0>>) = gs.inode[i].double
  BY AtForms
<1> QED BY <1>1, <1>2, <1>3

LEMMA EntryKept ==
  ASSUME NEW fs, NEW gs, Extends(fs, gs), NEW b, NEW w \in Words, PtrEntry(fs, b, w) # 0
  PROVE  PtrEntry(gs, b, w) = PtrEntry(fs, b, w)
<1>1. b \in Device /\ fs.ptrs[b][w] # 0
  BY EntryIs
<1>2. <<"block", b, w>> \in Places
  BY <1>1, PlaceForms
<1>3. AtIn(fs, <<"block", b, w>>) = fs.ptrs[b][w] /\ AtIn(gs, <<"block", b, w>>) = gs.ptrs[b][w]
  BY <1>1, AtForms
<1>4. gs.ptrs[b][w] = fs.ptrs[b][w]
  BY <1>1, <1>2, <1>3 DEF Extends
<1> QED BY <1>1, <1>4, EntryIs

\* Where a writer gets the block from, the reader finds it.
LEMMA BlockFound ==
  ASSUME data_blocks \in Nat, NEW fs, FsOK(fs), NEW i \in Inodes, NEW k \in FileBlocks,
         NEW r, r = get_block_at_offset(fs, i, k, TRUE)
  PROVE  /\ Good(r) /\ Extends(fs, r.fs)
         /\ Lookup(r.fs, i, k) \in Device \/ r.blk \in Device => Lookup(r.fs, i, k) = r.blk
<1> DEFINE k1 == k - NDirect
           k2 == k1 - PtrsPerBlock
<1>0. k \in Nat
  BY NefsAssumption DEF FileBlocks
<1>1. NDirect \in Nat /\ PtrsPerBlock \in Nat \ {0} /\ PtrsPerBlock * PtrsPerBlock \in Nat
  BY NefsAssumption
<1>2. /\ Direct(k) => k1 < 0 /\ ~(k1 \in Words) /\ ~(k2 >= 0)
      /\ Single(k) => ~(k1 < 0) /\ k1 \in Words /\ ~(k2 >= 0)
      /\ Double(k) => ~(k1 < 0) /\ ~(k1 \in Words) /\ k2 >= 0 /\ k2 < PtrsPerBlock * PtrsPerBlock
  BY <1>0, <1>1 DEF Direct, Single, Double, Words
<1>3. CASE Direct(k)
  <2>1. r = DirectPtr(fs, i, k, TRUE)
    BY <1>2, <1>3 DEF get_block_at_offset
  <2>2. FoundAt(fs, <<"direct", i, k>>, r)
    BY <1>3, <2>1, DirectFound DEF Direct
  <2>3. <<"direct", i, k>> \in Places
    BY <1>3, PlaceForms DEF Direct
  <2>32. AtIn(r.fs, <<"direct", i, k>>) = r.fs.inode[i].direct[k]
    BY <1>3, AtForms DEF Direct
  <2>33. Lookup(r.fs, i, k) = r.fs.inode[i].direct[k]
    BY <1>0, <1>3, LookupIs
  <2>4. Lookup(r.fs, i, k) = r.blk
    BY <2>2, <2>32, <2>33 DEF FoundAt
  <2>5. Good(r)
    BY <2>2, <2>3, FoundGood
  <2> QED BY <2>2, <2>4, <2>5 DEF FoundAt
<1>4. CASE Single(k)
  <2> DEFINE a == InodePtr(fs, i, "indirect", TRUE)
  <2>1. r = Below(a, k1, TRUE)
    BY <1>2, <1>4 DEF get_block_at_offset
  <2>2. FoundAt(fs, <<"indirect", i, 0>>, a)
    BY IndirectFound
  <2>3. <<"indirect", i, 0>> \in Places /\ AtIn(a.fs, <<"indirect", i, 0>>) = a.fs.inode[i].indirect
    BY PlaceForms, AtForms
  <2> HIDE DEF a
  <2>4. Good(a) /\ Extends(fs, a.fs) /\ a.fs.inode[i].indirect = a.blk /\ a.blk # 0
    BY <2>2, <2>3, FoundGood DEF FoundAt
  <2>5. /\ Good(r) /\ Extends(a.fs, r.fs)
        /\ PtrEntry(r.fs, a.blk, k1) \in Device \/ r.blk \in Device => PtrEntry(r.fs, a.blk, k1) = r.blk
    BY <1>4, <2>1, <2>4, BelowGood DEF Single
  <2>6. r.fs.inode[i].indirect = a.blk
    <3>1. Extends(a.fs, r.fs) /\ a.fs.inode[i].indirect = a.blk /\ a.blk # 0 /\ i \in Inodes
      BY <2>4, <2>5
    <3> QED BY ONLY <3>1, PointerKept
  <2>7. Lookup(r.fs, i, k) = PtrEntry(r.fs, a.blk, k1)
    <3>1. Lookup(r.fs, i, k) = PtrEntry(r.fs, r.fs.inode[i].indirect, k - NDirect)
      BY <1>0, <1>4, LookupIs
    <3> QED BY <2>6, <3>1
  <2>8. Extends(fs, r.fs)
    BY <2>4, <2>5, ExtendsChain DEF Good, FsOK
  <2> QED BY <2>5, <2>7, <2>8
<1>5. CASE Double(k)
  <2> DEFINE a == InodePtr(fs, i, "double", TRUE)
             b == Below(a, Word1(k), TRUE)
  <2>1. r = Below(b, Word2(k), TRUE)
    BY <1>2, <1>5 DEF get_block_at_offset, Word1, Word2
  <2>2. FoundAt(fs, <<"double", i, 0>>, a)
    BY IndirectFound
  <2>3. <<"double", i, 0>> \in Places /\ AtIn(a.fs, <<"double", i, 0>>) = a.fs.inode[i].double
    BY PlaceForms, AtForms
  <2>31. Word1(k) \in Words /\ Word2(k) \in Words
    BY <1>0, <1>5, Levels
  <2> HIDE DEF a
  <2>4. Good(a) /\ Extends(fs, a.fs) /\ a.fs.inode[i].double = a.blk /\ a.blk # 0
    BY <2>2, <2>3, FoundGood DEF FoundAt
  <2>5. /\ Good(b) /\ Extends(a.fs, b.fs)
        /\ PtrEntry(b.fs, a.blk, Word1(k)) \in Device \/ b.blk \in Device => PtrEntry(b.fs, a.blk, Word1(k)) = b.blk
    BY <2>4, <2>31, BelowGood
  <2> HIDE DEF b
  <2>6. /\ Good(r) /\ Extends(b.fs, r.fs)
        /\ PtrEntry(r.fs, b.blk, Word2(k)) \in Device \/ r.blk \in Device => PtrEntry(r.fs, b.blk, Word2(k)) = r.blk
    BY <2>1, <2>5, <2>31, BelowGood
  <2>7. Extends(a.fs, r.fs) /\ Extends(fs, r.fs)
    BY <2>4, <2>5, <2>6, ExtendsChain DEF Good, FsOK
  <2>8. r.fs.inode[i].double = a.blk
    <3>1. Extends(a.fs, r.fs) /\ a.fs.inode[i].double = a.blk /\ a.blk # 0 /\ i \in Inodes
      BY <2>4, <2>7
    <3> QED BY ONLY <3>1, PointerKept
  <2>9. Lookup(r.fs, i, k) = PtrEntry(r.fs, PtrEntry(r.fs, a.blk, Word1(k)), Word2(k))
    <3>1. Lookup(r.fs, i, k) = PtrEntry(r.fs, PtrEntry(r.fs, r.fs.inode[i].double, Word1(k)), Word2(k))
      BY <1>0, <1>5, LookupIs
    <3> QED BY <2>8, <3>1
  <2>10. CASE b.blk \in Device
    <3>1. PtrEntry(b.fs, a.blk, Word1(k)) = b.blk /\ b.blk # 0
      BY <2>5, <2>10, PointersAre
    <3>2. PtrEntry(r.fs, a.blk, Word1(k)) = b.blk
      <4>1. Extends(b.fs, r.fs) /\ PtrEntry(b.fs, a.blk, Word1(k)) # 0 /\ Word1(k) \in Words
        BY <2>6, <2>31, <3>1
      <4>2. PtrEntry(r.fs, a.blk, Word1(k)) = PtrEntry(b.fs, a.blk, Word1(k))
        BY ONLY <4>1, EntryKept
      <4> QED BY <3>1, <4>2
    <3> QED BY <2>6, <2>7, <2>9, <3>2
  <2>11. CASE b.blk \notin Device
    <3>1. b.blk = NoBlock /\ Free(b.fs) = {}
      BY <2>5, <2>11, PointersAre DEF Good
    <3>32. r = Through(NoBlock, b.fs, Word2(k), TRUE)
      BY <2>1, <3>1 DEF Below
    <3>2. r.blk = NoBlock /\ r.fs = b.fs
      <4>1. Through(NoBlock, b.fs, Word2(k), TRUE).blk = NoBlock /\ Through(NoBlock, b.fs, Word2(k), TRUE).fs = b.fs
        BY <2>31, <3>1, NothingBelowNoBlock
      <4> QED BY <3>32, <4>1
    <3>3. PtrEntry(r.fs, a.blk, Word1(k)) \notin Device
      BY <2>5, <2>11, <3>2
    <3>4. Lookup(r.fs, i, k) = 0
      BY <2>9, <3>3, EntryIs
    <3> QED BY <2>6, <2>7, <3>2, <3>4, PointersAre
  <2> QED BY <2>10, <2>11
<1> QED BY <1>0, <1>3, <1>4, <1>5, Levels

\* Offsets past the last block have no block.
LEMMA NoBlockPast ==
  ASSUME NEW fs, NEW i \in Inodes, NEW k \in Nat \ FileBlocks, NEW alloc \in BOOLEAN
  PROVE  get_block_at_offset(fs, i, k, alloc).blk = 0
<1> DEFINE k1 == k - NDirect
           k2 == k1 - PtrsPerBlock
<1>1. NDirect \in Nat /\ PtrsPerBlock \in Nat \ {0} /\ PtrsPerBlock * PtrsPerBlock \in Nat
  BY NefsAssumption
<1>2. ~(k1 < 0) /\ ~(k1 \in Words) /\ ~(k2 >= 0 /\ k2 < PtrsPerBlock * PtrsPerBlock)
  BY <1>1 DEF FileBlocks, Words
<1>3. get_block_at_offset(fs, i, k, alloc) = Known(0, fs)
  BY <1>2 DEF get_block_at_offset
<1> QED BY <1>3, KnownFields

\* What was written is there, or the device is full.
KeptAt(fs, i, k, v) ==
    v # 0 => \/ Lookup(fs, i, k) \in Device /\ fs.data[Lookup(fs, i, k)] = v
             \/ Lookup(fs, i, k) \notin Device /\ Free(fs) = {}
Kept(fs, w) == \A i \in Inodes, k \in FileBlocks : KeptAt(fs, i, k, w[i][k])

\* File systems that differ in the sizes of files only.
LEMMA SameFiles ==
  ASSUME NEW fs, FsOK(fs), NEW gs \in NefsState, gs.used = fs.used, gs.free_blocks = fs.free_blocks, gs.ptrs = fs.ptrs,
         \A j \in Inodes : /\ gs.inode[j].direct = fs.inode[j].direct /\ gs.inode[j].indirect = fs.inode[j].indirect
                          /\ gs.inode[j].double = fs.inode[j].double
  PROVE  /\ FsOK(gs) /\ Free(gs) = Free(fs)
         /\ \A i \in Inodes, k \in FileBlocks : Lookup(gs, i, k) = Lookup(fs, i, k)
<1>1. Free(gs) = Free(fs)
  BY DEF Free
<1>2. ASSUME NEW p \in Places PROVE AtIn(gs, p) = AtIn(fs, p)
  <2>1. ASSUME NEW i \in Inodes, NEW k \in 0 .. NDirect - 1, p = <<"direct", i, k>> PROVE AtIn(gs, p) = AtIn(fs, p)
    <3>1. gs.inode[i].direct[k] = fs.inode[i].direct[k]
      OBVIOUS
    <3> QED BY <2>1, <3>1, AtForms
  <2>2. ASSUME NEW i \in Inodes, p = <<"indirect", i, 0>> \/ p = <<"double", i, 0>> PROVE AtIn(gs, p) = AtIn(fs, p)
    BY <2>2, AtForms
  <2>3. ASSUME NEW b \in Device, NEW w \in Words, p = <<"block", b, w>> PROVE AtIn(gs, p) = AtIn(fs, p)
    BY <2>3, AtForms
  <2> QED BY <2>1, <2>2, <2>3, PlaceForms
<1>3. FsOK(gs)
  BY <1>1, <1>2 DEF FsOK, Unshared, UsedIsPointedTo, NoBlockWhenFull
<1>4. \A x, w : PtrEntry(gs, x, w) = PtrEntry(fs, x, w)
  BY DEF PtrEntry
<1>5. ASSUME NEW i \in Inodes, NEW k \in FileBlocks PROVE Lookup(gs, i, k) = Lookup(fs, i, k)
  <2>1. k \in Nat
    BY NefsAssumption DEF FileBlocks
  <2>2. CASE Direct(k)
    BY <2>1, <2>2, LookupIs
  <2>3. CASE Single(k)
    <3>1. /\ Lookup(gs, i, k) = PtrEntry(gs, gs.inode[i].indirect, k - NDirect)
          /\ Lookup(fs, i, k) = PtrEntry(fs, fs.inode[i].indirect, k - NDirect)
      BY <2>1, <2>3, LookupIs
    <3> QED BY <1>4, <3>1
  <2>4. CASE Double(k)
    <3>1. /\ Lookup(gs, i, k) = PtrEntry(gs, PtrEntry(gs, gs.inode[i].double, Word1(k)), Word2(k))
          /\ Lookup(fs, i, k) = PtrEntry(fs, PtrEntry(fs, fs.inode[i].double, Word1(k)), Word2(k))
      BY <2>1, <2>4, LookupIs
    <3> QED BY <1>4, <3>1
  <2> QED BY <2>1, <2>2, <2>3, <2>4, Levels
<1> QED BY <1>1, <1>3, <1>5

\* gs is fs with v in block b.
DataIs(fs, gs, b, v) ==
    /\ FsOK(gs) /\ Free(gs) = Free(fs)
    /\ \A i \in Inodes, k \in FileBlocks : Lookup(gs, i, k) = Lookup(fs, i, k)
    /\ \A i \in Inodes : gs.inode[i].size = fs.inode[i].size
    /\ \A c \in Device : gs.data[c] = IF c = b THEN v ELSE fs.data[c]

LEMMA DataWritten ==
  ASSUME NEW fs, FsOK(fs), NEW b \in Pointers, NEW v \in Nat, NEW gs, gs = WriteBlock(fs, b, v)
  PROVE  DataIs(fs, gs, b, v)
<1>1. fs \in NefsState
  BY DEF FsOK
<1>2. CASE b \notin Device
  <2>1. gs = fs
    BY <1>2 DEF WriteBlock, Device
  <2> QED BY <1>2, <2>1 DEF DataIs
<1>3. CASE b \in Device
  <2>1. gs = [fs EXCEPT !.data[b] = v]
    BY <1>3 DEF WriteBlock, Device
  <2>2. fs.data \in [Device -> Nat]
    BY <1>1 DEF NefsState
  <2>3. /\ gs.inode = fs.inode /\ gs.ptrs = fs.ptrs /\ gs.used = fs.used /\ gs.free_blocks = fs.free_blocks
        /\ gs.data = [fs.data EXCEPT ![b] = v]
    BY <1>1, <2>1 DEF NefsState
  <2>4. gs \in NefsState
    BY <1>1, <1>3, <2>1, <2>2, <2>3 DEF NefsState
  <2>5. Free(gs) = Free(fs)
    BY <2>3 DEF Free
  <2>7. FsOK(gs) /\ \A i \in Inodes, k \in FileBlocks : Lookup(gs, i, k) = Lookup(fs, i, k)
    BY <2>3, <2>4, SameFiles
  <2>10. \A c \in Device : gs.data[c] = IF c = b THEN v ELSE fs.data[c]
    BY <2>2, <2>3
  <2> QED BY <2>3, <2>5, <2>7, <2>10 DEF DataIs
<1> QED BY <1>2, <1>3

\* u is w, but for the last write v of block m of inode i.
Rewritten(w, u, i, m, v) ==
    \A j \in Inodes, k \in FileBlocks : u[j][k] = IF j = i /\ k = m THEN v ELSE w[j][k]

\* gs holds what u says, in files of the same size as in fs.
Holds(fs, gs, u) == FsOK(gs) /\ Kept(gs, u) /\ \A j \in Inodes : gs.inode[j].size = fs.inode[j].size

\* One block of a call of nefs_write_file, block m of inode i.
LEMMA OneBlockKept ==
  ASSUME data_blocks \in Nat, NEW fs, FsOK(fs), NEW i \in Inodes, NEW m \in FileBlocks, NEW v \in Nat \ {0},
         NEW w, Kept(fs, w), NEW u, Rewritten(w, u, i, m, v),
         NEW r, r = get_block_at_offset(fs, i, m, TRUE), NEW gs, gs = WriteBlock(r.fs, r.blk, v)
  PROVE  Holds(fs, gs, u)
<1>1. /\ Good(r) /\ Extends(fs, r.fs)
      /\ Lookup(r.fs, i, m) \in Device \/ r.blk \in Device => Lookup(r.fs, i, m) = r.blk
  BY BlockFound
<1>2. /\ FsOK(gs) /\ Free(gs) = Free(r.fs)
      /\ \A j \in Inodes, k \in FileBlocks : Lookup(gs, j, k) = Lookup(r.fs, j, k)
      /\ \A j \in Inodes : gs.inode[j].size = r.fs.inode[j].size
      /\ \A c \in Device : gs.data[c] = IF c = r.blk THEN v ELSE r.fs.data[c]
  <2>1. FsOK(r.fs) /\ r.blk \in Pointers
    BY <1>1 DEF Good
  <2>2. v \in Nat /\ gs = WriteBlock(r.fs, r.blk, v)
    OBVIOUS
  <2>3. DataIs(r.fs, gs, r.blk, v)
    BY ONLY <2>1, <2>2, DataWritten
  <2> QED BY <2>3 DEF DataIs
<1>3. \A j \in Inodes : gs.inode[j].size = fs.inode[j].size
  <2>1. \A j \in Inodes : r.fs.inode[j].size = fs.inode[j].size
    BY <1>1 DEF Extends
  <2> QED BY <1>2, <2>1
<1>4. fs \in NefsState /\ r.fs \in NefsState
  BY <1>1 DEF Good, FsOK
<1>6. \A j \in Inodes, k \in FileBlocks : u[j][k] = IF j = i /\ k = m THEN v ELSE w[j][k]
  BY DEF Rewritten
<1>5. ASSUME NEW j \in Inodes, NEW k \in FileBlocks PROVE KeptAt(gs, j, k, u[j][k])
  <2>1. CASE j = i /\ k = m
    <3>1. CASE r.blk \in Device
      <4>1. Lookup(gs, i, m) = r.blk /\ gs.data[r.blk] = v /\ u[i][m] = v
        <5>1. Lookup(gs, i, m) = r.blk
          BY <1>1, <1>2, <3>1
        <5>2. gs.data[r.blk] = v
          BY <1>2, <3>1
        <5>3. u[i][m] = v
          BY <1>6
        <5> QED BY <5>1, <5>2, <5>3
      <4> QED BY <2>1, <3>1, <4>1 DEF KeptAt
    <3>2. CASE r.blk \notin Device
      <4>1. Free(gs) = {} /\ Lookup(gs, i, m) \notin Device
        <5>1. Free(r.fs) = {}
          BY <1>1, <3>2 DEF Good
        <5>2. Lookup(r.fs, i, m) \notin Device
          BY <1>1, <3>2
        <5> QED BY <1>2, <5>1, <5>2
      <4> QED BY <2>1, <4>1 DEF KeptAt
    <3> QED BY <3>1, <3>2
  <2>2. CASE ~(j = i /\ k = m)
    <3>0. u[j][k] = w[j][k] /\ KeptAt(fs, j, k, w[j][k]) /\ Lookup(gs, j, k) = Lookup(r.fs, j, k)
      BY <1>2, <1>6, <2>2 DEF Kept
    <3>1. CASE w[j][k] = 0
      BY <3>0, <3>1 DEF KeptAt
    <3>2. CASE Lookup(fs, j, k) \in Device /\ fs.data[Lookup(fs, j, k)] = w[j][k]
      <4>1. Lookup(r.fs, j, k) = Lookup(fs, j, k)
        BY <1>1, <1>4, <3>2, LookupKept
      <4>2. r.blk # Lookup(r.fs, j, k)
        <5>1. SUFFICES ASSUME r.blk = Lookup(r.fs, j, k) PROVE FALSE
          OBVIOUS
        <5>2. Lookup(r.fs, i, m) = Lookup(r.fs, j, k) /\ Lookup(r.fs, i, m) \in Device
          BY <1>1, <3>2, <4>1, <5>1
        <5>3. i = j /\ m = k
          BY <1>1, <5>2, OneReader DEF Good
        <5> QED BY <2>2, <5>3
      <4>3. r.fs.data = fs.data
        BY <1>1 DEF Extends
      <4>4. Lookup(gs, j, k) \in Device /\ gs.data[Lookup(gs, j, k)] = w[j][k]
        BY <1>2, <3>0, <3>2, <4>1, <4>2, <4>3
      <4> QED BY <3>0, <4>4 DEF KeptAt
    <3>3. CASE Lookup(fs, j, k) \notin Device /\ Free(fs) = {}
      <4>1. Lookup(r.fs, j, k) \notin Device
        BY <1>1, <1>4, <3>3, LookupKept
      <4>2. Free(r.fs) = {}
        BY <1>1, <1>4, <3>3 DEF Extends, Free, NefsState, Device
      <4> QED BY <1>2, <3>0, <4>1, <4>2 DEF KeptAt
    <3> QED BY <3>0, <3>1, <3>2, <3>3 DEF KeptAt
  <2> QED BY <2>1, <2>2
<1> QED BY <1>2, <1>3, <1>5 DEF Holds, Kept

\* The state of a call of nefs_write_file that writes v to inode i from block k
\* on, of a file system that held w: s.written blocks are done.
Partly(w, i, k, n, v) == [b \in FileBlocks |-> IF b >= k /\ b < k + n THEN v ELSE w[i][b]]
WriteOK(fs, s, w, i, k, v) ==
    /\ s \in [fs : NefsState, written : Nat, stop : BOOLEAN] /\ FsOK(s.fs)
    /\ Kept(s.fs, [w EXCEPT ![i] = Partly(w, i, k, s.written, v)])
    /\ \A j \in Inodes : s.fs.inode[j].size = fs.inode[j].size

LEMMA WriteNextOK ==
  ASSUME data_blocks \in Nat, NEW fs, NEW i \in Inodes, NEW k \in Nat, NEW v \in Nat \ {0},
         NEW w \in [Inodes -> [FileBlocks -> Nat]], NEW s, WriteOK(fs, s, w, i, k, v)
  PROVE  WriteOK(fs, WriteNext(s, i, k, v), w, i, k, v)
<1> DEFINE m == k + s.written
           r == get_block_at_offset(s.fs, i, m, TRUE)
<1>1. FsOK(s.fs) /\ s.written \in Nat /\ m \in Nat
  BY DEF WriteOK
<1>2. CASE s.stop
  BY <1>2 DEF WriteNext
<1>3. CASE ~s.stop /\ r.blk = 0
  <2>1. WriteNext(s, i, k, v) = [s EXCEPT !.stop = TRUE]
    BY <1>3 DEF WriteNext, OneBlock
  <2> DEFINE t == [s EXCEPT !.stop = TRUE]
  <2>2. t \in [fs : NefsState, written : Nat, stop : BOOLEAN] /\ t.fs = s.fs /\ t.written = s.written
    BY DEF WriteOK
  <2> HIDE DEF t
  <2>3. WriteOK(fs, t, w, i, k, v)
    BY <2>2 DEF WriteOK
  <2> QED BY <2>1, <2>3 DEF t
<1>4. CASE ~s.stop /\ r.blk # 0
  <2> DEFINE gs == WriteBlock(r.fs, r.blk, v)
             t == [s EXCEPT !.fs = gs, !.written = @ + 1]
  <2>1. m \in FileBlocks
    BY <1>1, <1>4, NoBlockPast
  <2>3. WriteNext(s, i, k, v) = t
    BY <1>4 DEF WriteNext, OneBlock
  <2> DEFINE old == [w EXCEPT ![i] = Partly(w, i, k, s.written, v)]
             new == [w EXCEPT ![i] = Partly(w, i, k, s.written + 1, v)]
  <2>5. Rewritten(old, new, i, m, v)
    <3> SUFFICES ASSUME NEW j \in Inodes, NEW b \in FileBlocks
                 PROVE  new[j][b] = IF j = i /\ b = m THEN v ELSE old[j][b]
      BY DEF Rewritten
    <3>1. b \in Nat
      BY NefsAssumption DEF FileBlocks
    <3>2. CASE j # i
      BY <3>2
    <3>3. CASE j = i
      <4>1. new[j] = Partly(w, i, k, s.written + 1, v) /\ old[j] = Partly(w, i, k, s.written, v)
        BY <3>3
      <4>2. b >= k /\ b < k + (s.written + 1) <=> (b >= k /\ b < k + s.written) \/ b = m
        BY <1>1, <3>1
      <4> QED BY <3>3, <4>1, <4>2 DEF Partly
    <3> QED BY <3>2, <3>3
  <2>6. Kept(s.fs, old)
    BY DEF WriteOK
  <2> HIDE DEF old, new, m
  <2>32. v \in Nat \ {0} /\ i \in Inodes /\ data_blocks \in Nat
    OBVIOUS
  <2>33. r = get_block_at_offset(s.fs, i, m, TRUE) /\ gs = WriteBlock(r.fs, r.blk, v)
    OBVIOUS
  <2> HIDE DEF r, gs
  <2>34. Holds(s.fs, gs, new)
    BY ONLY <1>1, <2>1, <2>5, <2>6, <2>32, <2>33, OneBlockKept
  <2>7. FsOK(gs) /\ Kept(gs, new) /\ \A j \in Inodes : gs.inode[j].size = s.fs.inode[j].size
    BY <2>34 DEF Holds
  <2>8. \A j \in Inodes : gs.inode[j].size = fs.inode[j].size
    BY <2>7 DEF WriteOK
  <2>9. /\ t \in [fs : NefsState, written : Nat, stop : BOOLEAN]
        /\ t.fs = gs /\ t.written = s.written + 1
    <3>1. s \in [fs : NefsState, written : Nat, stop : BOOLEAN] /\ gs \in NefsState
      BY <2>7 DEF WriteOK, FsOK
    <3>2. s.written + 1 \in Nat
      BY <3>1
    <3>3. t.fs = gs /\ t.written = s.written + 1 /\ t.stop = s.stop
      BY <3>1
    <3> QED BY <3>1, <3>2, <3>3
  <2> HIDE DEF t
  <2>11. WriteOK(fs, t, w, i, k, v)
    BY <2>7, <2>8, <2>9 DEF WriteOK, new
  <2> QED BY <2>3, <2>11
<1> QED BY <1>2, <1>3, <1>4

LEMMA WriteStartOK ==
  ASSUME NEW fs, FsOK(fs), NEW i \in Inodes, NEW k \in Nat, NEW v,
         NEW w \in [Inodes -> [FileBlocks -> Nat]], Kept(fs, w)
  PROVE  WriteOK(fs, [fs |-> fs, written |-> 0, stop |-> FALSE], w, i, k, v)
<1>1. \A b \in FileBlocks : ~(b >= k /\ b < k + 0)
  BY NefsAssumption DEF FileBlocks
<1>2. Partly(w, i, k, 0, v) = w[i]
  BY <1>1 DEF Partly
<1>3. [w EXCEPT ![i] = Partly(w, i, k, 0, v)] = w
  BY <1>2
<1>4. [fs |-> fs, written |-> 0, stop |-> FALSE] \in [fs : NefsState, written : Nat, stop : BOOLEAN]
  BY DEF FsOK
<1> QED BY <1>3, <1>4 DEF WriteOK

\* One and two blocks: what the recursion of WriteFrom amounts to.
LEMMA WriteFromIs ==
  ASSUME NEW fs, NEW i, NEW k, NEW v, NEW len \in 1..2
  PROVE  LET s0 == [fs |-> fs, written |-> 0, stop |-> FALSE]
             s1 == WriteNext(s0, i, k, v) IN
         WriteFrom(fs, i, k, len, v) = IF len = 1 THEN s1 ELSE WriteNext(s1, i, k, v)
<1> DEFINE s0 == [fs |-> fs, written |-> 0, stop |-> FALSE]
           s1 == WriteNext(s0, i, k, v)
           s2 == WriteNext(s1, i, k, v)
           Is(f) == f = [n \in 0..len |-> IF n = 0 THEN s0 ELSE WriteNext(f[n - 1], i, k, v)]
           F == [n \in 0..len |-> IF n = 0 THEN s0 ELSE IF n = 1 THEN s1 ELSE s2]
<1>1. Is(F)
  <2>1. ASSUME NEW n \in 0..len PROVE F[n] = IF n = 0 THEN s0 ELSE WriteNext(F[n - 1], i, k, v)
    <3> HIDE DEF s0
    <3>1. CASE n = 0
      BY <3>1
    <3>2. CASE n = 1
      <4>1. F[n] = s1 /\ F[n - 1] = s0
        BY <3>2
      <4> QED BY <3>2, <4>1
    <3>3. CASE n = 2
      <4>1. F[n] = s2 /\ F[n - 1] = s1
        BY <3>3
      <4> QED BY <3>3, <4>1
    <3> QED BY <3>1, <3>2, <3>3
  <2> HIDE DEF s0
  <2> QED BY <2>1
<1> DEFINE G == CHOOSE f : Is(f)
<1>2. WriteFrom(fs, i, k, len, v) = G[len]
  BY DEF WriteFrom
<1>3. Is(G)
  BY <1>1
<1> HIDE DEF G, s0
<1>4. G[0] = s0
  BY <1>3
<1>5. G[1] = s1
  BY <1>3, <1>4
<1>6. len = 2 => G[2] = s2
  BY <1>3, <1>5
<1> QED BY <1>2, <1>5, <1>6 DEF s0

----------------------------------------------------------------------------
\* Until the device is full a block that was written is in the file.
NefsInv ==
    /\ data_blocks \in Nat /\ created \subseteq Inodes /\ touched \subseteq Inodes /\ writes \in 0..MaxWrites
    /\ FsOK(nefs)
    /\ written \in [Inodes -> [FileBlocks -> Nat]] /\ Kept(nefs, written)
    /\ \A i \in Inodes, k \in FileBlocks : written[i][k] # 0 => k < nefs.inode[i].size

LEMMA NefsInitInv == nefs_format => NefsInv
<1> SUFFICES ASSUME nefs_format PROVE NefsInv
  OBVIOUS
<1>1. data_blocks \in Nat /\ created \subseteq Inodes /\ touched \subseteq Inodes /\ writes \in 0..MaxWrites
      /\ orphans = {}
  BY NefsAssumption DEF nefs_format
<1> DEFINE zeros == [i \in Inodes |-> [k \in FileBlocks |-> 0]]
<1>2. written \in [Inodes -> [FileBlocks -> Nat]] /\ \A i \in Inodes, k \in FileBlocks : written[i][k] = 0
  <2>1. written = zeros
    BY DEF nefs_format
  <2>2. zeros \in [Inodes -> [FileBlocks -> Nat]] /\ \A i \in Inodes, k \in FileBlocks : zeros[i][k] = 0
    OBVIOUS
  <2> QED BY <2>1, <2>2
<1>3. /\ nefs.inode = [i \in Inodes |-> NewInode] /\ nefs.used = {} /\ nefs.free_blocks = data_blocks
      /\ nefs.ptrs = [b \in Device |-> Zeros] /\ nefs.data = [b \in Device |-> 0]
  BY DEF nefs_format, Device
<1>4. nefs \in NefsState
  <2>1. NewInode \in InodeType
    BY DEF NewInode, InodeType, Pointers
  <2>2. Zeros \in [Words -> Pointers]
    BY DEF Zeros, Pointers
  <2>3. nefs = [inode |-> [i \in Inodes |-> NewInode], used |-> {}, free_blocks |-> data_blocks,
                ptrs |-> [b \in Device |-> Zeros], data |-> [b \in Device |-> 0]]
    BY DEF nefs_format, Device
  <2> QED BY <1>1, <2>1, <2>2, <2>3 DEF NefsState
<1>5. nefs.free_blocks = Cardinality(Free(nefs))
  <2>1. Free(nefs) = 1..data_blocks
    BY <1>3 DEF Free
  <2>2. Cardinality(1..data_blocks) = data_blocks
    BY <1>1, FS_Interval
  <2> QED BY <1>3, <2>1, <2>2
<1>6. ASSUME NEW p \in Places PROVE AtIn(nefs, p) = 0
  <2>1. ASSUME NEW i \in Inodes, NEW k \in 0 .. NDirect - 1, p = <<"direct", i, k>> PROVE AtIn(nefs, p) = 0
    <3>0. nefs.inode[i] = NewInode
      BY <1>3
    <3>1. nefs.inode[i].direct = [m \in 0 .. NDirect - 1 |-> 0]
      BY <3>0 DEF NewInode
    <3>2. nefs.inode[i].direct[k] = 0
      BY <3>1
    <3> QED BY <2>1, <3>2, AtForms
  <2>2. ASSUME NEW i \in Inodes, p = <<"indirect", i, 0>> \/ p = <<"double", i, 0>> PROVE AtIn(nefs, p) = 0
    <3>1. nefs.inode[i].indirect = 0 /\ nefs.inode[i].double = 0
      BY <1>3 DEF NewInode
    <3> QED BY <2>2, <3>1, AtForms
  <2>3. ASSUME NEW b \in Device, NEW w \in Words, p = <<"block", b, w>> PROVE AtIn(nefs, p) = 0
    <3>1. nefs.ptrs[b][w] = 0
      BY <1>3 DEF Zeros
    <3> QED BY <2>3, <3>1, AtForms
  <2> QED BY <2>1, <2>2, <2>3, PlaceForms
<1>7. Unshared(nefs) /\ UsedIsPointedTo(nefs) /\ NoBlockWhenFull(nefs)
  BY <1>1, <1>3, <1>6, PointersAre DEF Unshared, UsedIsPointedTo, NoBlockWhenFull
<1> QED BY <1>1, <1>2, <1>4, <1>5, <1>7 DEF NefsInv, FsOK, Kept, KeptAt

LEMMA WriteStep ==
  ASSUME NefsInv, NEW i \in Inodes, NEW k \in Nat, NEW len \in 1..2, nefs_write_file(i, k, len)
  PROVE  NefsInv'
<1> DEFINE v == writes + 1
           s == WriteFrom(nefs, i, k, len, v)
           end == k + s.written
           new == [written EXCEPT ![i] = Partly(written, i, k, s.written, v)]
<1>1. /\ data_blocks \in Nat /\ FsOK(nefs) /\ Kept(nefs, written) /\ v \in Nat \ {0}
      /\ written \in [Inodes -> [FileBlocks -> Nat]]
  BY NefsAssumption DEF NefsInv
<1>2. WriteOK(nefs, s, written, i, k, v)
  <2> HIDE DEF v
  <2> DEFINE s0 == [fs |-> nefs, written |-> 0, stop |-> FALSE]
             s1 == WriteNext(s0, i, k, v)
  <2>1. WriteOK(nefs, s0, written, i, k, v)
    BY <1>1, WriteStartOK
  <2> HIDE DEF s0
  <2>2. WriteOK(nefs, s1, written, i, k, v)
    BY <1>1, <2>1, WriteNextOK
  <2> HIDE DEF s1
  <2>3. WriteOK(nefs, WriteNext(s1, i, k, v), written, i, k, v)
    BY <1>1, <2>2, WriteNextOK
  <2>4. s = s1 \/ s = WriteNext(s1, i, k, v)
    BY WriteFromIs DEF s0, s1
  <2> HIDE DEF s
  <2> QED BY <2>2, <2>3, <2>4
<1>3. /\ writes' = v /\ writes < MaxWrites /\ data_blocks' = data_blocks /\ created' = created
      /\ orphans' = orphans /\ touched' = touched \cup {i}
      /\ nefs' = [s.fs EXCEPT !.inode[i].size = IF end > @ THEN end ELSE @]
      /\ written' = new
  BY DEF nefs_write_file, Partly
<1> HIDE DEF s, v
<1>4. /\ s.written \in Nat /\ FsOK(s.fs) /\ s.fs \in NefsState /\ Kept(s.fs, new)
      /\ \A j \in Inodes : s.fs.inode[j].size = nefs.inode[j].size
  BY <1>2 DEF WriteOK, FsOK
<1> DEFINE gs == [s.fs EXCEPT !.inode[i].size = IF end > @ THEN end ELSE @]
           node == [s.fs.inode[i] EXCEPT !.size = IF end > @ THEN end ELSE @]
<1>5. s.fs.inode \in [Inodes -> InodeType] /\ s.fs.inode[i] \in InodeType /\ end \in Nat
  BY <1>4 DEF NefsState
<1>6. /\ gs.inode = [s.fs.inode EXCEPT ![i] = node]
      /\ gs.used = s.fs.used /\ gs.free_blocks = s.fs.free_blocks /\ gs.ptrs = s.fs.ptrs /\ gs.data = s.fs.data
  BY <1>4, <1>5 DEF NefsState
<1>7. node \in InodeType /\ node.direct = s.fs.inode[i].direct /\ node.indirect = s.fs.inode[i].indirect
      /\ node.double = s.fs.inode[i].double /\ node.size >= end /\ node.size >= s.fs.inode[i].size
  BY <1>5 DEF InodeType
<1>8. gs \in NefsState
  BY <1>4, <1>5, <1>6, <1>7 DEF NefsState
<1> HIDE DEF gs, node, end
<1>9. \A j \in Inodes : /\ gs.inode[j].direct = s.fs.inode[j].direct /\ gs.inode[j].indirect = s.fs.inode[j].indirect
                        /\ gs.inode[j].double = s.fs.inode[j].double
                        /\ gs.inode[j].size >= s.fs.inode[j].size
  <2> TAKE j \in Inodes
  <2>1. CASE j = i
    BY <1>5, <1>6, <1>7, <2>1
  <2>2. CASE j # i
    <3>1. gs.inode[j] = s.fs.inode[j] /\ s.fs.inode[j] \in InodeType
      BY <1>5, <1>6, <2>2
    <3> QED BY <3>1 DEF InodeType
  <2> QED BY <2>1, <2>2
<1>10. FsOK(gs) /\ Kept(gs, new)
  <2>1. /\ FsOK(gs) /\ Free(gs) = Free(s.fs)
        /\ \A j \in Inodes, b \in FileBlocks : Lookup(gs, j, b) = Lookup(s.fs, j, b)
    BY <1>4, <1>6, <1>8, <1>9, SameFiles
  <2> QED BY <1>4, <1>6, <2>1 DEF Kept, KeptAt
<1>11. new \in [Inodes -> [FileBlocks -> Nat]]
  <2>1. Partly(written, i, k, s.written, v) \in [FileBlocks -> Nat]
    BY <1>1 DEF Partly
  <2> QED BY <1>1, <2>1
<1>12. ASSUME NEW j \in Inodes, NEW b \in FileBlocks, new[j][b] # 0 PROVE b < gs.inode[j].size
  <2>1. b \in Nat /\ gs.inode[j].size \in Nat /\ s.fs.inode[j].size \in Nat
    <3>1. gs.inode[j] \in InodeType /\ s.fs.inode[j] \in InodeType
      BY <1>5, <1>8 DEF NefsState
    <3> QED BY <3>1, NefsAssumption DEF FileBlocks, InodeType
  <2>2. CASE j = i /\ b >= k /\ b < end
    <3>1. gs.inode[i].size >= end
      BY <1>5, <1>6, <1>7
    <3> QED BY <1>5, <2>1, <2>2, <3>1
  <2>3. CASE ~(j = i /\ b >= k /\ b < end)
    <3>1. new[j][b] = written[j][b]
      BY <1>1, <2>3 DEF Partly, end
    <3>2. b < nefs.inode[j].size
      BY <1>12, <3>1 DEF NefsInv
    <3>3. b < s.fs.inode[j].size
      BY <1>4, <3>2
    <3> QED BY <1>9, <2>1, <3>3
  <2> QED BY <2>2, <2>3
<1> HIDE DEF new
<1>13. nefs' = gs /\ written' = new /\ data_blocks' = data_blocks
  BY <1>3 DEF gs, end
<1>14. writes' \in 0..MaxWrites /\ created' \subseteq Inodes /\ touched' \subseteq Inodes
  BY <1>3, NefsAssumption DEF NefsInv, v
<1>15. FsOK(nefs)'
  <2>1. (nefs \in NefsState)'
    BY <1>8, <1>13 DEF NefsState, InodeType, Pointers, Device
  <2>2. (nefs.free_blocks = Cardinality(Free(nefs)))'
    BY <1>10, <1>13 DEF FsOK, Free
  <2>3. Unshared(nefs)'
    <3>1. Places' = Places /\ Device' = Device /\ \A p : AtIn(nefs, p)' = AtIn(gs, p)
      BY <1>13 DEF Places, Device, AtIn
    <3> QED BY <1>10, <3>1 DEF FsOK, Unshared
  <2>4. UsedIsPointedTo(nefs)'
    <3>1. Places' = Places /\ Device' = Device /\ \A p : AtIn(nefs, p)' = AtIn(gs, p)
      BY <1>13 DEF Places, Device, AtIn
    <3>2. UsedIsPointedTo(gs)
      BY <1>10 DEF FsOK
    <3> QED BY <1>3, <1>13, <3>1, <3>2 DEF UsedIsPointedTo
  <2>5. NoBlockWhenFull(nefs)'
    BY <1>10, <1>13 DEF FsOK, NoBlockWhenFull, Places, AtIn, Free
  <2> QED BY <2>1, <2>2, <2>3, <2>4, <2>5 DEF FsOK
<1>16. Kept(nefs, written)'
  <2>1. \A j, b : Lookup(nefs, j, b)' = Lookup(gs, j, b)
    BY <1>13 DEF Lookup, PtrEntry
  <2> QED BY <1>10, <1>13, <2>1 DEF Kept, KeptAt, Device, Free
<1> QED BY <1>1, <1>11, <1>12, <1>13, <1>14, <1>15, <1>16 DEF NefsInv

\* A new inode: the old one's pointers are gone, every other stays.
LEMMA CreateStep ==
  ASSUME NefsInv, nefs_create_file
  PROVE  NefsInv'
<1>1. PICK i \in Inodes :
        /\ created' = created \cup {i} /\ touched' = touched \cup {i}
        /\ nefs' = [nefs EXCEPT !.inode[i] = NewInode]
        /\ written' = [written EXCEPT ![i] = [k \in FileBlocks |-> 0]]
        /\ orphans' = orphans \cup InodePointers(i)
        /\ data_blocks' = data_blocks /\ writes' = writes
  BY DEF nefs_create_file
<1> DEFINE Own(p) == p[1] # "block" /\ p[2] = i
<1>2. FsOK(nefs) /\ nefs \in NefsState /\ written \in [Inodes -> [FileBlocks -> Nat]]
  BY DEF NefsInv, FsOK
<1>3. NewInode \in InodeType /\ NewInode.indirect = 0 /\ NewInode.double = 0
      /\ \A k \in 0 .. NDirect - 1 : NewInode.direct[k] = 0
  BY DEF NewInode, InodeType, Pointers
<1>4. /\ nefs'.inode = [nefs.inode EXCEPT ![i] = NewInode] /\ nefs'.used = nefs.used
      /\ nefs'.free_blocks = nefs.free_blocks /\ nefs'.ptrs = nefs.ptrs /\ nefs'.data = nefs.data
      /\ nefs' = [nefs EXCEPT !.inode = [nefs.inode EXCEPT ![i] = NewInode]]
  BY <1>1, <1>2 DEF NefsState
<1>5. nefs.inode \in [Inodes -> InodeType]
  BY <1>2 DEF NefsState
<1>6. /\ nefs'.inode[i] = NewInode
      /\ \A j \in Inodes : j # i => nefs'.inode[j] = nefs.inode[j]
  BY <1>4, <1>5
<1>7. nefs' \in NefsState
  BY <1>2, <1>3, <1>4, <1>5 DEF NefsState
<1>8. ASSUME NEW p \in Places
      PROVE  AtIn(nefs', p) = IF Own(p) THEN 0 ELSE AtIn(nefs, p)
  <2>1. ASSUME NEW j \in Inodes, NEW k \in 0 .. NDirect - 1, p = <<"direct", j, k>>
        PROVE  AtIn(nefs', p) = IF Own(p) THEN 0 ELSE AtIn(nefs, p)
    <3>1. nefs'.inode[j].direct[k] = IF j = i THEN 0 ELSE nefs.inode[j].direct[k]
      BY <1>3, <1>6
    <3>2. Own(p) <=> j = i
      BY <2>1
    <3> QED BY <2>1, <3>1, <3>2, AtForms
  <2>2. ASSUME NEW j \in Inodes, p = <<"indirect", j, 0>> \/ p = <<"double", j, 0>>
        PROVE  AtIn(nefs', p) = IF Own(p) THEN 0 ELSE AtIn(nefs, p)
    <3>1. /\ nefs'.inode[j].indirect = IF j = i THEN 0 ELSE nefs.inode[j].indirect
          /\ nefs'.inode[j].double = IF j = i THEN 0 ELSE nefs.inode[j].double
      BY <1>3, <1>6
    <3>2. CASE p = <<"indirect", j, 0>>
      <4>1. (Own(p) <=> j = i) /\ AtIn(nefs', p) = nefs'.inode[j].indirect
            /\ AtIn(nefs, p) = nefs.inode[j].indirect
        BY <3>2, AtForms
      <4> QED BY <3>1, <4>1
    <3>3. CASE p = <<"double", j, 0>>
      <4>1. (Own(p) <=> j = i) /\ AtIn(nefs', p) = nefs'.inode[j].double
            /\ AtIn(nefs, p) = nefs.inode[j].double
        BY <3>3, AtForms
      <4> QED BY <3>1, <4>1
    <3> QED BY <2>2, <3>2, <3>3
  <2>3. ASSUME NEW b \in Device, NEW w \in Words, p = <<"block", b, w>>
        PROVE  AtIn(nefs', p) = IF Own(p) THEN 0 ELSE AtIn(nefs, p)
    <3>1. ~Own(p)
      BY <2>3
    <3>2. AtIn(nefs', p) = nefs'.ptrs[b][w] /\ AtIn(nefs, p) = nefs.ptrs[b][w]
      BY <2>3, AtForms
    <3> QED BY <1>4, <3>1, <3>2
  <2> QED BY <2>1, <2>2, <2>3, PlaceForms
<1>9. \A b : b \in InodePointers(i) <=>
              b \notin {0, NoBlock} /\ \E p \in Places : Own(p) /\ AtIn(nefs, p) = b
  <2>1. ASSUME NEW b \in InodePointers(i)
        PROVE  \E p \in Places : Own(p) /\ AtIn(nefs, p) = b
    <3>1. CASE b = nefs.inode[i].indirect
      <4>1. AtIn(nefs, <<"indirect", i, 0>>) = b
        BY <3>1, AtForms
      <4> QED BY <4>1, PlaceForms
    <3>2. CASE b = nefs.inode[i].double
      <4>1. AtIn(nefs, <<"double", i, 0>>) = b
        BY <3>2, AtForms
      <4> QED BY <4>1, PlaceForms
    <3>3. ASSUME NEW k \in 0 .. NDirect - 1, b = nefs.inode[i].direct[k]
          PROVE  \E p \in Places : Own(p) /\ AtIn(nefs, p) = b
      <4>1. AtIn(nefs, <<"direct", i, k>>) = b
        BY <3>3, AtForms
      <4> QED BY <4>1, PlaceForms
    <3> QED BY <2>1, <3>1, <3>2, <3>3 DEF InodePointers
  <2>2. ASSUME NEW p \in Places, Own(p), AtIn(nefs, p) \notin {0, NoBlock}
        PROVE  AtIn(nefs, p) \in InodePointers(i)
    <3>1. ASSUME NEW j \in Inodes, NEW k \in 0 .. NDirect - 1, p = <<"direct", j, k>>
          PROVE  AtIn(nefs, p) \in InodePointers(i)
      <4>1. j = i
        BY <2>2, <3>1
      <4>2. AtIn(nefs, p) = nefs.inode[i].direct[k]
        BY <3>1, <4>1, AtForms
      <4> QED BY <2>2, <4>2 DEF InodePointers
    <3>2. ASSUME NEW j \in Inodes, p = <<"indirect", j, 0>> \/ p = <<"double", j, 0>>
          PROVE  AtIn(nefs, p) \in InodePointers(i)
      <4>1. j = i
        BY <2>2, <3>2
      <4>2. AtIn(nefs, p) \in {nefs.inode[i].indirect, nefs.inode[i].double}
        BY <3>2, <4>1, AtForms
      <4> QED BY <2>2, <4>2 DEF InodePointers
    <3>3. ASSUME NEW b \in Device, NEW w \in Words, p = <<"block", b, w>>
          PROVE  AtIn(nefs, p) \in InodePointers(i)
      BY <2>2, <3>3
    <3> QED BY <3>1, <3>2, <3>3, PlaceForms
  <2>3. InodePointers(i) \cap {0, NoBlock} = {}
    BY DEF InodePointers
  <2> QED BY <2>1, <2>2, <2>3
<1>10. Places' = Places /\ Device' = Device /\ \A p : AtIn(nefs, p)' = AtIn(nefs', p)
  BY <1>1 DEF Places, Device, AtIn
<1> HIDE DEF Own
<1>11. \A p \in Places : AtIn(nefs, p) \in Pointers
  BY <1>2, AtTyped
<1>12. Unshared(nefs)'
  <2> SUFFICES ASSUME NEW p \in Places, NEW q \in Places, AtIn(nefs', p) \in Device,
                      AtIn(nefs', p) = AtIn(nefs', q)
               PROVE  p = q
    BY <1>10 DEF Unshared
  <2>1. AtIn(nefs, p) = AtIn(nefs', p) /\ AtIn(nefs, q) = AtIn(nefs', q)
    BY <1>8, PointersAre
  <2> QED BY <1>2, <2>1 DEF FsOK, Unshared
<1>13. UsedIsPointedTo(nefs)'
  <2>1. orphans' \subseteq Device
    BY <1>1, <1>2, <1>9, <1>11, PointersAre DEF FsOK, UsedIsPointedTo
  <2>2. ASSUME NEW p \in Places PROVE AtIn(nefs', p) \notin orphans'
    <3>1. CASE Own(p)
      BY <1>8, <2>1, <3>1, PointersAre
    <3>2. CASE ~Own(p)
      <4>1. AtIn(nefs', p) = AtIn(nefs, p)
        BY <1>8, <3>2
      <4>2. AtIn(nefs, p) \notin orphans
        BY <1>2 DEF FsOK, UsedIsPointedTo
      <4>3. ASSUME AtIn(nefs, p) \in InodePointers(i) PROVE FALSE
        <5>1. PICK q \in Places : Own(q) /\ AtIn(nefs, q) = AtIn(nefs, p)
          BY <1>9, <4>3
        <5>2. AtIn(nefs, p) \in Device
          BY <1>9, <1>11, <4>3, PointersAre
        <5>3. p = q
          BY <1>2, <5>1, <5>2 DEF FsOK, Unshared
        <5> QED BY <3>2, <5>1, <5>3
      <4> QED BY <1>1, <4>1, <4>2, <4>3
    <3> QED BY <3>1, <3>2
  <2>3. ASSUME NEW b \in Device
        PROVE  b \in nefs'.used <=> b \in orphans' \/ \E p \in Places : AtIn(nefs', p) = b
    <3>1. b \in nefs.used <=> b \in orphans \/ \E p \in Places : AtIn(nefs, p) = b
      BY <1>2 DEF FsOK, UsedIsPointedTo
    <3>2. (\E p \in Places : AtIn(nefs, p) = b) <=>
             b \in InodePointers(i) \/ \E p \in Places : AtIn(nefs', p) = b
      <4>1. b \notin {0, NoBlock}
        BY PointersAre
      <4> QED BY <1>8, <1>9, <4>1
    <3> QED BY <1>1, <1>4, <3>1, <3>2
  <2> QED BY <1>10, <2>1, <2>2, <2>3 DEF UsedIsPointedTo
<1>14. Free(nefs)' = Free(nefs)
  BY <1>1, <1>4 DEF Free
<1>15. NoBlockWhenFull(nefs)'
  <2> SUFFICES ASSUME NEW p \in Places, AtIn(nefs', p) = NoBlock PROVE Free(nefs) = {}
    BY <1>10, <1>14 DEF NoBlockWhenFull
  <2>1. AtIn(nefs, p) = NoBlock
    BY <1>8, PointersAre
  <2> QED BY <1>2, <2>1 DEF FsOK, NoBlockWhenFull
<1>16. FsOK(nefs)'
  <2>1. (nefs \in NefsState)'
    BY <1>1, <1>7 DEF NefsState, InodeType, Pointers, Device
  <2>2. (nefs.free_blocks = Cardinality(Free(nefs)))'
    BY <1>2, <1>4, <1>14 DEF FsOK
  <2> QED BY <2>1, <2>2, <1>12, <1>13, <1>15 DEF FsOK
<1>17. /\ written' \in [Inodes -> [FileBlocks -> Nat]]
       /\ \A k \in FileBlocks : written'[i][k] = 0
       /\ \A j \in Inodes : j # i => written'[j] = written[j]
  <2> DEFINE none == [k \in FileBlocks |-> 0]
  <2>1. none \in [FileBlocks -> Nat] /\ \A k \in FileBlocks : none[k] = 0
    OBVIOUS
  <2>2. written' = [written EXCEPT ![i] = none]
    BY <1>1
  <2> HIDE DEF none
  <2> QED BY <1>2, <2>1, <2>2
<1>18. Kept(nefs, written)'
  <2> SUFFICES ASSUME NEW j \in Inodes, NEW k \in FileBlocks PROVE KeptAt(nefs, j, k, written[j][k])'
    BY DEF Kept
  <2>1. CASE j = i
    BY <1>17, <2>1 DEF KeptAt
  <2>2. CASE j # i
    <3>1. Lookup(nefs, j, k)' = Lookup(nefs, j, k)
      BY <1>1, <1>4, <1>6, <2>2 DEF Lookup, PtrEntry
    <3>2. KeptAt(nefs, j, k, written[j][k])
      BY DEF NefsInv, Kept
    <3> QED BY <1>4, <1>10, <1>14, <1>17, <2>2, <3>1, <3>2 DEF KeptAt
  <2> QED BY <2>1, <2>2
<1>19. \A j \in Inodes, k \in FileBlocks : written'[j][k] # 0 => k < nefs'.inode[j].size
  <2> SUFFICES ASSUME NEW j \in Inodes, NEW k \in FileBlocks, written'[j][k] # 0
               PROVE  k < nefs'.inode[j].size
    OBVIOUS
  <2>1. j # i /\ written[j][k] # 0
    BY <1>17
  <2> QED BY <1>6, <2>1 DEF NefsInv
<1> QED BY <1>1, <1>16, <1>17, <1>18, <1>19 DEF NefsInv

LEMMA NefsUnchangedInv ==
  ASSUME NefsInv, UNCHANGED nefsVars
  PROVE  NefsInv'
<1> USE DEF nefsVars
<1>1. FsOK(nefs)' <=> FsOK(nefs)
  BY DEF FsOK, NefsState, InodeType, Pointers, Device, Free, Unshared, UsedIsPointedTo, NoBlockWhenFull, Places, AtIn
<1>2. Kept(nefs, written)' <=> Kept(nefs, written)
  <2>1. \A j, b : Lookup(nefs, j, b)' = Lookup(nefs, j, b)
    BY DEF Lookup, PtrEntry
  <2> QED BY <2>1 DEF Kept, KeptAt, Device, Free
<1> QED BY <1>1, <1>2 DEF NefsInv

LEMMA NefsStep == NefsInv /\ [NefsNext]_nefsVars => NefsInv'
<1> SUFFICES ASSUME NefsInv, [NefsNext]_nefsVars PROVE NefsInv'
  OBVIOUS
<1>1. CASE nefs_create_file
  BY <1>1, CreateStep
<1>2. ASSUME NEW i \in Inodes, NEW k \in FileBlocks \cup {Cardinality(FileBlocks)}, NEW len \in 1..2,
             nefs_write_file(i, k, len)
      PROVE  NefsInv'
  <2>1. k \in Nat
    <3>1. IsFiniteSet(FileBlocks) /\ FileBlocks \subseteq Nat
      <4>1. 0 \in Int /\ NDirect + PtrsPerBlock + PtrsPerBlock * PtrsPerBlock - 1 \in Int
        BY NefsAssumption
      <4> QED BY <4>1, FS_Interval DEF FileBlocks
    <3>2. Cardinality(FileBlocks) \in Nat
      BY <3>1, FS_CardinalityType
    <3> QED BY <3>1, <3>2
  <2> QED BY <1>2, <2>1, WriteStep
<1>3. CASE UNCHANGED nefsVars
  BY <1>3, NefsUnchangedInv
<1> QED BY <1>1, <1>2, <1>3 DEF NefsNext

LEMMA NefsInvSuffices == NefsInv => NefsCorrect
<1> SUFFICES ASSUME NefsInv PROVE NefsCorrect
  OBVIOUS
<1>1. FsOK(nefs) /\ nefs \in NefsState
  BY DEF NefsInv, FsOK
<1>2. NefsTypeOK
  <2>1. nefs.used \subseteq 1..data_blocks /\ nefs.ptrs \in [1..data_blocks -> [Words -> Pointers]]
    BY <1>1 DEF NefsState, Device
  <2>2. ASSUME NEW i \in Inodes PROVE {nefs.inode[i].indirect, nefs.inode[i].double} \subseteq Pointers
    <3>1. nefs.inode[i] \in InodeType
      BY <1>1 DEF NefsState
    <3> QED BY <3>1 DEF InodeType
  <2> QED BY <1>1, <2>1, <2>2 DEF NefsTypeOK, NefsInv, FsOK
<1>3. \A p \in Places : At(p) = AtIn(nefs, p) /\ (At(p) \notin {0, NoBlock} <=> At(p) \in Device)
  <2> SUFFICES ASSUME NEW p \in Places PROVE At(p) = AtIn(nefs, p) /\ (At(p) \notin {0, NoBlock} <=> At(p) \in Device)
    OBVIOUS
  <2>1. At(p) = AtIn(nefs, p)
    <3>1. ASSUME NEW i \in Inodes, NEW k \in 0 .. NDirect - 1, p = <<"direct", i, k>> PROVE At(p) = AtIn(nefs, p)
      BY <3>1 DEF At, AtIn
    <3>2. ASSUME NEW i \in Inodes, p = <<"indirect", i, 0>> PROVE At(p) = AtIn(nefs, p)
      BY <3>2 DEF At, AtIn
    <3>3. ASSUME NEW i \in Inodes, p = <<"double", i, 0>> PROVE At(p) = AtIn(nefs, p)
      BY <3>3 DEF At, AtIn
    <3>4. ASSUME NEW b \in Device, NEW w \in Words, p = <<"block", b, w>> PROVE At(p) = AtIn(nefs, p)
      BY <3>4 DEF At, AtIn
    <3> QED BY <3>1, <3>2, <3>3, <3>4, PlaceForms
  <2>2. AtIn(nefs, p) \in Pointers
    BY <1>1, AtTyped
  <2> QED BY <2>1, <2>2, PointersAre
<1>4. BlocksUnshared
  <2> DEFINE taken == {p \in Places : At(p) \notin {0, NoBlock}}
  <2>1. /\ orphans \subseteq Device /\ \A p \in Places : AtIn(nefs, p) \notin orphans
        /\ \A b \in Device : b \in nefs.used <=> b \in orphans \/ \E p \in Places : AtIn(nefs, p) = b
    BY <1>1 DEF FsOK, UsedIsPointedTo
  <2>2. nefs.used \subseteq Device
    BY <1>1 DEF NefsState
  <2>3. nefs.used = orphans \cup {At(p) : p \in taken}
    BY <1>3, <2>1, <2>2
  <2>4. ASSUME NEW b \in nefs.used, b \notin orphans PROVE Cardinality({p \in taken : At(p) = b}) = 1
    <3>1. PICK q \in taken : At(q) = b
      BY <2>3, <2>4
    <3>2. {p \in taken : At(p) = b} = {q}
      BY <1>1, <1>3, <2>2, <3>1 DEF FsOK, Unshared
    <3> QED BY <3>2, FS_Singleton
  <2>5. ASSUME NEW b \in orphans PROVE Cardinality({p \in taken : At(p) = b}) = 0
    <3>1. {p \in taken : At(p) = b} = {}
      BY <1>3, <2>1
    <3> QED BY <3>1, FS_EmptySet
  <2> QED BY <2>3, <2>4, <2>5 DEF BlocksUnshared
<1>5. ReadsBackUnlessFull
  <2> SUFFICES ASSUME NEW i \in Inodes, NEW k \in FileBlocks, written[i][k] # 0, nefs_read_file(i, k) # written[i][k]
               PROVE  nefs_read_file(i, k) \in {Garbage, Short} /\ nefs.free_blocks = 0
    BY DEF ReadsBackUnlessFull
  <2> DEFINE b == Lookup(nefs, i, k)
  <2>1. nefs_read_file(i, k) = IF k >= nefs.inode[i].size \/ b = 0 THEN Short
                               ELSE IF b = NoBlock THEN Garbage ELSE nefs.data[b]
    BY ReaderFinds DEF nefs_read_file
  <2>2. ~(k >= nefs.inode[i].size)
    <3>1. nefs.inode[i] \in InodeType
      BY <1>1 DEF NefsState
    <3>2. k \in Nat /\ nefs.inode[i].size \in Nat
      BY <3>1, NefsAssumption DEF FileBlocks, InodeType
    <3> QED BY <3>2 DEF NefsInv
  <2>3. b \in Pointers
    BY <1>1, LookupTyped
  <2>4. KeptAt(nefs, i, k, written[i][k])
    BY DEF NefsInv, Kept
  <2>5. b \notin Device /\ Free(nefs) = {}
    BY <2>1, <2>2, <2>4, PointersAre DEF KeptAt
  <2>6. nefs.free_blocks = 0
    BY <1>1, <2>5, FS_EmptySet DEF FsOK
  <2> QED BY <2>1, <2>3, <2>5, <2>6, PointersAre
<1> QED BY <1>2, <1>4, <1>5 DEF NefsCorrect

\* For every device, width of the pointer levels, set of inodes and size of
\* their table: until an inode is used that lies in a block got for a file,
\* files do not share blocks, all that is allocated is counted, and reachable
\* unless its inode was created after it was written, and a block that
\* nefs_write_file wrote reads back unless the device is full.
THEOREM NefsStaysCorrect == NefsSpec => []NefsCorrect
<1>1. NefsInv /\ [NefsNext]_nefsVars => NefsInv'
  BY NefsStep
<1> QED BY NefsInitInv, NefsInvSuffices, <1>1, PTL DEF NefsSpec
====
