---- MODULE Wm2ud ----
(***************************************************************************)
(* WM2UD, the swap partition: fs/src/wm2ud.  Pages are found through a     *)
(* hash table with linear probing; a slot is empty when its physical_block *)
(* is 0.  Addresses are counted in pages.  A page is the pair of the       *)
(* address it was written for and a version, so that pages can be told     *)
(* apart.  The device does not fail.                                       *)
(***************************************************************************)
EXTENDS Integers, FiniteSets

CONSTANTS
    page_table_size,
    SwapDevices,     \* numbers of blocks a device may have
    SwapAddresses,
    SwapVersions,
    MaxSeconds       \* bound on time(NULL)

\* A device of one block has no block for a page; alloc_block and lru_evict
\* would both answer 0 there.
ASSUME SwapAssumption ==
    /\ page_table_size \in Nat \ {0}
    /\ SwapDevices \subseteq Nat \ {0, 1}
    /\ SwapAddresses \subseteq Nat /\ 0 \notin SwapVersions
    /\ MaxSeconds \in Nat

VARIABLES
    swap_up,         \* between wm2ud_format and wm2ud_unmount
    total_blocks,    \* of the device: fixed
    page_table,
    free_pages,
    swap_disk,       \* contents of blocks 1 .. total_blocks - 1
    seconds,         \* time(NULL)
    spinning,        \* a probe loop has no slot to stop at
    latest,          \* history: version last written to each address, 0 for none
    holes            \* history: an entry was freed or evicted since the format

swapVars == <<swap_up, total_blocks, page_table, free_pages, swap_disk, seconds,
              spinning, latest, holes>>

Slots == 0 .. page_table_size - 1
DataBlocks == 1 .. total_blocks - 1

\* calloc: block 0 is no block.
Blank == [virtual_addr |-> 0, physical_block |-> 0, last_access |-> 0]
EmptyTable == [i \in Slots |-> Blank]

SwapInit ==
    /\ swap_up = FALSE
    /\ total_blocks \in SwapDevices
    /\ page_table = EmptyTable
    /\ free_pages = 0
    /\ swap_disk = [b \in DataBlocks |-> << >>]
    /\ seconds = 0
    /\ spinning = FALSE
    /\ latest = [a \in SwapAddresses |-> 0]
    /\ holes = FALSE

Used == {i \in Slots : page_table[i].physical_block # 0}

----------------------------------------------------------------------------
(***************************************************************************)
(* Format and unmount.  Neither writes the superblock to block 0, so       *)
(* wm2ud_mount finds no magic number and always returns NULL: a device is  *)
(* used again by formatting it again.                                      *)
(***************************************************************************)
FormatWith(table, count) ==
    /\ ~swap_up
    /\ swap_up' = TRUE
    /\ page_table' = table
    /\ free_pages' = count
    /\ latest' = [a \in SwapAddresses |-> 0]
    /\ holes' = FALSE
    /\ UNCHANGED <<total_blocks, swap_disk, seconds, spinning>>

wm2ud_format == FormatWith(EmptyTable, total_blocks - 1)

wm2ud_unmount ==
    /\ swap_up /\ ~spinning
    /\ swap_up' = FALSE
    /\ UNCHANGED <<total_blocks, page_table, free_pages, swap_disk, seconds, spinning,
                   latest, holes>>

----------------------------------------------------------------------------
(***************************************************************************)
(* Pages                                                                   *)
(***************************************************************************)
hash_addr(a) == a % page_table_size

\* How many slots the probe of address a passes before slot i.
ProbeDistance(a, i) == (i - hash_addr(a)) % page_table_size

\* All three loops stop at the first empty slot or slot of the address.
Stops(a) == {i \in Slots : page_table[i].physical_block = 0 \/ page_table[i].virtual_addr = a}

Probe(a) == CHOOSE i \in Stops(a) :
                \A j \in Stops(a) : ProbeDistance(a, i) <= ProbeDistance(a, j)

Found(a) == Stops(a) # {} /\ page_table[Probe(a)].physical_block # 0

FreeBlocks == DataBlocks \ {page_table[i].physical_block : i \in Slots}

\* alloc_block returns the lowest block that no entry names.
alloc_block == CHOOSE b \in FreeBlocks : \A c \in FreeBlocks : b <= c

\* The used entry with the oldest access, the lowest of several.
Older(i, j) ==
    \/ page_table[i].last_access < page_table[j].last_access
    \/ page_table[i].last_access = page_table[j].last_access /\ i <= j

lru_evict == CHOOSE i \in Used : \A j \in Used : Older(i, j)

Entry(a, b) == [virtual_addr |-> a, physical_block |-> b, last_access |-> seconds]

StoreAt(b, a, v) ==
    /\ swap_disk' = [swap_disk EXCEPT ![b] = <<a, v>>]
    /\ latest' = [latest EXCEPT ![a] = v]

\* The address has an entry: its block is overwritten.
Rewrite(a, v) ==
    /\ Found(a)
    /\ StoreAt(page_table[Probe(a)].physical_block, a, v)
    /\ page_table' = [page_table EXCEPT ![Probe(a)].last_access = seconds]
    /\ UNCHANGED <<free_pages, holes>>

\* A new entry, with a block nobody uses.
WriteNew(a, v) ==
    /\ ~Found(a) /\ Stops(a) # {} /\ FreeBlocks # {}
    /\ StoreAt(alloc_block, a, v)
    /\ page_table' = [page_table EXCEPT ![Probe(a)] = Entry(a, alloc_block)]
    /\ free_pages' = free_pages - 1
    /\ UNCHANGED holes

WriteEvict_keeping_victim(a, v) ==
    /\ ~Found(a) /\ Stops(a) # {} /\ FreeBlocks = {}
    /\ LET b == page_table[lru_evict].physical_block IN
       /\ StoreAt(b, a, v)
       /\ page_table' = [page_table EXCEPT ![Probe(a)] = Entry(a, b)]
    /\ holes' = TRUE
    /\ UNCHANGED free_pages

\* A new entry, with the block of the least recently used page.
WriteEvict(a, v) ==
    /\ ~Found(a) /\ Stops(a) # {} /\ FreeBlocks = {}
    /\ LET b == page_table[lru_evict].physical_block IN
       /\ StoreAt(b, a, v)
       /\ page_table' = [page_table EXCEPT ![lru_evict].physical_block = 0,
                                           ![Probe(a)] = Entry(a, b)]
    /\ holes' = TRUE
    /\ UNCHANGED free_pages

wm2ud_write_page(a, v) ==
    /\ swap_up /\ ~spinning
    /\ Rewrite(a, v) \/ WriteNew(a, v) \/ WriteEvict(a, v)
    /\ UNCHANGED <<swap_up, total_blocks, seconds, spinning>>

\* A read changes only the time of access.
wm2ud_read_page(a) ==
    /\ swap_up /\ ~spinning /\ Found(a)
    /\ page_table' = [page_table EXCEPT ![Probe(a)].last_access = seconds]
    /\ UNCHANGED <<swap_up, total_blocks, free_pages, swap_disk, seconds, spinning, latest, holes>>

wm2ud_free_page(a) ==
    /\ swap_up /\ ~spinning /\ Found(a)
    /\ page_table' = [page_table EXCEPT ![Probe(a)].physical_block = 0,
                                        ![Probe(a)].virtual_addr = 0]
    /\ free_pages' = free_pages + 1
    /\ latest' = [latest EXCEPT ![a] = 0]
    /\ holes' = TRUE
    /\ UNCHANGED <<swap_up, total_blocks, swap_disk, seconds, spinning>>

\* Whatever the operation, its probe never ends.
ProbeForever(a) ==
    /\ swap_up /\ ~spinning /\ Stops(a) = {}
    /\ spinning' = TRUE
    /\ UNCHANGED <<swap_up, total_blocks, page_table, free_pages, swap_disk, seconds, latest, holes>>

SecondPasses ==
    /\ swap_up /\ seconds < MaxSeconds
    /\ seconds' = seconds + 1
    /\ UNCHANGED <<swap_up, total_blocks, page_table, free_pages, swap_disk, spinning, latest, holes>>

SwapNext ==
    \/ wm2ud_format \/ wm2ud_unmount \/ SecondPasses
    \/ \E a \in SwapAddresses :
          \/ \E v \in SwapVersions : wm2ud_write_page(a, v)
          \/ wm2ud_read_page(a) \/ wm2ud_free_page(a) \/ ProbeForever(a)

SwapSpec == SwapInit /\ [][SwapNext]_swapVars

----------------------------------------------------------------------------
SwapTypeOK ==
    /\ swap_up \in BOOLEAN /\ spinning \in BOOLEAN /\ holes \in BOOLEAN
    /\ total_blocks \in SwapDevices
    /\ page_table \in [Slots -> [virtual_addr : SwapAddresses \cup {0},
                                 physical_block : 0 .. total_blocks - 1,
                                 last_access : 0 .. MaxSeconds]]
    /\ free_pages \in 0 .. total_blocks - 1
    /\ swap_disk \in [DataBlocks -> {<< >>} \cup (SwapAddresses \X SwapVersions)]
    /\ seconds \in 0 .. MaxSeconds
    /\ latest \in [SwapAddresses -> SwapVersions \cup {0}]

\* However slots are freed, evicted and filled again, a used slot has a block
\* of its own that holds a page written for its address: a process is never
\* given the page of another address.
NoForeignPage ==
    \A i \in Used :
        /\ swap_disk[page_table[i].physical_block][1] = page_table[i].virtual_addr
        /\ \A j \in Used :
              page_table[i].physical_block = page_table[j].physical_block => i = j

\* free_pages, which alloc_block, wm2ud_free_page and the eviction count in
\* three places, is the number of blocks without an entry.
FreePagesCounted == swap_up => free_pages = Cardinality(FreeBlocks)

\* Until an entry is freed or evicted, wm2ud_read_page finds the page last
\* written.  Afterwards the gap hides the entries behind it: a page can be
\* lost, or an older version of it come back.
ReadsLatestWithoutHoles ==
    swap_up /\ ~holes => \A a \in SwapAddresses :
        IF latest[a] = 0 THEN ~Found(a)
        ELSE Found(a) /\ swap_disk[page_table[Probe(a)].physical_block] = <<a, latest[a]>>

\* A probe runs for ever only on a device with at least as many blocks as the
\* table has slots; with fewer, an empty slot always ends it.
SpinsOnLargeDevices == spinning => total_blocks > page_table_size

\* The swap as a whole: pages are never confused, counted wrongly, lost without
\* a hole or searched for ever without a full table.
SwapCorrect ==
    SwapTypeOK /\ NoForeignPage /\ FreePagesCounted /\ ReadsLatestWithoutHoles /\ SpinsOnLargeDevices
====
