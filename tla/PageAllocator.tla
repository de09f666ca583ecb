---- MODULE PageAllocator ----
(***************************************************************************)
(* Physical pages and page tables of the kernel: src/mm/mm.c, and the hint *)
(* reset that src/kernel/main.c does every hundredth turn of its loop.     *)
(*                                                                         *)
(* Addresses are counted in pages: a frame is MEMORY_START + i for the     *)
(* page index i of the bitmap, so frame 0 is the null pointer of the code. *)
(* init_page_tables is a loop of allocations.  Each allocation is a step,  *)
(* and no other operation is enabled before the function that called it    *)
(* returns: the only interrupt the kernel serves, the timer, does not      *)
(* touch this state.                                                       *)
(***************************************************************************)
EXTENDS Integers, FiniteSets

CONSTANTS
    MAX_PAGES,     \* bits of page_bitmap
    MEMORY_START,  \* frame of page index 0
    NTABLES,       \* page tables of the supported virtual range
    ENTRIES,       \* entries of one page table
    FRAMES,        \* frames an entry can name, in or out of the managed memory
    FlagFrames,    \* address bits in the flags words of the callers
    WithFlags(_, _)  \* the frame of physical_addr | flags

ASSUME MaxPagesAssumption == MAX_PAGES \in Nat \ {0}
ASSUME MemoryStartAssumption == MEMORY_START \in Nat \ {0}
ASSUME TablesAssumption == NTABLES \in Nat \ {0} /\ ENTRIES \in Nat \ {0}
ASSUME FramesAssumption ==
    /\ FRAMES \in Nat /\ MEMORY_START + MAX_PAGES <= FRAMES
    /\ FlagFrames \subseteq 0 .. FRAMES - 1
ASSUME FlagsAssumption ==
    /\ \A f, b \in 0 .. FRAMES - 1 : WithFlags(f, b) \in 0 .. FRAMES - 1
    /\ \A f \in 0 .. FRAMES - 1 : WithFlags(f, 0) = f

VARIABLES
    used,           \* page indices whose bit is set in page_bitmap
    next_free_page, \* the allocation hint
    held,           \* page indices mm_alloc_page gave to callers outside mm.c
    page_directory, \* frame of the directory, 0 before it is allocated
    page_tables,    \* frame of each page table, 0 before it is allocated
    page_tables_initialized,
    pde,            \* content of the directory: the frame of each table
    pte,            \* content of the tables: the frame of each virtual page
    cr3,            \* the directory the CPU walks, 0 while paging is off
    call,           \* the function of mm.c that is executing
    i,              \* loop index of init_page_tables, -1 before its loop
    args,           \* <<virtual, physical, flags>> of mm_map_page, in pages
    strayed         \* history: virtual pages last mapped with address bits in
                    \* their flags

vars == <<used, next_free_page, held, page_directory, page_tables,
          page_tables_initialized, pde, pte, cr3, call, i, args, strayed>>

NULL == 0
Pages == 0 .. MAX_PAGES - 1
Tables == 0 .. NTABLES - 1
VirtualPages == 0 .. NTABLES * ENTRIES - 1

\* The address mm_alloc_page returns for a page index.
Frame(p) == MEMORY_START + p
Managed == MEMORY_START .. MEMORY_START + MAX_PAGES - 1

\* Arguments of mm_map_page, both ranges one page too wide on each side
\* where the code has a bound to check; nothing masks the flags (SYS_ADDRESS_MAP
\* passes its third argument on), so they may hold bits of an address.
MapArgs ==
    (0 .. NTABLES * ENTRIES) \X (0 .. MEMORY_START + MAX_PAGES) \X FlagFrames

(***************************************************************************)
(* mm_alloc_page: first free page at or above the hint.                    *)
(***************************************************************************)
FreeFrom == {p \in next_free_page .. MAX_PAGES - 1 : p \notin used}

mm_alloc_page_bit_lost(p) ==
    /\ p \in FreeFrom /\ \A q \in FreeFrom : p <= q
    /\ used' = used
    /\ next_free_page' = p + 1

mm_alloc_page(p) ==
    /\ p \in FreeFrom /\ \A q \in FreeFrom : p <= q
    /\ used' = used \cup {p}
    /\ next_free_page' = p + 1

OutOfMemory == FreeFrom = {} /\ UNCHANGED <<used, next_free_page>>

(***************************************************************************)
(* mm_free_page: addresses outside the managed range are ignored.          *)
(***************************************************************************)
mm_free_page_hint_raised(f) ==
    IF f \in Managed
    THEN LET p == f - MEMORY_START IN
         /\ used' = used \ {p}
         /\ next_free_page' = IF p > next_free_page THEN p ELSE next_free_page
    ELSE UNCHANGED <<used, next_free_page>>

mm_free_page(f) ==
    IF f \in Managed
    THEN LET p == f - MEMORY_START IN
         /\ used' = used \ {p}
         /\ next_free_page' = IF p < next_free_page THEN p ELSE next_free_page
    ELSE UNCHANGED <<used, next_free_page>>

----------------------------------------------------------------------------
\* Boot: static storage is zero and kernel_main's second phase has called
\* mm_enable_paging.
Init ==
    /\ used = {} /\ held = {} /\ next_free_page = 0
    /\ page_directory = NULL /\ page_tables = [t \in Tables |-> NULL]
    /\ page_tables_initialized = 0
    /\ pde = [t \in Tables |-> NULL] /\ pte = [v \in VirtualPages |-> NULL]
    /\ cr3 = NULL /\ call = "enable_paging" /\ i = -1 /\ args = <<0, 0, 0>>
    /\ strayed = {}

\* A caller outside mm.c takes a page (sched_create_thread's stack).
AllocPage ==
    /\ call = "idle"
    /\ \E p \in Pages : mm_alloc_page(p) /\ held' = held \cup {p}
    /\ UNCHANGED <<page_directory, page_tables, page_tables_initialized, pde,
                   pte, cr3, call, i, args, strayed>>

\* Callers free what they were given (mm.h), or an address the code ignores.
FreePage ==
    /\ call = "idle"
    /\ \E f \in {Frame(p) : p \in held} \cup {NULL, MEMORY_START + MAX_PAGES} :
          mm_free_page(f) /\ held' = held \ {f - MEMORY_START}
    /\ UNCHANGED <<page_directory, page_tables, page_tables_initialized, pde,
                   pte, cr3, call, i, args, strayed>>

\* kernel_main: above 80% the hint goes back to the first page.
CheckMemory ==
    /\ call = "idle"
    /\ Cardinality(used) > (MAX_PAGES * 80) \div 100
    /\ next_free_page' = 0
    /\ UNCHANGED <<used, held, page_directory, page_tables,
                   page_tables_initialized, pde, pte, cr3, call, i, args, strayed>>

CallMapPage ==
    /\ call = "idle"
    /\ args' \in MapArgs
    /\ call' = "map_page"
    /\ UNCHANGED <<used, next_free_page, held, page_directory, page_tables,
                   page_tables_initialized, pde, pte, cr3, i, strayed>>

----------------------------------------------------------------------------
(***************************************************************************)
(* init_page_tables, run by mm_enable_paging and mm_map_page.              *)
(***************************************************************************)
NeedsInit_always == call # "idle" /\ i < NTABLES

NeedsInit == call # "idle" /\ page_tables_initialized = 0

InitDirectory ==
    /\ NeedsInit /\ i = -1
    /\ \/ /\ \E p \in Pages : mm_alloc_page(p) /\ page_directory' = Frame(p)
          /\ pde' = [t \in Tables |-> NULL]
          /\ i' = 0 /\ UNCHANGED call
       \/ /\ OutOfMemory
          /\ page_directory' = NULL
          /\ call' = "idle" /\ UNCHANGED <<pde, i>>
    /\ UNCHANGED <<held, page_tables, page_tables_initialized, pte, cr3, args,
                   strayed>>

\* Table t maps its virtual range one to one, managed frames only.
IdentityEntry(v) == IF v \in Managed THEN v ELSE NULL
TableRange(t) == t * ENTRIES .. t * ENTRIES + ENTRIES - 1

InitTable ==
    /\ NeedsInit /\ i \in Tables
    /\ \/ /\ \E p \in Pages :
                /\ mm_alloc_page(p)
                /\ page_tables' = [page_tables EXCEPT ![i] = Frame(p)]
                /\ pde' = [pde EXCEPT ![i] = Frame(p)]
          /\ pte' = [v \in VirtualPages |->
                        IF v \in TableRange(i) THEN IdentityEntry(v) ELSE pte[v]]
          /\ strayed' = strayed \ TableRange(i)
          /\ i' = i + 1
          /\ page_tables_initialized' = IF i = NTABLES - 1 THEN 1 ELSE 0
          /\ UNCHANGED call
       \/ /\ OutOfMemory
          /\ page_tables' = [page_tables EXCEPT ![i] = NULL]
          /\ call' = "idle" /\ i' = -1
          /\ UNCHANGED <<page_tables_initialized, pde, pte, strayed>>
    /\ UNCHANGED <<held, page_directory, cr3, args>>

\* mm_enable_paging after a successful initialisation.
EnablePaging ==
    /\ call = "enable_paging" /\ page_tables_initialized = 1
    /\ cr3' = page_directory
    /\ call' = "idle" /\ i' = -1
    /\ UNCHANGED <<used, next_free_page, held, page_directory, page_tables,
                   page_tables_initialized, pde, pte, args, strayed>>

\* mm_map_page after the tables exist: both addresses are validated.
Mappable(v, f) ==
    /\ f \in Managed
    /\ v < NTABLES * ENTRIES
    /\ page_tables[v \div ENTRIES] # NULL

MapPage ==
    /\ call = "map_page" /\ page_tables_initialized = 1
    /\ LET v == args[1]  f == args[2]  flags == args[3]
       IN  IF Mappable(v, f)
           THEN /\ pte' = [pte EXCEPT ![v] = WithFlags(f, flags)]
                /\ strayed' = IF flags = 0 THEN strayed \ {v} ELSE strayed \cup {v}
           ELSE UNCHANGED <<pte, strayed>>
    /\ call' = "idle" /\ i' = -1 /\ args' = <<0, 0, 0>>
    /\ UNCHANGED <<used, next_free_page, held, page_directory, page_tables,
                   page_tables_initialized, pde, cr3>>

Next ==
    \/ AllocPage \/ FreePage \/ CheckMemory \/ CallMapPage
    \/ InitDirectory \/ InitTable \/ EnablePaging \/ MapPage

Spec == Init /\ [][Next]_vars

----------------------------------------------------------------------------
TypeOK ==
    /\ used \subseteq Pages
    /\ held \subseteq Pages
    /\ next_free_page \in 0 .. MAX_PAGES
    /\ page_directory \in Managed \cup {NULL}
    /\ page_tables \in [Tables -> Managed \cup {NULL}]
    /\ page_tables_initialized \in {0, 1}
    /\ pde \in [Tables -> Managed \cup {NULL}]
    /\ pte \in [VirtualPages -> Nat]
    /\ cr3 \in Managed \cup {NULL}
    /\ call \in {"idle", "enable_paging", "map_page"}
    /\ i \in -1 .. NTABLES
    /\ args \in Nat \X Nat \X (FlagFrames \cup {0})
    /\ strayed \subseteq VirtualPages

\* mm_alloc_page starts its scan at next_free_page and never looks below it.
\* Whatever sequence of allocations, frees and hint resets came before, it
\* reports "out of memory" only when every page is taken.
AllocFailsOnlyWhenFull == FreeFrom = {} => used = Pages

\* The page directory, each page table and each page a caller holds are
\* different pages, all marked in the bitmap: mm_alloc_page never hands out
\* a page somebody still uses, also after init_page_tables failed half way
\* and was retried.
NoPageSharedOrLost ==
    /\ {Frame(p) : p \in held} \cap
         ({page_directory} \cup {page_tables[t] : t \in Tables}) = {}
    /\ held \subseteq used
    /\ \A f \in ({page_directory} \cup {page_tables[t] : t \in Tables}) \ {NULL} :
          f - MEMORY_START \in used
    /\ \A t \in Tables : page_tables[t] # NULL =>
          /\ page_tables[t] # page_directory
          /\ \A u \in Tables \ {t} : page_tables[u] # page_tables[t]

\* While paging is on, the CPU walks the directory mm.c keeps, and every
\* entry of it points to the table mm_map_page writes to: a later call never
\* builds a second set of tables that the CPU does not see.
PagingWalksLiveTables ==
    cr3 # NULL =>
        /\ cr3 = page_directory
        /\ \A t \in Tables : page_tables[t] # NULL /\ pde[t] = page_tables[t]

\* mm_map_page validates the physical address and then ors the flags into it, so
\* it bounds what it maps for callers whose flags hold no bits of an address, and
\* only for them: a virtual page translates to memory outside the managed range
\* only while the call that mapped it last passed such bits.
StraysOnlyByFlags ==
    \A v \in VirtualPages : pte[v] \notin Managed \cup {NULL} => v \in strayed

\* Whatever was mapped, allocated and freed before, the CPU walks live tables
\* and reaches unmanaged memory only where a caller's flags held address bits.
PagingSafe == PagingWalksLiveTables /\ StraysOnlyByFlags
====
