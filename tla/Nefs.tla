---- MODULE Nefs ----
(***************************************************************************)
(* NEFS, the file system for large devices: fs/src/nefs.  A file finds its *)
(* blocks through NDirect direct pointers, an indirect and a double        *)
(* indirect block; 0 is no block, and NoBlock, (block_t)-1, is what        *)
(* alloc_block answers when none is free: reading and writing it fails,    *)
(* and nobody looks.  Blocks are never freed.                              *)
(*                                                                         *)
(* One life of the file system, from nefs_format on an image that reads as *)
(* zeros to nefs_unmount: nefs_mount reads a block into the smaller        *)
(* superblock and never reads the bitmaps, so nothing after it is defined. *)
(* Offsets and lengths are in blocks; blocks are numbered from             *)
(* alloc_block's first one, 10000 in the code, from 1 here; the table of   *)
(* inodes is the TableBlocks before it, and goes on into them when there   *)
(* are more inodes (total_inodes is an eighth of the blocks).  What is     *)
(* read and written once an inode and a block share a place depends on     *)
(* their bytes; the model ends there (Overlaid).  Checksums and times are  *)
(* left out.                                                               *)
(***************************************************************************)
EXTENDS Integers, FiniteSets

CONSTANTS
    NDirect,         \* 12
    PtrsPerBlock,    \* ptrs_per_block
    NefsDevices,     \* numbers of data blocks to try
    Inodes,          \* 0 .. total_inodes - 1
    InodesPerBlock,  \* inodes_per_block
    TableBlocks,     \* 10000 - inode_table_block, before the first data block
    MaxWrites        \* bound on nefs_write_file

ASSUME NefsAssumption ==
    /\ NDirect \in Nat /\ PtrsPerBlock \in Nat \ {0}
    /\ NefsDevices \subseteq Nat /\ MaxWrites \in Nat
    /\ Inodes \subseteq Nat /\ 0 \in Inodes
    /\ InodesPerBlock \in Nat \ {0} /\ TableBlocks \in Nat

VARIABLES
    data_blocks,     \* of the device: fixed
    created,         \* inodes in the bitmap
    nefs,            \* the image, with the bitmap of blocks and their count
    written,         \* history: [inode -> [block of the file -> last write]]
    touched,         \* history: inodes written to the device
    orphans,         \* history: blocks whose pointers in an inode were overwritten
    writes

nefsVars == <<data_blocks, created, nefs, written, touched, orphans, writes>>

NoBlock == -1
Words == 0 .. PtrsPerBlock - 1
Zeros == [w \in Words |-> 0]
FileBlocks == 0 .. NDirect + PtrsPerBlock + PtrsPerBlock * PtrsPerBlock - 1

\* The block that inode i is in; those of the table proper are not above 0.
InodeBlock(i) == (i \div InodesPerBlock) - TableBlocks + 1

\* An inode on the device lies in a block that a file or its pointers have got.
Overlaid == \E i \in touched : InodeBlock(i) \in nefs.used

NewInode == [size |-> 0, direct |-> [i \in 0 .. NDirect - 1 |-> 0], indirect |-> 0, double |-> 0]

\* ptrs holds what a block was written as a block of pointers, data what it
\* was written as a block of a file: the number of the write, 0 for none.
nefs_format ==
    /\ data_blocks \in NefsDevices
    /\ created = {0}
    /\ nefs = [inode |-> [i \in Inodes |-> NewInode],
               used |-> {}, free_blocks |-> data_blocks,
               ptrs |-> [b \in 1..data_blocks |-> Zeros],
               data |-> [b \in 1..data_blocks |-> 0]]
    /\ written = [i \in Inodes |-> [k \in FileBlocks |-> 0]]
    /\ touched = {} /\ orphans = {}
    /\ writes = 0

----------------------------------------------------------------------------
(***************************************************************************)
(* Blocks.  An operator that may allocate returns the block, blk, with the *)
(* file system, fs.                                                        *)
(***************************************************************************)
Free(fs) == (1..data_blocks) \ fs.used

nefs_alloc_block(fs) ==
    IF Free(fs) = {} THEN [blk |-> NoBlock, fs |-> fs]
    ELSE LET b == CHOOSE b \in Free(fs) : \A c \in Free(fs) : b <= c IN
         [blk |-> b, fs |-> [fs EXCEPT !.used = @ \cup {b}, !.free_blocks = @ - 1]]

Known(blk, fs) == [blk |-> blk, fs |-> fs]

\* Entry w of the block of pointers b.
PtrEntry(fs, b, w) == IF b \in 1..data_blocks THEN fs.ptrs[b][w] ELSE 0

\* Mutant: the block of pointers is not written back.
SetPtrEntry_forgotten(fs, b, w, p) == fs

SetPtrEntry(fs, b, w, p) == IF b \in 1..data_blocks THEN [fs EXCEPT !.ptrs[b][w] = p] ELSE fs

\* A direct, indirect or double indirect pointer of inode i.
InodePtr(fs, i, field, alloc) ==
    IF ~alloc \/ fs.inode[i][field] # 0 THEN Known(fs.inode[i][field], fs)
    ELSE LET r == nefs_alloc_block(fs) IN Known(r.blk, [r.fs EXCEPT !.inode[i][field] = r.blk])

DirectPtr(fs, i, k, alloc) ==
    IF ~alloc \/ fs.inode[i].direct[k] # 0 THEN Known(fs.inode[i].direct[k], fs)
    ELSE LET r == nefs_alloc_block(fs) IN Known(r.blk, [r.fs EXCEPT !.inode[i].direct[k] = r.blk])

\* The block that entry w of b points to.
Through(b, fs, w, alloc) ==
    IF ~alloc \/ PtrEntry(fs, b, w) # 0 THEN Known(PtrEntry(fs, b, w), fs)
    ELSE LET r == nefs_alloc_block(fs) IN Known(r.blk, SetPtrEntry(r.fs, b, w, r.blk))

\* The block for word w of the block that a pointer block r was found for.
Below(r, w, alloc) == Through(r.blk, r.fs, w, alloc)

get_block_at_offset(fs, i, k, alloc) ==
    LET k1 == k - NDirect
        k2 == k1 - PtrsPerBlock IN
    CASE k1 < 0 -> DirectPtr(fs, i, k, alloc)
      [] k1 \in Words -> Below(InodePtr(fs, i, "indirect", alloc), k1, alloc)
      [] k2 >= 0 /\ k2 < PtrsPerBlock * PtrsPerBlock ->
            Below(Below(InodePtr(fs, i, "double", alloc), k2 \div PtrsPerBlock, alloc), k2 % PtrsPerBlock, alloc)
      [] OTHER -> Known(0, fs)

----------------------------------------------------------------------------
(***************************************************************************)
(* Operations                                                              *)
(***************************************************************************)
InodePointers(i) ==
    ({nefs.inode[i].direct[k] : k \in 0 .. NDirect - 1} \cup {nefs.inode[i].indirect, nefs.inode[i].double})
        \ {0, NoBlock}

\* alloc_inode takes the lowest one that is free.  The new inode replaces what
\* nefs_write_file, which does not look at the bitmap, may have put there.
nefs_create_file ==
    /\ ~Overlaid
    /\ \E i \in Inodes \ created :
          /\ \A j \in Inodes \ created : i <= j
          /\ created' = created \cup {i}
          /\ nefs' = [nefs EXCEPT !.inode[i] = NewInode]
          /\ written' = [written EXCEPT ![i] = [k \in FileBlocks |-> 0]]
          /\ touched' = touched \cup {i}
          /\ orphans' = orphans \cup InodePointers(i)
    /\ UNCHANGED <<data_blocks, writes>>

WriteBlock(fs, b, v) == IF b \in 1..data_blocks THEN [fs EXCEPT !.data[b] = v] ELSE fs

\* Blocks k .. k + len - 1, one after the other, until there is none for an
\* offset; the file then ends at the offset reached.
OneBlock(s, r, v) ==
    IF r.blk = 0 THEN [s EXCEPT !.stop = TRUE]
    ELSE [s EXCEPT !.fs = WriteBlock(r.fs, r.blk, v), !.written = @ + 1]

WriteNext(s, i, k, v) ==
    IF s.stop THEN s ELSE OneBlock(s, get_block_at_offset(s.fs, i, k + s.written, TRUE), v)
WriteFrom(fs, i, k, len, v) ==
    LET upto[n \in 0..len] == IF n = 0 THEN [fs |-> fs, written |-> 0, stop |-> FALSE]
                              ELSE WriteNext(upto[n - 1], i, k, v)
    IN upto[len]

\* ino is the caller's; nothing asks whether it was created.
nefs_write_file(i, k, len) ==
    /\ ~Overlaid /\ writes < MaxWrites
    /\ writes' = writes + 1
    /\ touched' = touched \cup {i}
    /\ \E s \in {WriteFrom(nefs, i, k, len, writes + 1)} : LET end == k + s.written IN
       /\ nefs' = [s.fs EXCEPT !.inode[i].size = IF end > @ THEN end ELSE @]
       /\ written' = [written EXCEPT ![i] = [b \in FileBlocks |->
                         IF b >= k /\ b < end THEN writes + 1 ELSE written[i][b]]]
    /\ UNCHANGED <<data_blocks, created, orphans>>

\* What nefs_read_file finds in block k of inode i: the number of the write,
\* or Short where it ends before it.  A block that cannot be read leaves the
\* uninitialized buffer in the answer, Garbage.
Short == -1
Garbage == -2

nefs_read_file(i, k) ==
    LET b == get_block_at_offset(nefs, i, k, FALSE).blk IN
    IF k >= nefs.inode[i].size \/ b = 0 THEN Short
    ELSE IF b = NoBlock THEN Garbage ELSE nefs.data[b]

NefsNext ==
    \/ nefs_create_file
    \/ \E i \in Inodes, k \in FileBlocks \cup {Cardinality(FileBlocks)}, len \in 1..2 :
          nefs_write_file(i, k, len)

NefsSpec == nefs_format /\ [][NefsNext]_nefsVars

----------------------------------------------------------------------------
(***************************************************************************)
(* Properties                                                              *)
(***************************************************************************)
Pointers == {0, NoBlock} \cup (1..data_blocks)

\* Type invariant; the count of free blocks agrees with the bitmap.
NefsTypeOK ==
    /\ created \subseteq Inodes /\ touched \subseteq Inodes /\ writes \in 0..MaxWrites
    /\ nefs.used \subseteq 1..data_blocks
    /\ nefs.free_blocks = Cardinality(Free(nefs))
    /\ nefs.ptrs \in [1..data_blocks -> [Words -> Pointers]]
    /\ \A i \in Inodes : {nefs.inode[i].indirect, nefs.inode[i].double} \subseteq Pointers

\* Where a pointer to a block can stand: in an inode or in a block of pointers.
Places == ({"direct"} \X Inodes \X (0 .. NDirect - 1)) \cup ({"indirect", "double"} \X Inodes \X {0})
              \cup ({"block"} \X (1..data_blocks) \X Words)
At(p) == CASE p[1] = "direct" -> nefs.inode[p[2]].direct[p[3]]
           [] p[1] \in {"indirect", "double"} -> nefs.inode[p[2]][p[1]]
           [] p[1] = "block" -> nefs.ptrs[p[2]][p[3]]

\* No block of the device belongs to two files, to two places of one, or to
\* the data and the pointers at once; and every allocated block is reachable,
\* but for those of a file written before its inode was created.
BlocksUnshared ==
    LET taken == {p \in Places : At(p) \notin {0, NoBlock}} IN
    /\ \A b \in nefs.used : Cardinality({p \in taken : At(p) = b}) = IF b \in orphans THEN 0 ELSE 1
    /\ nefs.used = orphans \cup {At(p) : p \in taken}

\* A block that was written, by a call that said so, reads back as the last
\* write, across every level of pointers, unless the device was full; and it
\* is lost only then.
ReadsBackUnlessFull ==
    \A i \in Inodes, k \in FileBlocks :
        written[i][k] # 0 /\ nefs_read_file(i, k) # written[i][k] =>
            /\ nefs_read_file(i, k) \in {Garbage, Short}
            /\ nefs.free_blocks = 0

\* Files keep what was written, in blocks of their own, as long as no inode
\* lies in one of them.
NefsCorrect == NefsTypeOK /\ (~Overlaid => BlocksUnshared /\ ReadsBackUnlessFull)
====
