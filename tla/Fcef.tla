---- MODULE Fcef ----
(***************************************************************************)
(* Executable files in the FCEF format: fcef_reader.c, fcef_writer.c and   *)
(* fcef_validator.c, the files eclc writes, and fcef-dump.  A file is a    *)
(* header and cells; a cell holds a table entry's worth of bytes, and any  *)
(* cell can be read as one.  Header fields and the fields of an entry are  *)
(* words that wrap (uint32_t), sizes in memory (size_t) are not.  A        *)
(* checksum is the contents it was made of.                                *)
(***************************************************************************)
EXTENDS Integers, Sequences, FiniteSets

CONSTANTS
    WORD,                  \* 2^32
    CellContents,          \* [offset, filesz, memsz, load]: what the bytes of a cell say as an entry
    HeaderAsEntry,         \* what the header's own bytes say
    UnsetWords,            \* words that eclc leaves in the header: where the tables are said to be
    MaxCells,
    MaxFileSteps           \* operations on the file in one behaviour

VARIABLES
    exe,                   \* the file on disk
    disk_state,            \* "any", "whole" after a save, "damaged" since
    handle,                \* the file in memory, << >> or one
    came_from,             \* disk_state when it was opened, "edited" since
    accepted,              \* fcef_validate has said yes to the handle as it is
    file_steps

fcefVars == <<exe, disk_state, handle, came_from, accepted, file_steps>>

W(x) == x % WORD

\* The cell i of the file, counted from the header.
CellAt(f, i) == IF i = 0 THEN HeaderAsEntry ELSE f.cells[i]
Crc(f) == {[f EXCEPT !.crc = {}]}

-----------------------------------------------------------------------------
(* fcef_validator.c *)

\* The end of a segment is computed in a word, and then compared with the size.
validate_program_header(f, e) ==
    /\ e.offset < f.size /\ W(e.offset + e.filesz) <= f.size
    /\ e.memsz >= e.filesz
\* A section without data (NOBITS, here the entries that are not to be loaded)
\* may have any bounds.
validate_section_header(f, e) ==
    e.load => e.offset < f.size /\ W(e.offset + e.filesz) <= f.size

fcef_validate(f) ==
    /\ f.magic /\ f.file_size <= f.size
    /\ f.phnum > 0 =>
          /\ f.phoff + f.phnum <= f.size
          /\ \A i \in 0 .. f.phnum - 1 : validate_program_header(f, CellAt(f, f.phoff + i))
    /\ f.shnum > 0 =>
          /\ f.shoff + f.shnum <= f.size
          /\ f.shstrndx < f.shnum \/ f.shstrndx = 0
          /\ \A i \in 0 .. f.shnum - 1 : validate_section_header(f, CellAt(f, f.shoff + i))
    /\ f.crc # {} => f.crc = Crc(f)

\* The part of the file that loading the entry copies.
fcef_load_segment(e) == IF e.load THEN e.offset .. e.offset + e.filesz - 1 ELSE {}

-----------------------------------------------------------------------------
(* fcef_reader.c *)

\* The tables, when the check that is made here, in words, lets them through.
fcef_get_program_headers(f) ==
    IF f.phnum = 0 \/ W(f.phoff + W(f.phnum)) > f.size THEN << >>
    ELSE [i \in 1 .. f.phnum |-> CellAt(f, f.phoff + i - 1)]
fcef_get_section_headers(f) ==
    IF f.shnum = 0 \/ W(f.shoff + W(f.shnum)) > f.size THEN << >>
    ELSE [i \in 1 .. f.shnum |-> CellAt(f, f.shoff + i - 1)]

FileStep == file_steps < MaxFileSteps /\ file_steps' = file_steps + 1

fcef_open ==
    /\ FileStep /\ handle = << >>
    /\ handle' = <<exe>> /\ came_from' = disk_state /\ accepted' = FALSE
    /\ UNCHANGED <<exe, disk_state>>

fcef_close ==
    /\ handle # << >> /\ handle' = << >> /\ came_from' = "none" /\ accepted' = FALSE
    /\ UNCHANGED <<exe, disk_state, file_steps>>

Validate ==
    /\ handle # << >> /\ accepted' = fcef_validate(handle[1])
    /\ UNCHANGED <<exe, disk_state, handle, came_from, file_steps>>

-----------------------------------------------------------------------------
(* fcef_writer.c *)

Edited(f) == handle' = <<f>> /\ came_from' = "edited" /\ accepted' = FALSE /\ UNCHANGED <<exe, disk_state>>

\* The data go to the end and the segments are one more; no entry is written for
\* it, so the last entry of the table is whatever lies there.
fcef_add_segment(data) ==
    /\ FileStep /\ handle # << >> /\ handle[1].size < MaxCells
    /\ LET f == handle[1]
       IN Edited([f EXCEPT !.size = @ + 1, !.cells = Append(@, data), !.phnum = W(@ + 1), !.file_size = W(f.size + 1)])

fcef_add_section ==
    /\ FileStep /\ handle # << >> /\ handle[1].shnum < 2
    /\ Edited([handle[1] EXCEPT !.shnum = W(@ + 1)])

fcef_update_crc32(f) == [f EXCEPT !.crc = Crc(f)]

\* The file with only its first cells: a write that did not go to the end.
Torn(f, n) == [f EXCEPT !.size = n, !.cells = SubSeq(@, 1, n - 1)]

fcef_save ==
    /\ FileStep /\ handle # << >>
    /\ LET f == fcef_update_crc32(handle[1])
       IN /\ handle' = <<f>>
          /\ \/ exe' = f /\ disk_state' = "whole"
             \/ \E n \in 1 .. f.size - 1 : exe' = Torn(f, n) /\ disk_state' = "damaged"
    /\ came_from' = "edited" /\ accepted' = FALSE

-----------------------------------------------------------------------------
(* eclc, and the disk *)

\* eclc's header has its magic, version and size; the places and numbers of the
\* tables are what the block of memory happened to hold.
eclc_to_fcef(cells, where, phnum, shnum, strndx) ==
    [magic |-> TRUE, size |-> Len(cells) + 1, cells |-> cells, file_size |-> W(Len(cells) + 1), crc |-> {},
     phoff |-> where, phnum |-> phnum, shoff |-> where, shnum |-> shnum, shstrndx |-> strndx]

\* One cell of a saved file is not what was written.  In the header the tables may
\* be said to be elsewhere, and the checksum be none or another contents'.
BadHeaders(f) ==
    {[f EXCEPT !.magic = FALSE], [f EXCEPT !.file_size = f.size + 1]} \cup
    {[f EXCEPT !.crc = crc, !.phoff = where, !.phnum = phnum] :
        crc \in {{}, f.crc, Crc([f EXCEPT !.magic = FALSE])}, where \in UnsetWords, phnum \in {0, 2}}
CellGoesBad ==
    /\ FileStep /\ disk_state = "whole"
    /\ exe' \in (BadHeaders(exe) \cup {[exe EXCEPT !.cells[i] = c] : i \in DOMAIN exe.cells, c \in CellContents}) \ {exe}
    /\ disk_state' = "damaged" /\ UNCHANGED <<handle, came_from, accepted>>

\* The file is one of eclc's, or what is wrong with it is its magic or its size.
FcefInit ==
    /\ \E c1, c2 \in CellContents, where \in UnsetWords, phnum, shnum, strndx \in {0, 2} :
          \E f \in {eclc_to_fcef(<<c1, c2>>, where, phnum, shnum, strndx)} :
             exe \in {f, [f EXCEPT !.magic = FALSE], [f EXCEPT !.file_size = f.size + 1]}
    /\ disk_state = "any" /\ handle = << >> /\ came_from = "none" /\ accepted = FALSE /\ file_steps = 0

FcefNext ==
    \/ fcef_open \/ fcef_close \/ Validate \/ fcef_add_section \/ fcef_save
    \/ \E c \in CellContents : fcef_add_segment(c)
    \/ CellGoesBad

-----------------------------------------------------------------------------
(* Properties *)

\* Loading a segment of an accepted file copies only what is in the file, provided
\* the segment is no longer than a word has room for after the file: the end of a
\* longer one can wrap, which the validator does not see.
AcceptedInside ==
    accepted =>
        LET f == handle[1]
        IN \A i \in 0 .. f.phnum - 1 :
              LET e == CellAt(f, f.phoff + i)
              IN e.filesz <= WORD - f.size => fcef_load_segment(e) \subseteq 0 .. f.size - 1

\* What was accepted can be shown: fcef-dump finds a table for every count.
AcceptedShown ==
    accepted =>
        /\ Len(fcef_get_program_headers(handle[1])) = handle[1].phnum
        /\ Len(fcef_get_section_headers(handle[1])) = handle[1].shnum

\* A file that was saved and read back has the checksum that is asked for.  One that
\* was cut short or changed on the disk, in its cells or its header, is never
\* accepted, unless its checksum reads as none: then nothing compares it.
SavedReadsBack ==
    handle # << >> =>
        /\ came_from = "whole" => handle[1].crc = Crc(handle[1])
        /\ (came_from = "damaged" /\ fcef_validate(handle[1])) => handle[1].crc = {}

\* The format as a whole.
FcefCorrect == AcceptedInside /\ AcceptedShown /\ SavedReadsBack
====
