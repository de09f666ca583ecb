---- MODULE Archives ----
(***************************************************************************)
(* Members of archives in GNU make (ar.c, arscan.c): walking through the   *)
(* headers of an archive file, finding the date of a member, setting it    *)
(* (make -t), and the members that match a pattern.  The file is what ar   *)
(* and the disk left: each member has a header and data, and the file may  *)
(* have been cut short.                                                    *)
(***************************************************************************)
EXTENDS Integers, Sequences, FiniteSets, SequencesExt

CONSTANTS
    MemberNames,           \* sequences of characters
    AskedNames,            \* the names of makefiles: they may have a directory part
    NameRoom,              \* sizeof ar_name - 1: the characters of a name that fit a header
    MaxMembers,
    MaxArchiveTime

VARIABLES
    members,               \* [name, style, size, date] in the order they lie in the file
    namemap,               \* whether the table of long names comes before them
    ar_size,               \* where the file ends
    ar_mtime,
    attempt                \* the member of the command, and what came of it

arVars == <<members, namemap, ar_size, ar_mtime, attempt>>

\* A member's name lies in its header, cut to the room there is; in the table of
\* long names; or before its data.
Styles == {"short", "mapped", "bsd"}

-----------------------------------------------------------------------------
(* The file *)

MAGIC == 2                 \* the first offset after "!<arch>\n"
HDR == 2                   \* the header's bytes, an even number of them
Even(n) == n + (n % 2)
MapSize == 1
FirstMember == IF namemap THEN Even(MAGIC + HDR + MapSize) ELSE MAGIC
\* Where the header of member i begins: data of odd length are padded.
Header(i) ==
    LET at[k \in 1 .. i] == IF k = 1 THEN FirstMember ELSE Even(at[k - 1] + HDR + members[k - 1].size) IN at[i]
WholeSize == IF members = << >> THEN FirstMember ELSE Even(Header(Len(members)) + HDR + members[Len(members)].size)

-----------------------------------------------------------------------------
(* ar_scan *)

\* The name the scan has, and whether it may be only the start of it.
Scanned(m) ==
    CASE m.style = "short" -> [name |-> SubSeq(m.name, 1, IF Len(m.name) < NameRoom THEN Len(m.name) ELSE NameRoom), truncated |-> TRUE]
      [] m.style = "mapped" -> IF namemap THEN [name |-> m.name, truncated |-> FALSE] ELSE [name |-> <<"/">>, truncated |-> TRUE]
      [] OTHER -> [name |-> m.name, truncated |-> FALSE]

\* What stops the scan at member i: the end of the file, or too little of it for
\* the header or for a name that lies before the data.
ScanStops(i) ==
    CASE i > Len(members) \/ ar_size <= Header(i) -> "end"
      [] ar_size < Header(i) + HDR -> "invalid"
      [] members[i].style = "bsd" /\ ar_size < Header(i) + HDR + 1 -> "invalid"
      [] OTHER -> "no"

\* The table's own data have to be there, and so has the file's magic.
Readable == ar_size >= MAGIC /\ (namemap /\ ar_size > MAGIC => ar_size >= MAGIC + HDR + MapSize)

\* The first value that is not 0 of a function of the members, 0 if there is none, -2
\* if the file is not an archive up to there.
ar_scan(value) ==
    LET from[i \in 1 .. Len(members) + 1] ==
          IF ScanStops(i) = "end" THEN 0 ELSE IF ScanStops(i) = "invalid" THEN -2
          ELSE IF value[i] # 0 THEN value[i] ELSE from[i + 1]
    IN IF Readable THEN from[1] ELSE -2

LastPart(name) ==
    LET cuts == {i \in DOMAIN name : name[i] = "/"}
    IN IF cuts = {} THEN name ELSE SubSeq(name, (CHOOSE i \in cuts : \A j \in cuts : j <= i) + 1, Len(name))
Begins(name) == SubSeq(name, 1, IF Len(name) < NameRoom THEN Len(name) ELSE NameRoom)

ar_name_equal(name, mem, truncated) ==
    \/ name = mem
    \/ IF truncated THEN Begins(LastPart(name)) = Begins(mem) ELSE LastPart(name) = mem

\* Which members a name is taken for.
Named(name) == {i \in DOMAIN members : LET s == Scanned(members[i]) IN ar_name_equal(name, s.name, s.truncated)}

\* The member's date, -1 without one: a date of 0 counts as none.
ar_member_date(name) ==
    LET val == ar_scan([i \in DOMAIN members |-> IF i \in Named(name) THEN members[i].date ELSE 0])
    IN IF val > 0 THEN val ELSE -1

ar_member_pos(name) == ar_scan([i \in DOMAIN members |-> IF i \in Named(name) THEN i ELSE 0])

\* The time that update_file compares, when the file of the member's name has the
\* time filetime (-1: there is none).  A member that is not there has none, and
\* neither has one that is older than its file: it was not put in since.
member_mtime(name, filetime) ==
    LET date == ar_member_date(name)
    IN IF date = -1 \/ (filetime # -1 /\ filetime > date) THEN -1 ELSE date

\* Set the member's date: it becomes the time the file had, and writing the header
\* gives the file a new one.
ar_member_touch(name) ==
    LET pos == ar_member_pos(name)
    IN /\ attempt.what = "none" /\ ar_mtime < MaxArchiveTime
       /\ attempt' = [what |-> "touched", name |-> name, had |-> ar_member_date(name), before |-> members, mtime |-> ar_mtime,
                    result |-> IF pos < 0 THEN -2 ELSE IF pos = 0 THEN 1 ELSE 0]
       /\ members' = IF pos > 0 THEN [members EXCEPT ![pos].date = ar_mtime] ELSE members
       /\ ar_mtime' = IF pos > 0 THEN ar_mtime + 1 ELSE ar_mtime
       /\ UNCHANGED <<namemap, ar_size>>

\* The members a pattern stands for ("*" any of them, <<c, "*">> those that begin with
\* c), as the scan has them; it goes on to the end of the file or of its good part.
fnmatch(pattern, name) ==
    /\ "/" \notin Range(name) /\ name # << >>
    /\ pattern \in {<<"*">>, <<name[1], "*">>}
ar_glob(pattern) ==
    LET good == {i \in DOMAIN members : Readable /\ \A j \in 1 .. i : ScanStops(j) = "no"}
    IN {Scanned(members[i]).name : i \in {k \in good : fnmatch(pattern, Scanned(members[k]).name)}}

-----------------------------------------------------------------------------
(* ar, and the disk *)

\* Archives as ar writes them, whole or cut short; the table may have been left out.
ArInit ==
    /\ \E n \in 0 .. MaxMembers : members \in [1 .. n -> [name : MemberNames, style : Styles, size : 1 .. 2, date : {0, 1}]]
    /\ namemap \in BOOLEAN /\ ar_mtime = 2
    /\ ar_size \in 0 .. WholeSize
    /\ attempt = [what |-> "none"]

ArNext == \E name \in AskedNames : ar_member_touch(name)

-----------------------------------------------------------------------------
(* Properties *)

Whole == ar_size = WholeSize
FullNames == \A i \in DOMAIN members : members[i].style = "bsd" \/ (members[i].style = "mapped" /\ namemap)

\* Where the names are whole, the date is that of a member of that name, or of the
\* last part of it, which has one; where they are cut, it is at least that of a
\* member whose name begins with the same characters.
DateOfMember ==
    \A name \in AskedNames :
        LET named == {i \in DOMAIN members : members[i].name \in {name, LastPart(name)} /\ members[i].date > 0}
            alike == {i \in DOMAIN members : members[i].style = "short" /\ members[i].date > 0
                                             /\ Begins(members[i].name) \in {Begins(name), Begins(LastPart(name))}}
            date == ar_member_date(name)
        IN /\ (Whole /\ FullNames) => IF named = {} THEN date = -1
                                      ELSE date = members[CHOOSE i \in named : \A j \in named : i <= j].date
           /\ date # -1 => \E i \in named \cup alike : members[i].date = date

\* A file that was cut short never shows a member that lies after the cut.
CutNotRead ==
    \A name \in AskedNames :
        ar_member_date(name) # -1 =>
            \E i \in DOMAIN members : Header(i) + HDR <= ar_size /\ members[i].date = ar_member_date(name)

\* Setting a date changes one header and nothing else: that of a member the name is
\* taken for, which is newer than before, and whose date is the one that is found
\* afterwards.  What was not found is left alone.
TouchExact ==
    attempt.what = "touched" =>
        /\ attempt.result = 0 =>
              \E i \in Named(attempt.name) :
                    /\ members = [attempt.before EXCEPT ![i].date = members[i].date]
                    /\ members[i].date > attempt.before[i].date /\ ar_member_date(attempt.name) = members[i].date
        /\ attempt.result # 0 => members = attempt.before /\ attempt.had = -1

\* Touching a member is enough: whatever files there were before, it is up to date with
\* them afterwards; a file that is written later has to be put in.
TouchedIsUpToDate ==
    (attempt.what = "touched" /\ attempt.result = 0) =>
        /\ \A filetime \in -1 .. attempt.mtime : member_mtime(attempt.name, filetime) >= filetime
        /\ \A filetime \in ar_mtime .. MaxArchiveTime + 1 : member_mtime(attempt.name, filetime) = -1

\* A pattern stands for no member that could not be found by its name.
GlobFound ==
    \A c \in {<<"*">>, <<"x", "*">>} : \A name \in ar_glob(c) :
        ar_member_pos(name) > 0

\* Archives as a whole.
ArchivesCorrect == DateOfMember /\ CutNotRead /\ TouchExact /\ TouchedIsUpToDate /\ GlobFound
====
