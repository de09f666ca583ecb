---- MODULE FileDb ----
(***************************************************************************)
(* GNU make's table of files (file.c) and its directory search (vpath.c,   *)
(* f_mtime of remake.c).  A file that is found by searching gets a second  *)
(* name, and is merged with the file that already has it.  Marks of the    *)
(* special targets decide what is deleted at the end.                      *)
(* A name is <<directory, base>>, with "" for the current directory.       *)
(***************************************************************************)
EXTENDS Integers, Sequences, FiniteSets, SequencesExt, FiniteSetsExt, Folds

CONSTANTS
    FdNames,               \* names that occur
    FdMakefiles            \* [rules, special, whatif, goals, gpath, general, second,
                           \* extra, own]; the names of special and of goals occur in rules

VARIABLES
    fd_mk,                 \* the makefile read
    fd_rest,               \* its lines not read yet, by number
    fd_recs,               \* every struct file ever made
    fd_files,              \* name -> record in the hash table, or 0
    vpaths,                \* vpath directives in force, the first to try first
    directives,            \* the same as the makefile gives them
    fd_disk,               \* name -> "no", "old" (there before make), "made"
    fd_before,             \* fd_disk at the start
    fdphase, cur,          \* cur is the record update_file is at, or 0
    no_intermediates, all_secondary

fdVars == <<fd_mk, fd_rest, fd_recs, fd_files, vpaths, directives, fd_disk, fd_before, fdphase, cur, no_intermediates, all_secondary>>

FdRecord(n) ==
    [name |-> n, hname |-> n, deps |-> << >>, cmds |-> 0, dc |-> 0, prev |-> 0, last |-> 0, renamed |-> 0,
     snapped |-> FALSE, is_target |-> FALSE, mtime |-> "unknown", started |-> FALSE, status |-> "none", updated |-> FALSE,
     precious |-> FALSE, phony |-> FALSE, intermediate |-> FALSE, secondary |-> FALSE,
     notintermediate |-> FALSE, cmd_target |-> FALSE, ignore_vpath |-> FALSE]

FdInit ==
    /\ fd_mk \in FdMakefiles
    /\ fd_rest = 1..Len(fd_mk.rules)
    /\ fd_recs = << >> /\ fd_files = [n \in FdNames |-> 0]
    /\ vpaths = << >> /\ directives = << >>
    /\ fd_disk \in [FdNames -> {"no", "old"}] /\ fd_before = fd_disk
    /\ fdphase = "read" /\ cur = 0
    /\ no_intermediates = FALSE /\ all_secondary = FALSE

-----------------------------------------------------------------------------
(* Entering files.  A table is a pair [recs, files]. *)

Tab == [recs |-> fd_recs, files |-> fd_files]

\* enter_file: a new record unless there is one that is not double-colon.
enter_file(tab, n) ==
    LET i == tab.files[n]
        new == Len(tab.recs) + 1
    IN IF i # 0 /\ tab.recs[i].dc = 0 THEN [tab |-> tab, at |-> i]
       ELSE IF i = 0
       THEN [tab |-> [recs |-> Append(tab.recs, [FdRecord(n) EXCEPT !.last = new]),
                      files |-> [tab.files EXCEPT ![n] = new]], at |-> new]
       ELSE [tab |-> [tab EXCEPT !.recs = Append([@ EXCEPT ![tab.recs[i].last].prev = new, ![i].last = new],
                                                 [FdRecord(n) EXCEPT !.dc = i])], at |-> new]

lookup_or_enter(tab, n) ==
    IF tab.files[n] # 0 THEN [tab |-> tab, at |-> tab.files[n]] ELSE enter_file(tab, n)

\* enter_prereqs for a list of names.
enter_prereqs(tab, names) ==
    FoldLeft(LAMBDA r, n : LET e == lookup_or_enter(r.tab, n)
                           IN [tab |-> e.tab, deps |-> Append(r.deps, e.at)],
             [tab |-> tab, deps |-> << >>], names)

\* A prerequisite: its record, or the text that has to be expanded again for the
\* target, as target -> names; extra ones are left out of $^ and the like.
NoText == << >>
Dep(i) == [file |-> i, text |-> NoText, extra |-> FALSE]
Deps(ids) == [k \in DOMAIN ids |-> Dep(ids[k])]

\* A list of prerequisites with a $ in it is not entered under .SECONDEXPANSION.
PrereqsOf(tab, r) ==
    LET p == enter_prereqs(tab, r.deps)
    IN IF fd_mk.second /\ r.text # NoText
       THEN [tab |-> tab, deps |-> <<[Dep(0) EXCEPT !.text = r.text]>>]
       ELSE [tab |-> p.tab, deps |-> Deps(p.deps)]

\* record_files for one rule line; the recipe is known by the line's number.
FdRule(k, r) ==
    LET p == PrereqsOf(Tab, r)
        i == p.tab.files[r.t]
        clash == i # 0 /\ p.tab.recs[i].is_target /\ (p.tab.recs[i].dc # 0) # r.dc
        e == IF r.dc THEN enter_file(p.tab, r.t) ELSE lookup_or_enter(p.tab, r.t)
        f == e.tab.recs[e.at]
    IN IF clash THEN fdphase' = "fatal" /\ UNCHANGED <<fd_recs, fd_files>>
       ELSE /\ fd_recs' = [e.tab.recs EXCEPT ![e.at] =
                           [f EXCEPT !.is_target = TRUE, !.dc = IF r.dc /\ @ = 0 THEN e.at ELSE @,
                                     !.cmds = IF r.cmds THEN k ELSE @,
                                     !.deps = IF r.cmds THEN p.deps \o @ ELSE @ \o p.deps]]
            /\ fd_files' = e.tab.files /\ UNCHANGED fdphase

\* construct_vpath_list from a vpath directive: a new list goes to the front,
\* "." is left out, and a list without directories is not kept.
construct_vpath_list(list, pat, dirs) ==
    LET kept == SelectSeq(dirs, LAMBDA d : d # "")
    IN IF kept = << >> THEN list ELSE <<[pat |-> pat, dirs |-> kept]>> \o list

\* A vpath directive without directories removes the lists of its pattern, and
\* one without a pattern all of them.
RemoveLists(list, pat) == IF pat = "" THEN << >> ELSE SelectSeq(list, LAMBDA v : v.pat # pat)

FdLine(k) ==
    /\ fdphase = "read" /\ k \in fd_rest
    /\ LET r == fd_mk.rules[k]
       IN IF r.kind = "rule"
          THEN FdRule(k, r) /\ UNCHANGED <<vpaths, directives>>
          ELSE /\ vpaths' = IF r.kind = "vpath" THEN construct_vpath_list(vpaths, r.pat, r.dirs)
                            ELSE RemoveLists(vpaths, r.pat)
               /\ directives' = IF r.kind = "vpath"
                                THEN Append(directives, [pat |-> r.pat, dirs |-> r.dirs])
                                ELSE SelectSeq(directives, LAMBDA v : r.pat # "" /\ v.pat # r.pat)
               /\ UNCHANGED <<fd_recs, fd_files, fdphase>>
    /\ fd_rest' = fd_rest \ {k}
    /\ UNCHANGED <<fd_mk, fd_disk, fd_before, cur, no_intermediates, all_secondary>>

\* build_vpath_lists: the directives in the order they were given.
build_vpath_lists ==
    /\ fdphase = "read" /\ fd_rest = {}
    /\ vpaths' = Reverse(vpaths)
    /\ fdphase' = "snap"
    /\ UNCHANGED <<fd_mk, fd_rest, fd_recs, fd_files, directives, fd_disk, fd_before, cur, no_intermediates, all_secondary>>

\* The later rules of a double-colon target are linked by prev, in their order.
Chain(rs, i) ==
    LET from[j \in DOMAIN rs] == {j} \cup IF rs[j].prev = 0 THEN {} ELSE from[rs[j].prev]
    IN from[i]

-----------------------------------------------------------------------------
(* Special targets *)

\* The records a special target's prerequisites stand for, the later rules of
\* a double-colon target included; fd_mk.special gives a set of names, or
\* {AllFiles} for a special target without prerequisites.
AllFiles == <<"all", "files">>
MarkedBy(special) ==
    {i \in DOMAIN fd_recs : \E n \in fd_mk.special[special] \ {AllFiles} : fd_files[n] # 0 /\ i \in Chain(fd_recs, fd_files[n])}
ForAll(special) == AllFiles \in fd_mk.special[special]

\* expand_extra_prereqs: the files of .EXTRA_PREREQS.  Those of one target are
\* expanded again under .SECONDEXPANSION.
expand_extra_prereqs(tab, names) ==
    LET p == enter_prereqs(tab, names)
    IN [tab |-> p.tab, deps |-> [k \in DOMAIN p.deps |-> [Dep(p.deps[k]) EXCEPT !.extra = TRUE]]]
AsText(tab, deps) ==
    [k \in DOMAIN deps |-> [deps[k] EXCEPT !.text = [n \in FdNames |-> <<tab.recs[deps[k].file].name>>]]]

\* snap_file, what it does to the prerequisites of the file n: a target gets the
\* extra ones behind its own, unless it is one of them.
ExtraOf(tab, n, deps) ==
    LET own == expand_extra_prereqs(tab, fd_mk.own[n])
    IN IF n \in DOMAIN fd_mk.own THEN [own EXCEPT !.deps = IF fd_mk.second THEN AsText(own.tab, @) ELSE @]
       ELSE [tab |-> tab, deps |-> IF tab.recs[tab.files[n]].is_target THEN deps ELSE << >>]
snap_file(tab, n, deps) ==
    LET r == ExtraOf(tab, n, deps)
        circular == \E d \in Range(r.deps) : r.tab.recs[d.file].name = tab.recs[tab.files[n]].name
    IN IF circular THEN r.tab ELSE [r.tab EXCEPT !.recs[tab.files[n]].deps = @ \o r.deps]

\* Every file in the table before any of them is snapped; those that are only
\* entered by it are not.
SnappedFiles(marked) ==
    LET global == expand_extra_prereqs([recs |-> marked, files |-> fd_files], fd_mk.extra)
        dump == SetToSeq({n \in FdNames : global.tab.files[n] # 0})
    IN FoldLeft(LAMBDA tab, n : snap_file(tab, n, global.deps), global.tab, dump)

\* snap_deps, and snap_file for every file in the table.
snap_deps ==
    LET notint == MarkedBy(".NOTINTERMEDIATE")
        inter == MarkedBy(".INTERMEDIATE")
        second == MarkedBy(".SECONDARY")
        none == ForAll(".NOTINTERMEDIATE")
        every == ForAll(".SECONDARY")
    IN /\ fdphase = "snap"
       /\ IF notint \cap (inter \cup second) # {} \/ (none /\ every)
          THEN fdphase' = "fatal" /\ UNCHANGED <<fd_recs, fd_files, no_intermediates, all_secondary>>
          ELSE /\ fdphase' = "whatif"
               /\ no_intermediates' = none /\ all_secondary' = every
               /\ \E tab \in {SnappedFiles([i \in DOMAIN fd_recs |->
                    [fd_recs[i] EXCEPT !.precious = i \in MarkedBy(".PRECIOUS"),
                                       !.phony = i \in MarkedBy(".PHONY"),
                                       !.is_target = @ \/ i \in MarkedBy(".PHONY"),
                                       !.mtime = IF i \in MarkedBy(".PHONY") THEN "none" ELSE @,
                                       !.secondary = i \in second]])} :
                    /\ fd_files' = tab.files
                    /\ fd_recs' = [i \in DOMAIN tab.recs |->
                         LET f == tab.recs[i]
                             tabled == tab.files[f.hname] = i /\ (i \in DOMAIN fd_recs \/ f.name \in Range(fd_mk.extra))
                             mid == \/ i \in inter \cup second
                                    \/ tabled /\ every /\ i \notin notint
                         IN [f EXCEPT !.intermediate = mid, !.notintermediate = i \in notint \/ (tabled /\ none /\ ~mid)]]
       /\ UNCHANGED <<fd_mk, fd_rest, vpaths, directives, fd_disk, fd_before, cur>>

\* The command line: goals, and -W, which sets the time of a file.
command_line ==
    /\ fdphase = "whatif"
    /\ LET e == enter_prereqs(Tab, SetToSeq(fd_mk.whatif))
       IN /\ fd_files' = e.tab.files
          /\ fd_recs' = [i \in DOMAIN e.tab.recs |->
                        [e.tab.recs[i] EXCEPT !.mtime = IF i \in Range(e.deps) THEN "given" ELSE @,
                                              !.cmd_target = \E n \in fd_mk.goals : fd_files[n] = i]]
    /\ fdphase' = "update"
    /\ UNCHANGED <<fd_mk, fd_rest, vpaths, directives, fd_disk, fd_before, cur, no_intermediates, all_secondary>>

-----------------------------------------------------------------------------
(* Searching *)

\* The makefile mentions name, as a target if the file n searched for is one.
Mentioned(tab, n, name) ==
    LET i == tab.files[n]
        j == tab.files[name]
    IN j # 0 /\ (i = 0 \/ ~tab.recs[i].is_target \/ tab.recs[j].is_target)

\* A directory of a list has the file: it is mentioned there, or on disk.
Found(tab, n, d) ==
    LET name == <<d, n[2]>>
    IN name \in FdNames /\ (Mentioned(tab, n, name) \/ fd_disk[name] # "no")

\* selective_vpath_search: the first directory that has it.
selective_vpath_search(tab, n, dirs) ==
    LET hits == {k \in DOMAIN dirs : Found(tab, n, dirs[k])}
    IN IF hits = {} THEN n ELSE <<dirs[Min(hits)], n[2]>>

\* vpath_search: the vpath directives whose pattern matches, then VPATH; n
\* itself if there is nothing.
vpath_search(tab, n) ==
    LET matching == SelectSeq(vpaths, LAMBDA v : v.pat \in {n[2], "%"})
        lists == [k \in DOMAIN matching |-> matching[k].dirs] \o <<fd_mk.general>>
        hits == {k \in DOMAIN lists : selective_vpath_search(tab, n, lists[k]) # n}
    IN IF n[1] # "" \/ hits = {} THEN n ELSE selective_vpath_search(tab, n, lists[Min(hits)])

\* A file merged into the one that has its new name: that one's recipe wins;
\* prerequisites and marks are joined, all but the mark "intermediate".
Merged(rs, i, t) ==
    LET f == rs[i]
        g == rs[t]
    IN [rs EXCEPT ![i].renamed = t,
                  ![t] = [g EXCEPT !.cmds = IF @ = 0 THEN f.cmds ELSE @, !.deps = @ \o f.deps,
                                   !.dc = IF @ = 0 THEN f.dc ELSE @,
                                   !.mtime = IF f.mtime = "given" \/ (@ \in {"unknown", "none"} /\ f.mtime # "unknown")
                                             THEN f.mtime ELSE @,
                                   !.precious = @ \/ f.precious, !.phony = @ \/ f.phony,
                                   !.is_target = @ \/ f.is_target, !.secondary = @ \/ f.secondary,
                                   !.notintermediate = @ \/ f.notintermediate,
                                   !.cmd_target = @ \/ f.cmd_target, !.updated = @ \/ f.updated,
                                   !.snapped = @ \/ f.snapped, !.ignore_vpath = @ \/ f.ignore_vpath]]

\* rehash_file: fatal if one of the two is a single-colon and the other a
\* double-colon target.
rehash_file(tab, i, to) ==
    LET f == tab.recs[i]
        t == tab.files[to]
        renamed == [j \in DOMAIN tab.recs |->
                      IF j = i \/ (f.dc # 0 /\ j \in Chain(tab.recs, f.dc)) THEN [tab.recs[j] EXCEPT !.hname = to]
                      ELSE tab.recs[j]]
        moved == [tab.files EXCEPT ![f.hname] = 0]
        g == renamed[t]
    IN IF t = 0 THEN [ok |-> TRUE, tab |-> [recs |-> renamed, files |-> [moved EXCEPT ![to] = i]]]
       ELSE [ok |-> ~((g.dc # 0 /\ f.is_target /\ f.dc = 0) \/ (g.dc = 0 /\ f.dc # 0 /\ g.is_target)),
             tab |-> [recs |-> Merged(renamed, i, t), files |-> moved]]

\* rename_file: the name follows, for the file and the later rules of it.
NamesFollow(rs, i) == [j \in DOMAIN rs |-> IF j \in Chain(rs, i) THEN [rs[j] EXCEPT !.name = rs[j].hname] ELSE rs[j]]

check_renamed(rs, i) == IF rs[i].renamed = 0 THEN i ELSE rs[i].renamed

name_mtime(n) == IF fd_disk[n] = "no" THEN "none" ELSE "found"

\* The end of f_mtime: the time is kept in every rule of the file that is as
\* far as the first; what was there before make is not intermediate.
Stamped(rs, i, m) ==
    LET head == IF rs[i].dc # 0 THEN rs[i].dc ELSE i
    IN [j \in DOMAIN rs |->
          IF j \notin Chain(rs, head) THEN rs[j]
          ELSE [rs[j] EXCEPT !.intermediate = @ /\ ~(m # "none" /\ ~rs[j].started),
                             !.mtime = IF rs[j].updated = rs[head].updated THEN m ELSE @]]

\* The file i is renamed to n by rehash_file, with the result r: if GPATH has the
\* directory the name follows at once, and a file merged into has its own time.
GpathNamed(r, recs, j, n) ==
    [ok |-> r.ok, at |-> j,
     tab |-> [r.tab EXCEPT !.recs = IF recs[j].mtime # "unknown" THEN recs ELSE Stamped(recs, j, name_mtime(n))]]

Rehashed(r, i, n, given) ==
    IF n[1] \in fd_mk.gpath THEN GpathNamed(r, NamesFollow(r.tab.recs, i), check_renamed(r.tab.recs, i), n)
    ELSE [ok |-> r.ok, at |-> check_renamed(r.tab.recs, i),
          tab |-> [r.tab EXCEPT !.recs = Stamped(@, check_renamed(r.tab.recs, i),
                                                 IF given THEN "given" ELSE name_mtime(n))]]

\* The search for the file i found n, a name the makefile mentions or one on disk.
FoundUnder(tab, i, n) ==
    LET f == tab.recs[i]
        known == n # f.name /\ Mentioned(tab, f.name, n)
        given == known /\ tab.recs[tab.files[n]].mtime = "given"
    IN IF fd_disk[f.name] # "no" \/ f.ignore_vpath \/ n = f.name
       THEN [ok |-> TRUE, at |-> i, tab |-> [tab EXCEPT !.recs = Stamped(@, i, name_mtime(f.name))]]
       ELSE Rehashed(rehash_file([tab EXCEPT !.recs[i].mtime = IF given THEN "given" ELSE IF known THEN @ ELSE "found"],
                                 i, n), i, n, given)

\* f_mtime for a file whose time is not known: the table and the record after it.
f_mtime(tab, i) == FoundUnder(tab, i, vpath_search(tab, tab.recs[i].name))

-----------------------------------------------------------------------------
(* Updating: the parts of update_file that concern names *)

\* update_file starts with the first rule of the file.
update_named(n) ==
    /\ fdphase = "update" /\ cur = 0
    /\ fd_files[n] # 0 /\ ~fd_recs[fd_files[n]].updated
    /\ cur' = IF fd_recs[fd_files[n]].dc # 0 THEN fd_recs[fd_files[n]].dc ELSE fd_files[n]
    /\ UNCHANGED <<fd_mk, fd_rest, fd_recs, fd_files, vpaths, directives, fd_disk, fd_before, fdphase, no_intermediates, all_secondary>>

\* expand_deps: under .SECONDEXPANSION the texts of the file are expanded once,
\* for its name, and what they name is entered in their place.
expand_deps(tab, i) ==
    LET f == tab.recs[i]
        Expand(r, d) ==
            LET p == enter_prereqs(r.tab, d.text[f.name])
            IN IF d.text = NoText THEN [r EXCEPT !.deps = Append(@, d)] ELSE [tab |-> p.tab, deps |-> r.deps \o Deps(p.deps)]
        r == FoldLeft(Expand, [tab |-> tab, deps |-> << >>], f.deps)
    IN IF ~fd_mk.second \/ f.snapped THEN tab
       ELSE [r.tab EXCEPT !.recs[i].deps = r.deps, !.recs[i].snapped = TRUE]

\* The record r.at is up to date now, made or kept; its rules come next.
Updated(make, r, f) ==
    LET rs == r.tab.recs
    IN /\ make => f.cmds # 0
       /\ f.cmds # 0 /\ (f.phony \/ f.mtime = "none") => make
       /\ fd_files' = r.tab.files
       /\ fd_recs' = IF make
                  THEN [rs EXCEPT ![r.at] = [@ EXCEPT !.ignore_vpath = @ \/ f.name # f.hname, !.started = TRUE,
                                                      !.status = "done", !.updated = TRUE,
                                                      !.mtime = IF f.phony THEN @ ELSE "found"]]
                  ELSE NamesFollow([rs EXCEPT ![r.at].status = "done", ![r.at].updated = TRUE], r.at)
       /\ \/ fd_disk' = IF make /\ fd_disk[f.name] = "no" THEN [fd_disk EXCEPT ![f.name] = "made"] ELSE fd_disk
          \/ f.phony /\ UNCHANGED fd_disk
       /\ cur' = f.prev
       /\ UNCHANGED fdphase

\* update_file_1: a file that is made is made under its own name, and is not
\* searched for again; one that is kept takes the name found.  The rules of
\* the record reached after a renaming come next.  A text that was not expanded
\* has no file, and the loop over the prerequisites crashes at it.
update_file_1(make) ==
    /\ fdphase = "update" /\ cur # 0
    /\ \E r \in {IF fd_recs[cur].mtime = "unknown" THEN f_mtime(Tab, cur) ELSE [ok |-> TRUE, at |-> cur, tab |-> Tab]} :
          \E tab \in {IF r.ok THEN expand_deps(r.tab, r.at) ELSE r.tab} :
             IF r.ok /\ (\A d \in Range(tab.recs[r.at].deps) : d.file # 0)
             THEN Updated(make, [r EXCEPT !.tab = tab], r.tab.recs[r.at])
             ELSE fdphase' = (IF r.ok THEN "crash" ELSE "fatal") /\ UNCHANGED <<fd_recs, fd_files, fd_disk, cur>>
    /\ UNCHANGED <<fd_mk, fd_rest, vpaths, directives, fd_before, no_intermediates, all_secondary>>

\* A file remove_intermediates deletes.
Deletable(f) ==
    /\ f.intermediate /\ f.status # "none"
    /\ ~f.precious /\ ~f.secondary /\ ~f.notintermediate /\ ~f.cmd_target

remove_intermediates ==
    /\ fdphase = "update" /\ cur = 0
    /\ fdphase' = "end"
    /\ fd_disk' = IF all_secondary \/ no_intermediates THEN fd_disk
               ELSE [n \in FdNames |->
                       IF \E m \in FdNames : fd_files[m] # 0 /\ fd_recs[fd_files[m]].name = n /\ Deletable(fd_recs[fd_files[m]])
                       THEN "no" ELSE fd_disk[n]]
    /\ UNCHANGED <<fd_mk, fd_rest, fd_recs, fd_files, vpaths, directives, fd_before, cur, no_intermediates, all_secondary>>

FdNext ==
    \/ \E k \in fd_rest : FdLine(k)
    \/ build_vpath_lists
    \/ snap_deps
    \/ command_line
    \/ \E n \in FdNames : update_named(n)
    \/ \E make \in BOOLEAN : update_file_1(make)
    \/ remove_intermediates

-----------------------------------------------------------------------------
(* Properties *)

\* Type invariant: the table holds records under their own names, a record that
\* was merged is not in it, and the one it was merged into was not merged.
FdTypeOK ==
    /\ \A n \in FdNames : fd_files[n] # 0 => fd_recs[fd_files[n]].hname = n /\ fd_recs[fd_files[n]].renamed = 0
    /\ \A i \in DOMAIN fd_recs : fd_recs[i].renamed # 0 => fd_recs[fd_recs[i].renamed].renamed = 0

\* The records that can be reached from the table.
FdReached == {i \in DOMAIN fd_recs : \E n \in FdNames :
              fd_files[n] # 0 /\ (i = fd_files[n] \/ (fd_recs[fd_files[n]].dc # 0 /\ i \in Chain(fd_recs, fd_recs[fd_files[n]].dc)))}

\* No prerequisite is lost when files are merged under a name found by
\* searching: whatever a record had, a record of the table has, unless two
\* double-colon targets were merged.
NothingLost ==
    \A i \in DOMAIN fd_recs :
        i \in FdReached
        \/ LET t == fd_recs[i].renamed
           IN IF t # 0
              THEN /\ t \in FdReached
                   /\ \A d \in Range(fd_recs[i].deps) :
                         d \in Range(fd_recs[t].deps) \/ (d.text # NoText /\ fd_recs[t].snapped)
                   /\ fd_recs[i].cmds # 0 => fd_recs[t].cmds # 0
                   /\ fd_recs[i].precious => fd_recs[t].precious
                   /\ fd_recs[i].phony => fd_recs[t].phony
              ELSE fd_recs[i].dc # 0 /\ fd_recs[fd_recs[i].dc].renamed # 0

\* The search takes directories in the order the makefile gives them: those
\* of the vpath directives in force, then those of VPATH.
SearchInOrder ==
    fdphase = "update" =>
        \A n \in FdNames :
            LET lists == SelectSeq(directives, LAMBDA v : v.pat \in {n[2], "%"})
                dirs == SelectSeq(FoldLeft(LAMBDA s, v : s \o v.dirs, << >>, lists) \o fd_mk.general,
                                  LAMBDA d : d # "")
                hits == {k \in DOMAIN dirs : Found(Tab, n, dirs[k])}
            IN n[1] = "" => vpath_search(Tab, n) = IF hits = {} THEN n ELSE <<dirs[Min(hits)], n[2]>>

\* A file that was there before make started is there when it ends if a special
\* target protects it, if it is a goal, or if nothing says that it is intermediate,
\* under whichever of its names, found by searching or its own, make knew it.
ProtectedKept ==
    \A n \in FdNames :
        (fd_before[n] = "old" /\ fd_disk[n] = "no") =>
            /\ ~\E s \in {".PRECIOUS", ".SECONDARY", ".NOTINTERMEDIATE"} : n \in fd_mk.special[s]
            /\ n \notin fd_mk.goals
            /\ \E m \in fd_mk.special[".INTERMEDIATE"] : m[2] = n[2]

\* A file that is made is made where its rule says, and is not searched for
\* again; one that is kept is used where it was found.
MadeInPlace ==
    (fdphase = "update" /\ cur = 0) =>
        \A i \in DOMAIN fd_recs :
            (fd_recs[i].updated /\ fd_recs[i].renamed = 0 /\ fd_recs[i].dc = 0) =>
                IF fd_recs[i].started THEN fd_recs[i].name # fd_recs[i].hname => fd_recs[i].ignore_vpath
                ELSE fd_recs[i].name = fd_recs[i].hname

RuleLines(n) == {k \in DOMAIN fd_mk.rules : fd_mk.rules[k].kind = "rule" /\ fd_mk.rules[k].t = n}

\* What the makefile says file i depends on: its rules, with their texts expanded
\* for it under .SECONDEXPANSION, and .EXTRA_PREREQS unless it is one of these.
Given(i) ==
    LET n == fd_recs[i].name
        lines == RuleLines(n)
        line(k) == LET r == fd_mk.rules[k] IN IF fd_mk.second /\ r.text # NoText THEN r.text[n] ELSE r.deps
        extra == IF n \in DOMAIN fd_mk.own THEN fd_mk.own[n] ELSE IF fd_recs[i].is_target THEN fd_mk.extra ELSE << >>
    IN FlattenSeq([k \in 1..Cardinality(lines) |-> line(SetToSeq(lines)[k])])
       \o IF n \in Range(extra) THEN << >> ELSE extra

\* A file that is up to date was made after all its prerequisites and no others:
\* texts are expanded once, for the right target, and the extra ones are there but
\* come last and are known for it, unless they are a target's own and were expanded
\* again.  Make crashes on a text only when the file was found under the name of
\* one that is up to date already.
PrerequisitesWhole ==
    /\ \A i \in DOMAIN fd_recs :
          LET f == fd_recs[i]
              whole == Given(i)
          IN (f.updated /\ f.is_target /\ f.dc = 0 /\ f.name = f.hname /\ RuleLines(f.name) # {} /\ (\A j \in DOMAIN fd_recs : fd_recs[j].renamed # i) /\ f.renamed = 0) =>
             /\ {fd_recs[d.file].name[2] : d \in Range(f.deps)} = {n[2] : n \in Range(whole)}
             /\ Len(f.deps) = Len(whole)
             /\ \A k \in DOMAIN f.deps : f.deps[k].extra =>
                    /\ \A j \in k..Len(f.deps) : f.deps[j].extra
                    /\ ~(fd_mk.second /\ f.name \in DOMAIN fd_mk.own)
    /\ fdphase = "crash" =>
          LET r == f_mtime(Tab, cur)
          IN r.at # cur /\ fd_recs[r.at].updated /\ (\E d \in Range(fd_recs[cur].deps) : d.text # NoText)

\* The table of files as a whole.
FileDbCorrect == FdTypeOK /\ NothingLost /\ SearchInOrder /\ ProtectedKept /\ MadeInPlace /\ PrerequisitesWhole

-----------------------------------------------------------------------------
(***************************************************************************)
(* How GNU make finds the library of a prerequisite -lNAME                 *)
(* (library_search, remake.c): every pattern of .LIBPATTERNS is tried in   *)
(* the current directory, along the vpath lists and in the standard        *)
(* directories, and the earliest place wins.                               *)
(***************************************************************************)

CONSTANTS
    LibPatterns,           \* how many patterns .LIBPATTERNS has
    VpathLists,            \* how many selective vpath lists there are; the VPATH list comes after them
    ListLength,            \* directories in a list
    StdDirs                \* how many standard directories there are

VARIABLES
    percent,               \* pattern -> whether it is one: the others are warned of and passed over
    selected,              \* pattern -> the selective lists whose pattern its library matches
    lib_at                 \* pattern -> the places that have its library

libVars == <<percent, selected, lib_at>>

Lists == 0 .. VpathLists
VpathPlaces == [kind : {"vpath"}, list : Lists, dir : 1 .. ListLength]
StdPlaces == [kind : {"std"}, list : {0}, dir : 1 .. StdDirs]
Cwd == [kind |-> "cwd", list |-> 0, dir |-> 1]
Places == VpathPlaces \cup StdPlaces \cup {Cwd}

LibInit ==
    /\ percent \in [1 .. LibPatterns -> BOOLEAN]
    /\ selected \in [1 .. LibPatterns -> SUBSET (0 .. VpathLists - 1)]
    /\ lib_at \in [1 .. LibPatterns -> SUBSET Places]

-----------------------------------------------------------------------------
(* library_search *)

\* The index of a place, by which the best is chosen: the standard directories
\* come after every list.
VpathIndex(place) == IF place.kind = "std" THEN VpathLists + place.dir ELSE place.list

\* The places of pattern p in the order vpath_search and library_search try them.
InVpath(p) == {a \in VpathPlaces \cap lib_at[p] : a.list = VpathLists \/ a.list \in selected[p]}
FirstInVpath(p) ==
    {a \in InVpath(p) : \A b \in InVpath(p) : a.list < b.list \/ (a.list = b.list /\ a.dir <= b.dir)}
FirstStd(p) == {a \in StdPlaces \cap lib_at[p] : \A b \in StdPlaces \cap lib_at[p] : a.dir <= b.dir}

NotFound == [file |-> << >>, best_vpath |-> 0, best_path |-> 0, stop |-> FALSE]
Found_(p, place) == [file |-> <<p, place>>, best_vpath |-> VpathIndex(place), best_path |-> place.dir, stop |-> FALSE]

BetterVpath(st, place) ==
    st.file = << >> \/ VpathIndex(place) < st.best_vpath \/ (VpathIndex(place) = st.best_vpath /\ place.dir < st.best_path)
\* best_path stays what it was when a standard directory is taken.
TakeStd(st, p) ==
    IF \E a \in FirstStd(p) : st.file = << >> \/ VpathIndex(a) < st.best_vpath
    THEN [Found_(p, CHOOSE a \in FirstStd(p) : TRUE) EXCEPT !.best_path = st.best_path] ELSE st
TakeVpath(st, p) ==
    IF \E a \in FirstInVpath(p) : BetterVpath(st, a) THEN Found_(p, CHOOSE a \in FirstInVpath(p) : TRUE) ELSE st

\* A library in the current directory ends the search, whatever was found before.
library_search ==
    LET after[p \in 0 .. LibPatterns] ==
          IF p = 0 THEN NotFound
          ELSE LET st == after[p - 1]
               IN IF st.stop \/ ~percent[p] THEN st
                  ELSE IF Cwd \in lib_at[p] THEN [Found_(p, Cwd) EXCEPT !.stop = TRUE]
                  ELSE TakeStd(TakeVpath(st, p), p)
    IN after[LibPatterns].file

-----------------------------------------------------------------------------
(* Properties *)

\* The library found is one a linker would take: no pattern has one in an earlier
\* place, and of the patterns with one in that place it is the first's.
SearchRank(place) == IF place.kind = "cwd" THEN 0 ELSE 1 + (VpathIndex(place) * (ListLength + 1)) + (IF place.kind = "std" THEN 0 ELSE place.dir)
LibraryEarliest ==
    LET seen == {<<p, a>> \in (1 .. LibPatterns) \X Places : percent[p] /\ a \in lib_at[p] /\ (a.kind = "vpath" => a \in InVpath(p))}
    IN IF seen = {} THEN library_search = << >>
       ELSE /\ library_search \in seen
            /\ \A s \in seen : \/ SearchRank(library_search[2]) < SearchRank(s[2])
                               \/ SearchRank(library_search[2]) = SearchRank(s[2]) /\ library_search[1] <= s[1]
====
