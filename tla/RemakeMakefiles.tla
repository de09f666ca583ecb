---- MODULE RemakeMakefiles ----
(***************************************************************************)
(* Which makefiles GNU make reads, where it finds them, and what becomes   *)
(* of those it does not find: the include path and eval_makefile of        *)
(* read.c, and the part of main.c that remakes the makefiles as goals and  *)
(* then goes on, starts again or gives up.                                 *)
(*                                                                         *)
(* A directory is <<root, rest>>: "" is the current one, "~" and "~u" are  *)
(* to be expanded, any other root is absolute.  A file is                  *)
(* <<directory, name>>.  What is in a makefile besides the lines that have *)
(* to do with others is the subject of ReadMakefile.                       *)
(*                                                                         *)
(* Left out: -n, -q, -t and -W, loaded objects, and recipes that run in    *)
(* parallel.  How a file is updated is the subject of MakeUpdate: here a   *)
(* rule is known by what it does to its file; "double_colon" stands for a  *)
(* rule with "::", a recipe and no prerequisites.                          *)
(***************************************************************************)
EXTENDS Integers, Sequences, FiniteSets, SequencesExt, FiniteSetsExt, Functions

CONSTANTS
    RmFiles,             \* the files there may be
    RmLines,             \* name of a makefile -> its lines that matter here
    RmStarts,            \* what make may be started with, see RmStart
    default_include_directories, default_makefiles,
    MaxRestarts          \* bound

RmStart ==
    [include_dirs : Seq(Seq(STRING)),    \* -I
     first : Seq(Seq(STRING)),           \* names in MAKEFILES
     makefiles : Seq(STRING),            \* -f
     keep_going : BOOLEAN,
     dirs : SUBSET Seq(STRING),          \* the directories that exist
     home : [variable : STRING, env : STRING, login : STRING, u : STRING],
     locked : SUBSET RmFiles,            \* not readable
     rule : [RmFiles -> {"none", "makes", "dummy", "breaks", "fails", "force", "phony", "double_colon"}]]

ASSUME RemakeAssumption ==
    /\ MaxRestarts \in Nat /\ RmStarts \subseteq RmStart

VARIABLES
    rm,                  \* how make was started: fixed
    rm_time,             \* [RmFiles -> modification time], 0 for no file
    rmphase,             \* "read", "update", "restart", "goals", "dead"
    rm_todo,             \* lines still to be read
    home_variable,       \* the variable HOME
    include_args, include_directories,
    rm_read,             \* read_files, in the order main puts them in
    rm_last_mtime,       \* cached times
    rm_skipped,          \* skipped_makefiles
    rm_mtimes,           \* makefile_mtimes
    rm_at,               \* the goal update_goal_chain is at
    rm_status,           \* its status
    rm_file_status,      \* update_status of files, "none" if not updated
    rm_restarts,
    rm_changed,          \* history: makefiles that had changed at the last restart
    rm_complaints        \* history: how often the error of a file was shown

rmVars == <<rm, rm_time, rmphase, rm_todo, home_variable, include_args, include_directories, rm_read,
            rm_last_mtime, rm_skipped, rm_mtimes, rm_at, rm_status, rm_file_status, rm_restarts,
            rm_changed, rm_complaints>>

Cwd_ == <<"", "">>
SourceTime == 2          \* what the rules make their files from
Unknown_ == -1

-----------------------------------------------------------------------------
(* The include path *)

\* The home of ~ is the variable HOME, else that of the environment, else what
\* the system says; "" if there is none.
tilde_expand(root, home, variable) ==
    IF root = "~u" THEN home.u
    ELSE IF variable # "" THEN variable ELSE IF home.env # "" THEN home.env ELSE home.login

HomeExpanded(dir, home, variable) ==
    IF dir[1] \notin {"~", "~u"} \/ tilde_expand(dir[1], home, variable) = "" THEN dir
    ELSE <<tilde_expand(dir[1], home, variable), dir[2]>>

\* -I - forgets the directories before it and the standard ones.
construct_include_path(args, start, variable) ==
    LET Exist(list) == SelectSeq(list, LAMBDA d : d \in start.dirs)
        Next_(acc, d) == IF d = <<"-", "">> THEN [dirs |-> << >>, disable |-> TRUE]
                         ELSE [acc EXCEPT !.dirs = @ \o Exist(<<HomeExpanded(d, start.home, variable)>>)]
        named == FoldLeft(Next_, [dirs |-> << >>, disable |-> FALSE], args)
    IN named.dirs \o IF named.disable THEN << >> ELSE Exist(default_include_directories)

-----------------------------------------------------------------------------
(* Reading *)

\* Where eval_makefile finds a name and with which error: only one of no file
\* makes it search, and the search ends at a file that cannot be read.
OpenError(file) == IF file \notin RmFiles \/ rm_time[file] = 0 THEN "ENOENT"
                ELSE IF file \in rm.locked THEN "EACCES" ELSE "none"
Under(file) == {i \in DOMAIN include_directories : OpenError(<<include_directories[i], file[2]>>) # "ENOENT"}

SearchMakefile(file, included) ==
    IF OpenError(file) # "ENOENT" \/ ~included \/ file[1] # Cwd_ \/ Under(file) = {}
    THEN [file |-> file, error |-> OpenError(file)]
    ELSE LET found == <<include_directories[Min(Under(file))], file[2]>>
         IN [file |-> found, error |-> OpenError(found)]

FileLine(dir, name, included, dontcare) ==
    [k |-> "file", dir |-> dir, name |-> name, included |-> included, dontcare |-> dontcare]

\* read_all_makefiles: MAKEFILES, then -f or the first default makefile there is.
\* Without any, the default ones become goals nobody cares about.
RmThere(s, time) ==
    {i \in DOMAIN default_makefiles : <<Cwd_, default_makefiles[i]>> \in {f \in RmFiles : time[f] # 0}}
read_all_makefiles_todo(s, time) ==
    [i \in DOMAIN s.first |-> FileLine(s.first[i], "m", TRUE, TRUE)]
    \o (IF s.makefiles # << >> THEN [i \in DOMAIN s.makefiles |-> FileLine(Cwd_, s.makefiles[i], FALSE, FALSE)]
        ELSE IF RmThere(s, time) # {}
        THEN <<FileLine(Cwd_, default_makefiles[Min(RmThere(s, time))], FALSE, FALSE)>>
        ELSE [i \in DOMAIN default_makefiles |-> [k |-> "default", name |-> default_makefiles[i]]])

RmInit ==
    /\ rm \in RmStarts
    /\ rm_time \in [RmFiles -> {0, 1, 3}]
    /\ \A f \in rm.locked : rm_time[f] # 0
    /\ \A f \in RmFiles : rm.rule[f] = "none" => rm_time[f] # 1
    /\ \A f \in RmFiles : f[1] \notin rm.dirs \cup {Cwd_} => rm_time[f] = 0
    /\ rmphase = "read" /\ rm_todo = read_all_makefiles_todo(rm, rm_time)
    /\ home_variable = rm.home.variable
    /\ include_args = rm.include_dirs
    /\ include_directories = construct_include_path(rm.include_dirs, rm, rm.home.variable)
    /\ rm_read = << >> /\ rm_last_mtime = [f \in RmFiles |-> Unknown_]
    /\ rm_skipped = << >> /\ rm_mtimes = << >> /\ rm_at = 1 /\ rm_status = "none"
    /\ rm_file_status = [f \in RmFiles |-> "none"]
    /\ rm_restarts = 0 /\ rm_changed = {} /\ rm_complaints = [f \in RmFiles |-> 0]

\* eval_makefile.  A name with ~ is expanded, whoever gave it; one that is read
\* has its own lines read next.  from is history: the -I in force.
eval_makefile_at(l, rest) ==
    LET s == SearchMakefile(<<HomeExpanded(l.dir, rm.home, home_variable), l.name>>, l.included)
    IN /\ rm_read' = Append(rm_read, [file |-> s.file, error |-> s.error, included |-> l.included,
                                      dontcare |-> l.dontcare, missed |-> s.error # "none",
                                      asked |-> <<l.dir, l.name>>, from |-> include_args, home |-> home_variable])
       /\ rm_last_mtime' = IF s.file \notin RmFiles THEN rm_last_mtime
                           ELSE [rm_last_mtime EXCEPT ![s.file] = IF s.error # "none" THEN 0
                                                                  ELSE IF @ = 0 THEN Unknown_ ELSE @]
       /\ rm_todo' = IF s.error = "none" THEN RmLines[l.name] \o rest ELSE rest
       /\ UNCHANGED <<include_args, include_directories, home_variable>>

\* reset_makeflags: -I in MAKEFLAGS, each directory once.
reset_makeflags(dir) ==
    /\ include_args' = IF dir \in Range(include_args) THEN include_args ELSE Append(include_args, dir)
    /\ include_directories' = construct_include_path(include_args', rm, home_variable)

RmLine ==
    /\ rmphase = "read" /\ rm_todo # << >>
    /\ LET l == Head(rm_todo)
           rest == Tail(rm_todo)
       IN \/ l.k = "file" /\ eval_makefile_at(l, rest)
          \/ /\ l.k = "default" /\ rm_todo' = rest
             /\ rm_read' = Append(rm_read, [file |-> <<Cwd_, l.name>>, error |-> "none", included |-> FALSE,
                                            dontcare |-> TRUE, missed |-> FALSE, asked |-> <<Cwd_, l.name>>,
                                            from |-> include_args, home |-> home_variable])
             /\ UNCHANGED <<rm_last_mtime, include_args, include_directories, home_variable>>
          \/ /\ l.k = "MAKEFLAGS" /\ rm_todo' = rest /\ reset_makeflags(l.dir)
             /\ UNCHANGED <<rm_read, rm_last_mtime, home_variable>>
          \/ /\ l.k = "HOME" /\ rm_todo' = rest /\ home_variable' = l.root
             /\ UNCHANGED <<rm_read, rm_last_mtime, include_args, include_directories>>
    /\ UNCHANGED <<rm, rm_time, rmphase, rm_skipped, rm_mtimes, rm_at, rm_status, rm_file_status,
                   rm_restarts, rm_changed, rm_complaints>>

-----------------------------------------------------------------------------
(* Remaking *)

\* file_mtime_no_search: from the file system while the cached time is unknown.
RuleOf(f) == IF f \in RmFiles THEN rm.rule[f] ELSE "none"
Cached(f) == IF f \in RmFiles THEN IF rm_last_mtime[f] = Unknown_ THEN rm_time[f] ELSE rm_last_mtime[f] ELSE 0

\* A makefile that is phony or has a double-colon rule which always runs would
\* be remade for ever: it is no goal, and an error of it is kept if it matters,
\* the last one first.
MightLoop(d) == RuleOf(d.file) \in {"phony", "double_colon"}
SkipMakefiles ==
    LET goals == SelectSeq(rm_read, LAMBDA d : ~MightLoop(d))
    IN /\ rmphase = "read" /\ rm_todo = << >>
       /\ rm_skipped' = Reverse(SelectSeq(rm_read, LAMBDA d : MightLoop(d) /\ d.error # "none" /\ ~d.dontcare))
       /\ rm_read' = goals
       /\ rm_mtimes' = [i \in DOMAIN goals |-> Cached(goals[i].file)]
       /\ rm_last_mtime' = [f \in RmFiles |-> IF \E i \in DOMAIN goals : goals[i].file = f
                                              THEN Cached(f) ELSE rm_last_mtime[f]]
       /\ rmphase' = "update" /\ rm_at' = 1 /\ rm_status' = "none"
       /\ UNCHANGED <<rm, rm_time, rm_todo, home_variable, include_args, include_directories,
                      rm_file_status, rm_restarts, rm_changed, rm_complaints>>

\* What the update of a makefile with that time by its rule comes to: its new
\* time in the file system and its status.  "dummy" runs and leaves it alone,
\* "breaks" writes it and fails.
RmNow == Max(Range(rm_time) \cup {SourceTime}) + 1
Outcome(rule, time, disk) ==
    LET stale == time < SourceTime
    IN CASE rule = "none" -> [time |-> disk, status |-> IF time = 0 THEN "failed" ELSE "success"]
         [] rule = "dummy" -> [time |-> disk, status |-> "success"]
         [] rule = "force" -> [time |-> RmNow, status |-> "success"]
         [] rule = "makes" -> [time |-> IF stale THEN RmNow ELSE disk, status |-> "success"]
         [] rule = "fails" -> [time |-> disk, status |-> IF stale THEN "failed" ELSE "success"]
         [] rule = "breaks" -> [time |-> IF stale THEN RmNow ELSE disk, status |-> IF stale THEN "failed" ELSE "success"]

\* show_goal_error for the goal at k: the first goal with its file has the
\* error, which is shown once.
FirstWith(f) == Min({i \in DOMAIN rm_read : rm_read[i].file = f})
show_goal_error(k, complain) ==
    LET d == rm_read[k]
        i == FirstWith(d.file)
        shows == complain /\ d.included /\ ~d.dontcare /\ rm_read[i].error # "none"
    IN /\ rm_read' = IF shows THEN [rm_read EXCEPT ![i].error = "none"] ELSE rm_read
       /\ rm_complaints' = IF shows /\ d.file \in RmFiles THEN [rm_complaints EXCEPT ![d.file] = @ + 1]
                           ELSE rm_complaints

\* One goal of update_goal_chain.  A file that was updated before is not again,
\* but a failure nobody cared about then is told now.  A failure that matters
\* is the end of make without -k.
UpdateMakefile ==
    /\ rmphase = "update" /\ rm_at \in DOMAIN rm_read
    /\ LET d == rm_read[rm_at]
           f == d.file
           again == f \in RmFiles /\ rm_file_status[f] # "none"
           before == rm_mtimes[FirstWith(f)]
           o == IF again THEN [time |-> rm_time[f], status |-> rm_file_status[f]]
                ELSE Outcome(RuleOf(f), before, IF f \in RmFiles THEN rm_time[f] ELSE 0)
           ran == RuleOf(f) = "force" \/ RuleOf(f) = "dummy" \/ (RuleOf(f) # "none" /\ before < SourceTime)
           told == again /\ \E i \in 1 .. rm_at - 1 : rm_read[i].file = f /\ ~rm_read[i].dontcare
           failed == o.status = "failed"
           time == IF ran THEN o.time ELSE before
       IN /\ show_goal_error(rm_at, failed /\ ~d.dontcare /\ ~told)
          /\ IF f \in RmFiles
             THEN /\ rm_time' = [rm_time EXCEPT ![f] = o.time]
                  /\ rm_last_mtime' = [rm_last_mtime EXCEPT ![f] = time]
                  /\ rm_file_status' = [rm_file_status EXCEPT ![f] = o.status]
             ELSE UNCHANGED <<rm_time, rm_last_mtime, rm_file_status>>
          /\ rm_status' = IF rm_status = "failed" \/ failed THEN "failed"
                          ELSE IF time # before THEN "success" ELSE rm_status
          /\ rmphase' = IF failed /\ ~d.dontcare /\ ~told /\ ~rm.keep_going THEN "dead" ELSE "update"
    /\ rm_at' = rm_at + 1
    /\ UNCHANGED <<rm, rm_todo, home_variable, include_args, include_directories, rm_skipped, rm_mtimes,
                   rm_restarts, rm_changed>>

\* The makefiles that count as remade when some failed: with a new time, and
\* not failures nobody cares about.
Remade == {i \in DOMAIN rm_read :
              /\ Cached(rm_read[i].file) # rm_mtimes[i]
              /\ rm_file_status[rm_read[i].file] = "failed" => ~rm_read[i].dontcare /\ Cached(rm_read[i].file) # 0}
CaredFailure == \E i \in DOMAIN rm_read :
                    ~rm_read[i].dontcare /\ (rm_read[i].file \in RmFiles => rm_file_status[rm_read[i].file] = "failed")

\* main, after update_goal_chain: with a skipped makefile that matters, what was
\* made does not count.
MakefilesDone ==
    /\ rmphase = "update" /\ rm_at > Len(rm_read)
    /\ LET any_failed == rm_skipped # << >>
           status == IF any_failed /\ rm_status = "success" THEN "none" ELSE rm_status
       IN rmphase' = CASE status = "success" -> "restart"
                       [] status = "failed" /\ Remade # {} -> "restart"
                       [] any_failed \/ (status = "failed" /\ CaredFailure) -> "dead"
                       [] OTHER -> "goals"
    /\ UNCHANGED <<rm, rm_time, rm_todo, home_variable, include_args, include_directories, rm_read, rm_last_mtime,
                   rm_skipped, rm_mtimes, rm_at, rm_status, rm_file_status, rm_restarts, rm_changed, rm_complaints>>

\* re_exec: a new process, given the same options and makefiles, reads everything
\* again; it learns from its environment how often make has restarted.
RestartMake ==
    /\ rmphase = "restart" /\ rm_restarts < MaxRestarts
    /\ rm_restarts' = rm_restarts + 1
    /\ rm_changed' = {f \in RmFiles : \E i \in DOMAIN rm_read : rm_read[i].file = f /\ rm_time[f] # rm_mtimes[i]}
    /\ rmphase' = "read" /\ rm_todo' = read_all_makefiles_todo(rm, rm_time)
    /\ home_variable' = rm.home.variable
    /\ include_args' = rm.include_dirs
    /\ include_directories' = construct_include_path(rm.include_dirs, rm, rm.home.variable)
    /\ rm_read' = << >> /\ rm_last_mtime' = [f \in RmFiles |-> Unknown_]
    /\ rm_skipped' = << >> /\ rm_mtimes' = << >> /\ rm_at' = 1 /\ rm_status' = "none"
    /\ rm_file_status' = [f \in RmFiles |-> "none"]
    /\ rm_complaints' = [f \in RmFiles |-> 0]
    /\ UNCHANGED <<rm, rm_time>>

RmNext == RmLine \/ SkipMakefiles \/ UpdateMakefile \/ MakefilesDone \/ RestartMake

RmSpec == RmInit /\ [][RmNext]_rmVars

-----------------------------------------------------------------------------
(* Properties *)

RmTypeOK ==
    /\ rm \in RmStarts /\ rmphase \in {"read", "update", "restart", "goals", "dead"}
    /\ rm_time \in [RmFiles -> Nat] /\ rm_last_mtime \in [RmFiles -> Nat \cup {Unknown_}]
    /\ rm_at \in 1 .. Len(rm_read) + 1 /\ rm_restarts \in 0 .. MaxRestarts

\* An included makefile is taken from the first of these directories that has
\* it: the one make runs in, those of -I after the last "-", as MAKEFLAGS and
\* HOME are where the line stands, and the standard ones unless there was a "-"
\* (construct_include_path, eval_makefile).
PlacesFor(d) ==
    LET bar == {i \in DOMAIN d.from : d.from[i] = <<"-", "">>}
        last == IF bar = {} THEN 0 ELSE Max(bar)
        named == [i \in 1 .. Len(d.from) - last |-> HomeExpanded(d.from[last + i], rm.home, d.home)]
    IN <<Cwd_>> \o named \o IF bar = {} THEN default_include_directories ELSE << >>

IncludedEarliest ==
    rmphase = "read" =>
        \A i \in DOMAIN rm_read :
            LET d == rm_read[i]
                name == d.asked[2]
                has == {k \in DOMAIN PlacesFor(d) : <<PlacesFor(d)[k], name>> \in RmFiles
                                                    /\ rm_time[<<PlacesFor(d)[k], name>>] # 0}
            IN d.included /\ d.asked[1] = Cwd_ =>
                   IF has = {} THEN d.missed /\ d.file = d.asked
                   ELSE d.file = <<PlacesFor(d)[Min(has)], name>> /\ (d.missed <=> d.file \in rm.locked)

\* make goes on to its goals without a makefile it was told to read, and not by
\* -include, only if a rule for it has succeeded without making it; and it gives
\* up only over a makefile that matters (main, update_goal_chain).
MissingMatters ==
    /\ rmphase = "goals" =>
          \A i \in DOMAIN rm_read : rm_read[i].missed /\ ~rm_read[i].dontcare =>
              rm_read[i].file \in RmFiles /\ rm_file_status[rm_read[i].file] = "success"
    /\ rmphase = "goals" => rm_skipped = << >>
    /\ rmphase = "dead" => rm_skipped # << >> \/ CaredFailure

\* make starts again only after it has changed a makefile it had read or
\* missed, hence, but for rules that always do and makefiles that have a rule
\* and still cannot be read then, at most once for each.
RestartsEnd ==
    /\ rm_restarts > 0 => rm_changed # {}
    /\ (\A f \in RmFiles : rm.rule[f] # "force" /\ (f \in rm.locked => rm.rule[f] = "none")) =>
          rm_restarts <= Cardinality({f \in RmFiles : rm.rule[f] \in {"makes", "breaks"}})

\* However often a missing makefile is included, its error is told once.
ToldOnce == \A f \in RmFiles : rm_complaints[f] <= 1

\* Makefiles are found, remade and missed as the makefiles say.
MakefilesFound == RmTypeOK /\ IncludedEarliest /\ MissingMatters /\ RestartsEnd /\ ToldOnce
====
