---- MODULE OutputSync ----
(***************************************************************************)
(* --output-sync of gnu-make: output.c, the lock of posixos.c, and the     *)
(* places of job.c and main.c that use them.  A top make runs jobs, one of *)
(* whose lines may be a recursive make, the sub-make, with jobs of its     *)
(* own.  What a job writes is kept in a temporary file and shown when make *)
(* holds a lock that all makes share.  Standard output and standard error  *)
(* are one device.                                                         *)
(*                                                                         *)
(* Every line of a recipe is echoed by make and then writes one text of    *)
(* its own.  Only the sub-make prints the directory it is in.  fcntl and   *)
(* the creation of temporary files may fail, MaxFaults times.  A signal    *)
(* that kills make is not modelled here.                                   *)
(***************************************************************************)
EXTENDS Integers, Sequences, FiniteSets

CONSTANTS
    OutJobs,             \* jobs of both makes
    SubJobs,             \* those of the sub-make
    RecursiveJob,        \* the job of the top make whose last line runs it
    LinesOf,             \* number of lines of each job
    OutModes,            \* values of --output-sync to try
    MaxFaults

ASSUME OutAssumption ==
    /\ SubJobs \subseteq OutJobs \ {RecursiveJob} /\ RecursiveJob \in OutJobs
    /\ "directory" \notin OutJobs
    /\ LinesOf \in [OutJobs -> Nat \ {0}]
    /\ OutModes \subseteq {"line", "target", "recurse"}
    /\ MaxFaults \in Nat

VARIABLES
    mode,                \* --output-sync of the command line: fixed
    output_sync,         \* of each make; "none" once it is suppressed
    osync_handle,        \* the make has the lock file open
    mutex_file,          \* the lock file has not been unlinked
    lock,                \* holder of the fcntl lock, or "none"
    doing,               \* what each make is doing, for which job, and what then
    recipe,              \* state and line of each job
    syncout,             \* of the job's output structure
    tmp_set,             \* the job has a temporary file
    tmp,                 \* what is in it
    to_tmp,              \* the running command of the job writes to it
    screen,              \* what has been shown
    traced,              \* stdio_traced of the sub-make
    faults,
    texts_written        \* history: texts written so far

outVars == <<mode, output_sync, osync_handle, mutex_file, lock, doing, recipe, syncout,
             tmp_set, tmp, to_tmp, screen, traced, faults, texts_written>>
files == <<tmp_set, tmp, to_tmp>>
locking == <<osync_handle, mutex_file, lock>>

MakeProcs == {"top", "sub"}
OwnerOf(j) == IF j \in SubJobs THEN "sub" ELSE "top"
RecipesOf(m) == {j \in OutJobs : OwnerOf(j) = m}
Text(j, part) == [job |-> j, line |-> recipe[j].line, part |-> part]
Dir(part) == [job |-> "directory", line |-> 0, part |-> part]
IdleMake == [at |-> "idle", job |-> RecursiveJob, then |-> "idle"]
IsRecursive(j) == j = RecursiveJob /\ recipe[j].line = LinesOf[j]

OutInit ==
    /\ mode \in OutModes
    /\ output_sync = [m \in MakeProcs |-> mode]
    /\ osync_handle = [m \in MakeProcs |-> m = "top"]
    /\ mutex_file = TRUE
    /\ lock = "none"
    /\ doing = [m \in MakeProcs |-> [IdleMake EXCEPT !.at = IF m = "top" THEN "idle" ELSE "none"]]
    /\ recipe = [j \in OutJobs |-> [at |-> "new", line |-> 1]]
    /\ syncout = [j \in OutJobs |-> TRUE]
    /\ tmp_set = [j \in OutJobs |-> FALSE]
    /\ tmp = [j \in OutJobs |-> << >>]
    /\ to_tmp = [j \in OutJobs |-> FALSE]
    /\ screen = << >>
    /\ traced = FALSE
    /\ faults = 0
    /\ texts_written = {}

----------------------------------------------------------------------------
(***************************************************************************)
(* Where things are written                                                *)
(***************************************************************************)
\* Standard output of make m is the temporary file of the recursive job if
\* that job was synced when it was started, and the screen otherwise.
ToParentTmp(m) == m = "sub" /\ to_tmp[RecursiveJob]

WriteStdout(m, texts) ==
    IF ToParentTmp(m)
    THEN tmp' = [tmp EXCEPT ![RecursiveJob] = @ \o texts] /\ UNCHANGED screen
    ELSE screen' = screen \o texts /\ UNCHANGED tmp

\* The lock goes with the descriptor; the root unlinks the file.
osync_clear(m) ==
    /\ osync_handle' = [osync_handle EXCEPT ![m] = FALSE]
    /\ lock' = IF lock = m THEN "none" ELSE lock
    /\ mutex_file' = (mutex_file /\ m # "top")

should_print_dir(m) == m = "sub"

\* What output_start prints before anything else.
Entering(m, sync) ==
    IF sync \in {"none", "recurse"} /\ should_print_dir(m) /\ ~traced
    THEN <<Dir("enter")>> ELSE << >>

----------------------------------------------------------------------------
(***************************************************************************)
(* output_dump, in steps, for job doing[m].job; then make goes on as doing[m].then*)
(***************************************************************************)
Dump(m, j, then) ==
    doing' = [doing EXCEPT ![m] = [at |-> IF tmp_set[j] /\ tmp[j] # << >> THEN "lock" ELSE then,
                             job |-> j, then |-> then]]

\* Mutant: nobody waits for the lock.
osync_acquire_not_waiting(m) == lock' = IF osync_handle[m] THEN m ELSE lock

osync_acquire(m) ==
    IF osync_handle[m] THEN lock = "none" /\ lock' = m ELSE UNCHANGED lock

DumpLock(m) ==
    /\ doing[m].at = "lock"
    /\ osync_acquire(m)
    /\ doing' = [doing EXCEPT ![m].at = "enter"]
    /\ UNCHANGED <<mode, output_sync, osync_handle, mutex_file, recipe, syncout, files, screen,
                   traced, faults, texts_written>>

\* "dump the output unsynchronized; still better than silently discarding it"
DumpLockFails(m) ==
    /\ doing[m].at = "lock" /\ osync_handle[m] /\ faults < MaxFaults
    /\ faults' = faults + 1
    /\ osync_clear(m)
    /\ doing' = [doing EXCEPT ![m].at = "enter"]
    /\ UNCHANGED <<mode, output_sync, recipe, syncout, files, screen, traced, texts_written>>

DumpTraces(m) == output_sync[m] # "recurse" /\ should_print_dir(m)

DumpEnter(m) ==
    /\ doing[m].at = "enter"
    /\ WriteStdout(m, IF DumpTraces(m) THEN <<Dir("enter")>> ELSE << >>)
    /\ doing' = [doing EXCEPT ![m].at = "pump"]
    /\ UNCHANGED <<mode, output_sync, locking, recipe, syncout, tmp_set, to_tmp, traced, faults,
                   texts_written>>

\* pump_from_tmp, one text at a time.  In the file of the job nothing is left
\* at the end: it is truncated.
DumpText(m) ==
    /\ doing[m].at = "pump" /\ tmp[doing[m].job] # << >>
    /\ LET text == Head(tmp[doing[m].job])
           rest == [tmp EXCEPT ![doing[m].job] = Tail(@)] IN
       IF ToParentTmp(m)
       THEN tmp' = [rest EXCEPT ![RecursiveJob] = Append(@, text)] /\ UNCHANGED screen
       ELSE tmp' = rest /\ screen' = Append(screen, text)
    /\ UNCHANGED <<mode, output_sync, locking, doing, recipe, syncout, tmp_set, to_tmp, traced, faults,
                   texts_written>>

DumpLeave(m) ==
    /\ doing[m].at = "pump" /\ tmp[doing[m].job] = << >>
    /\ WriteStdout(m, IF DumpTraces(m) THEN <<Dir("leave")>> ELSE << >>)
    /\ doing' = [doing EXCEPT ![m].at = "unlock"]
    /\ UNCHANGED <<mode, output_sync, locking, recipe, syncout, tmp_set, to_tmp, traced, faults,
                   texts_written>>

\* Mutant: the lock is kept until make ends.
osync_release_at_exit(m) == UNCHANGED lock

osync_release(m) == lock' = IF osync_handle[m] THEN "none" ELSE lock

DumpUnlock(m) ==
    /\ doing[m].at = "unlock"
    /\ osync_release(m)
    /\ doing' = [doing EXCEPT ![m].at = doing[m].then]
    /\ UNCHANGED <<mode, output_sync, osync_handle, mutex_file, recipe, syncout, files, screen,
                   traced, faults, texts_written>>

output_dump(m) ==
    \/ DumpLock(m) \/ DumpLockFails(m) \/ DumpEnter(m) \/ DumpText(m) \/ DumpLeave(m)
    \/ DumpUnlock(m)

----------------------------------------------------------------------------
(***************************************************************************)
(* Jobs of make m                                                          *)
(***************************************************************************)

\* "to avoid misordered output ensure any already-synced content is written"
DumpBefore(m, j, synced) ==
    IF synced THEN doing' = [doing EXCEPT ![m] = [at |-> "echo", job |-> j, then |-> "echo"]]
    ELSE Dump(m, j, "echo")

\* start_job_command up to the echo, for a new job or for the next line.
StartLine(m) ==
    \E j \in RecipesOf(m) :
        /\ \/ doing[m].at = "idle" /\ recipe[j].at = "new"
           \/ doing[m].at = "next" /\ doing[m].job = j
        /\ LET synced == output_sync[m] # "none"
                            /\ (output_sync[m] = "recurse" \/ ~IsRecursive(j)) IN
           /\ syncout' = [syncout EXCEPT ![j] = synced]
           /\ DumpBefore(m, j, synced)
        /\ UNCHANGED <<mode, output_sync, locking, recipe, files, screen, traced, faults, texts_written>>

\* The echo, and the command is started.  Make writes to the temporary file,
\* which is set up if need be, or to standard output (set); the command's own
\* output goes there or not (command_set).
StartCommand(m, j, set, sync, command_set) ==
    /\ to_tmp' = [to_tmp EXCEPT ![j] = command_set]
    /\ tmp_set' = [tmp_set EXCEPT ![j] = command_set \/ @]
    /\ traced' = (traced \/ Entering(m, sync) # << >>)
    /\ IF set
       THEN /\ LET own == [tmp EXCEPT ![j] = Append(@, Text(j, "echo"))] IN
               IF ToParentTmp(m)
               THEN /\ tmp' = [own EXCEPT ![RecursiveJob] = @ \o Entering(m, sync)]
                    /\ UNCHANGED screen
               ELSE tmp' = own /\ screen' = screen \o Entering(m, sync)
       ELSE WriteStdout(m, Append(Entering(m, sync), Text(j, "echo")))
    /\ texts_written' = texts_written \cup {Text(j, "echo")}
    /\ recipe' = [recipe EXCEPT ![j].at = "run"]
    /\ doing' = [doing EXCEPT ![m] = IdleMake,
                        !["sub"] = IF IsRecursive(j) THEN [@ EXCEPT !.at = "start"]
                                   ELSE IF m = "sub" THEN IdleMake ELSE @]
    /\ UNCHANGED mode

Echo(m) ==
    /\ doing[m].at = "echo"
    /\ StartCommand(m, doing[m].job, syncout[doing[m].job], output_sync[m], syncout[doing[m].job])
    /\ UNCHANGED <<output_sync, locking, syncout, faults>>

\* setup_tmpfile fails for the echo: no line that this make starts later is
\* synced.  But syncout of this one stays set, as output_close comes before
\* output_sync is reset: the command may yet get a temporary file.
EchoWithoutTmpfile(m) ==
    /\ doing[m].at = "echo" /\ syncout[doing[m].job] /\ ~tmp_set[doing[m].job] /\ faults < MaxFaults
    /\ faults' = faults + 1
    /\ output_sync' = [output_sync EXCEPT ![m] = "none"]
    /\ osync_clear(m)
    /\ \E again \in BOOLEAN : StartCommand(m, doing[m].job, FALSE, "none", again)
    /\ UNCHANGED syncout

\* The command writes its text and ends; a recursive one is the sub-make.
CommandWrites(j) ==
    /\ recipe[j].at = "run" /\ ~IsRecursive(j)
    /\ IF to_tmp[j]
       THEN tmp' = [tmp EXCEPT ![j] = Append(@, Text(j, "text"))] /\ UNCHANGED screen
       ELSE WriteStdout(OwnerOf(j), <<Text(j, "text")>>)
    /\ texts_written' = texts_written \cup {Text(j, "text")}
    /\ recipe' = [recipe EXCEPT ![j].at = "ended"]
    /\ UNCHANGED <<mode, output_sync, locking, doing, syncout, tmp_set, to_tmp, traced, faults>>

SubMakeEnds ==
    /\ doing["sub"].at = "exit" /\ recipe[RecursiveJob].at = "run"
    /\ recipe' = [recipe EXCEPT ![RecursiveJob].at = "ended"]
    /\ UNCHANGED <<mode, output_sync, locking, doing, syncout, files, screen, traced, faults, texts_written>>

DumpsBetweenLines(m) == output_sync[m] = "line"

\* job_next_command
LinesLeft(j) == recipe[j].line < LinesOf[j]

\* reap_children, for one child that ended.
Reap(m) ==
    /\ doing[m].at = "idle"
    /\ \E j \in RecipesOf(m) :
          /\ recipe[j].at = "ended"
          /\ IF LinesLeft(j)
             THEN /\ recipe' = [recipe EXCEPT ![j].line = @ + 1]
                  /\ IF DumpsBetweenLines(m) THEN Dump(m, j, "next")
                     ELSE doing' = [doing EXCEPT ![m] = [at |-> "next", job |-> j, then |-> "next"]]
             ELSE /\ recipe' = [recipe EXCEPT ![j].at = "done"]
                  /\ Dump(m, j, "idle")
    /\ UNCHANGED <<mode, output_sync, locking, syncout, files, screen, traced, faults, texts_written>>

----------------------------------------------------------------------------
(***************************************************************************)
(* Makes                                                                   *)
(***************************************************************************)

\* osync_parse_mutex: a fatal error if the file is gone.
SubMakeStarts ==
    /\ doing["sub"].at = "start"
    /\ doing' = [doing EXCEPT !["sub"].at = IF mutex_file THEN "idle" ELSE "exit"]
    /\ osync_handle' = [osync_handle EXCEPT !["sub"] = mutex_file]
    /\ UNCHANGED <<mode, output_sync, mutex_file, lock, recipe, syncout, files, screen, traced, faults,
                   texts_written>>

\* The end of die.
MakeDies(m) ==
    /\ doing[m].at = "idle" /\ \A j \in RecipesOf(m) : recipe[j].at = "done"
    /\ doing' = [doing EXCEPT ![m].at = "exit"]
    /\ WriteStdout(m, IF m = "sub" /\ traced THEN <<Dir("leave")>> ELSE << >>)
    /\ osync_clear(m)
    /\ UNCHANGED <<mode, output_sync, recipe, syncout, tmp_set, to_tmp, traced, faults, texts_written>>

OutNext ==
    \/ \E m \in MakeProcs : \/ output_dump(m) \/ StartLine(m) \/ Echo(m) \/ EchoWithoutTmpfile(m)
                            \/ Reap(m) \/ MakeDies(m)
    \/ \E j \in OutJobs : CommandWrites(j)
    \/ SubMakeEnds
    \/ SubMakeStarts

\* No process stops for ever.
OutFairness == WF_outVars(OutNext)

----------------------------------------------------------------------------
(***************************************************************************)
(* Properties                                                              *)
(***************************************************************************)
\* Type invariant.
OutTypeOK ==
    /\ lock \in MakeProcs \cup {"none"}
    /\ \A m \in MakeProcs :
          /\ output_sync[m] \in {mode, "none"}
          /\ doing[m].at \in {"none", "start", "idle", "next", "echo", "lock", "enter", "pump", "unlock",
                           "exit"}
    /\ \A j \in OutJobs : recipe[j].at \in {"new", "run", "ended", "done"}
                            /\ recipe[j].line \in 1..LinesOf[j]

\* The unit that is kept together: a line, a job, or a job of the top make.
Unit(t) ==
    CASE mode = "line" -> <<t.job, t.line>>
      [] mode = "target" -> <<t.job>>
      [] mode = "recurse" /\ t.job \in SubJobs \cup {"directory"} -> <<RecursiveJob>>
      [] OTHER -> <<t.job>>
Synced(t) == mode = "recurse" \/ t.job \notin {RecursiveJob, "directory"}

\* "keep the results of each job together": nothing is shown in the middle of
\* the output of a line, a job or a recursive make, as --output-sync says, as
\* long as no system call failed.
OutputKeptTogether ==
    faults = 0 =>
        \A i, k, l \in DOMAIN screen :
            i < k /\ k < l /\ Synced(screen[i]) /\ Unit(screen[i]) = Unit(screen[l])
            => Unit(screen[k]) = Unit(screen[i])

Count(s, t) == Cardinality({i \in DOMAIN s : s[i] = t})

\* "still better than silently discarding it": every text is kept or shown
\* exactly once, whichever make could not lock or keep it, and all are shown
\* when the top make ends.
NothingDiscarded ==
    \A t \in texts_written :
        \/ Count(screen, t) = 1 /\ \A j \in OutJobs : Count(tmp[j], t) = 0
        \/ /\ doing["top"].at # "exit" /\ Count(screen, t) = 0
           /\ \E j \in OutJobs : Count(tmp[j], t) = 1
                                    /\ \A k \in OutJobs \ {j} : Count(tmp[k], t) = 0

\* The texts of a job are shown in the order they were written, also when its
\* lines are synced by turns or syncing was given up half way.
ShownInOrder ==
    \A i, k \in DOMAIN screen :
        i < k /\ screen[i].job = screen[k].job /\ screen[i].job # "directory" =>
            \/ screen[i].line < screen[k].line
            \/ screen[i].line = screen[k].line /\ screen[i].part = "echo"

\* What the sub-make's jobs wrote is shown after its "Entering directory" and
\* before its "Leaving directory", which other output never comes between.
DirectoryTold ==
    faults = 0 =>
        \A k \in DOMAIN screen : screen[k].job \in SubJobs =>
            \E i \in 1..k : /\ screen[i] = Dir("enter")
                            /\ \A l \in i..k : screen[l] # Dir("leave")
                                                  /\ screen[l].job \in SubJobs \cup {"directory"}

\* A sub-make fails to start only if the top make gave up syncing before: it
\* has then unlinked the lock file that MAKEFLAGS still names.
SubMakeFailsAfterFault ==
    doing["sub"].at = "exit" /\ (\E j \in SubJobs : recipe[j].at = "new") =>
        faults > 0 /\ ~osync_handle["top"]

\* Output synchronisation as a whole: what the jobs of two makes wrote is shown
\* together, once, in order and within the right directory messages.
OutputCorrect ==
    /\ OutTypeOK /\ OutputKeptTogether /\ NothingDiscarded /\ ShownInOrder
    /\ DirectoryTold /\ SubMakeFailsAfterFault

\* The makes do not wait for each other for ever.
OutputShown == <>(doing["top"].at = "exit")
====
