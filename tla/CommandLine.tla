---- MODULE CommandLine ----
(***************************************************************************)
(* The switches of GNU make (main.c): they come from MAKEFLAGS in the      *)
(* environment, from the command line and from MAKEFLAGS as the makefile   *)
(* changes it; define_makeflags writes them down for the sub-makes; a make *)
(* that has remade a makefile starts again with its words rewritten.       *)
(* Level 0 is the first make, level 1 a make started by its recipe.        *)
(***************************************************************************)
EXTENDS Getopt

CONSTANTS
    CommandLines,          \* the words a make may be started with
    MakefileFlags,         \* the words a makefile may add to MAKEFLAGS
    SubLines,              \* the words a recipe may give a sub-make
    Digits, Numbers        \* characters of numbers; word -> its value

VARIABLES
    clphase,
    cl_level, restarts,
    opts,                  \* getopt's state
    origin,                \* where the words come from
    sw,                    \* the values of the switches
    orig,                  \* where keep_going and silent were set, 0 if nowhere
    specified,             \* switches that were given
    cl_targets,            \* words that are no options
    returned,              \* what getopt returned
    bad,
    cl_goals,
    argv_slots, env_slots, cl_slots,
    given,                 \* the words of the command line
    inherited,             \* the words of MAKEFLAGS
    past                   \* switches of the parent, or of the make before it started again

clVars == <<clphase, cl_level, restarts, opts, origin, sw, orig, specified, cl_targets, returned, bad, cl_goals,
            argv_slots, env_slots, cl_slots, given, inherited, past>>

INVALID == -1              \* INVALID_JOB_SLOTS
INF == 0                   \* inf_jobs, for -j without a number
from_env == 2
from_command == 5

\* One switch of each kind of the table switches.  env: may come from
\* MAKEFLAGS; toenv: goes there; late: not while makefiles are remade.
Switch(type, val, env, toenv, late, noarg) ==
    [type |-> type, val |-> val, env |-> env, toenv |-> toenv, no_makefile |-> late, noarg |-> noarg]
switches ==
    [k |-> Switch("flag", "keep_going", TRUE, TRUE, FALSE, NoArg),
     n |-> Switch("flag", "just_print", TRUE, TRUE, TRUE, NoArg),
     s |-> Switch("flag", "silent", TRUE, TRUE, FALSE, NoArg),
     S |-> Switch("flag_off", "keep_going", TRUE, TRUE, FALSE, NoArg),
     f |-> Switch("list", "makefiles", FALSE, FALSE, FALSE, NoArg),
     I |-> Switch("list", "include_dirs", TRUE, TRUE, FALSE, NoArg),
     j |-> Switch("int", "jobs", TRUE, TRUE, FALSE, NoArg),
     O |-> Switch("string", "output_sync", TRUE, TRUE, FALSE, <<"target">>),
     W |-> Switch("list", "new_files", FALSE, FALSE, FALSE, NoArg),
     debug |-> Switch("list", "db_flags", TRUE, TRUE, FALSE, <<"b", "asic">>),
     auth |-> Switch("string", "jobserver_auth", TRUE, TRUE, FALSE, NoArg),
     nosilent |-> Switch("flag_off", "silent", TRUE, TRUE, FALSE, NoArg),
     tempstdin |-> Switch("list", "makefiles", FALSE, FALSE, FALSE, NoArg),
     warn |-> Switch("list", "warn", TRUE, TRUE, FALSE, <<"warn">>)]
TrackedOrigin == {"keep_going", "silent"}

DefaultSwitches ==
    [keep_going |-> FALSE, just_print |-> FALSE, silent |-> FALSE, makefiles |-> << >>, include_dirs |-> << >>,
     jobs |-> INVALID, output_sync |-> NoArg, new_files |-> << >>, db_flags |-> << >>, jobserver_auth |-> NoArg,
     warn |-> << >>, variables |-> << >>, db_level |-> {}]

\* The beginning of a process: MAKEFLAGS is decoded first, and counts as much
\* as the command line.
ClStarted(words, flags, lev, again, before) ==
    /\ cl_level' = lev /\ restarts' = again /\ given' = words /\ inherited' = flags /\ past' = before
    /\ clphase' = "env" /\ opts' = getopt_initialize(flags, "RETURN_IN_ORDER") /\ origin' = from_command
    /\ sw' = DefaultSwitches /\ orig' = [v \in TrackedOrigin |-> 0] /\ specified' = {}
    /\ cl_targets' = << >> /\ returned' = << >> /\ bad' = FALSE /\ cl_goals' = << >>
    /\ argv_slots' = INVALID /\ env_slots' = INVALID /\ cl_slots' = INVALID

\* getopt is also run on its own in the orders make does not ask for.
ClInit ==
    \E w \in CommandLines, order \in {"RETURN_IN_ORDER", "PERMUTE", "REQUIRE_ORDER"} :
        /\ cl_level = 0 /\ restarts = 0 /\ given = w /\ inherited = << >> /\ past = DefaultSwitches
        /\ clphase = IF order = "RETURN_IN_ORDER" THEN "env" ELSE "alone"
        /\ opts = getopt_initialize(IF order = "RETURN_IN_ORDER" THEN << >> ELSE w, order) /\ origin = from_command
        /\ sw = DefaultSwitches /\ orig = [v \in TrackedOrigin |-> 0] /\ specified = {}
        /\ cl_targets = << >> /\ returned = << >> /\ bad = FALSE /\ cl_goals = << >>
        /\ argv_slots = INVALID /\ env_slots = INVALID /\ cl_slots = INVALID

-----------------------------------------------------------------------------
(* Decoding *)

\* -j takes the next word if it is a number.
NumberFollows(r) == r.ret = "j" /\ r.arg = NoArg /\ r.g.optind < argc(r.g)
                    /\ \A i \in DOMAIN r.g.argv[r.g.optind] : r.g.argv[r.g.optind][i] \in Digits

\* A switch counts if it is from the command line, or if it may come from
\* MAKEFLAGS and was not set by something stronger.
Doit(s) == origin = from_command \/ (s.env /\ (s.val \notin TrackedOrigin \/ origin >= orig[s.val]))

\* The value after a switch with its argument; a list takes no duplicates,
\* but for makefiles and warnings.
Valued(c, s, arg) ==
    CASE s.type = "flag" -> TRUE
      [] s.type = "flag_off" -> FALSE
      [] s.type = "string" -> IF arg = NoArg THEN s.noarg ELSE arg
      [] s.type = "list" -> LET a == IF arg = NoArg THEN s.noarg ELSE arg
                            IN IF c \notin {"f", "warn"} /\ a \in Range(sw[s.val]) THEN sw[s.val]
                               ELSE Append(sw[s.val], a)
      [] s.type = "int" -> IF arg = NoArg THEN INF ELSE IF arg \in DOMAIN Numbers THEN Numbers[arg] ELSE sw.jobs

\* The switch of the result r of getopt is set to arg.
SetSwitch(r, s, arg) ==
    LET wrong == s.type = "int" /\ arg # NoArg /\ (arg \notin DOMAIN Numbers \/ Numbers[arg] = 0)
    IN IF ~Doit(s) THEN UNCHANGED <<sw, orig, specified, bad>>
       ELSE /\ specified' = specified \cup {r.ret}
            /\ bad' = (bad \/ wrong)
            /\ sw' = IF wrong THEN sw ELSE [sw EXCEPT ![s.val] = Valued(r.ret, s, arg)]
            /\ orig' = IF s.val \in TrackedOrigin THEN [orig EXCEPT ![s.val] = origin] ELSE orig

\* One result of getopt: an unknown switch, a goal or a switch.
Decoded(r) ==
    LET number == NumberFollows(r)
    IN /\ r.ret # "EOF"
       /\ opts' = IF number THEN [r.g EXCEPT !.optind = @ + 1] ELSE r.g
       /\ returned' = Append(returned, r.ret)
       /\ IF r.ret = "?"
          THEN bad' = TRUE /\ UNCHANGED <<sw, orig, specified, cl_targets>>
          ELSE IF r.ret = "1"
          THEN cl_targets' = Append(cl_targets, r.arg) /\ UNCHANGED <<sw, orig, specified, bad>>
          ELSE /\ UNCHANGED cl_targets
               /\ SetSwitch(r, switches[r.ret], IF number THEN r.g.argv[r.g.optind] ELSE r.arg)

\* One round of decode_switches.
decode_switch ==
    /\ clphase \in {"env", "argv", "file"}
    /\ opts.optind <= Len(opts.argv)
    /\ Decoded(getopt_internal(opts))
    /\ UNCHANGED <<clphase, cl_level, restarts, origin, cl_goals, argv_slots, env_slots, cl_slots, given, inherited, past>>

\* A word <<name, "=", ...>> defines a variable; the newest comes first.
IsDefinition(w) == Len(w) >= 2 /\ w[2] = "="
ClDefined(vars, w) ==
    IF \E i \in DOMAIN vars : vars[i][1] = w[1]
    THEN [i \in DOMAIN vars |-> IF vars[i][1] = w[1] /\ origin = from_command THEN w ELSE vars[i]]
    ELSE <<w>> \o vars

\* The debug level after the letters of --debug: "n" turns everything off that was
\* on before it, also what an earlier decoding has turned on.
DebugBits == [b |-> {"basic"}, i |-> {"basic", "implicit"}, j |-> {"jobs"}, m |-> {"basic", "makefiles"},
              p |-> {"print"}, v |-> {"basic", "verbose"}, w |-> {"why"}]
decode_debug_flags(level, flags) ==
    FoldLeft(LAMBDA acc, c : IF c = "n" THEN {}
                             ELSE acc \cup IF c = "a" THEN UNION Range(DebugBits) ELSE DebugBits[c],
             level, [i \in DOMAIN flags |-> Head(flags[i])])

\* The switches that are decoded further at the end; an unknown kind of -O is fatal.
OutputSyncTypes == {NoArg, <<"none">>, <<"line">>, <<"target">>, <<"recurse">>}

\* The words of the variables and goals are taken; a wrong switch of the command
\* line ends make, one of MAKEFLAGS is passed over.
\* What the loop does with the slots of -j is in the caller.
WordsTaken(words) ==
    LET names == SelectSeq(words, LAMBDA w : w # <<"-">> /\ ~IsDefinition(w))
        new == [sw EXCEPT !.variables = FoldLeft(ClDefined, @, SelectSeq(words, IsDefinition)),
                          !.db_level = decode_debug_flags(@, sw.db_flags)]
    IN /\ cl_goals' = IF origin = from_command THEN cl_goals \o names ELSE cl_goals
       /\ IF (bad /\ origin = from_command) \/ sw.output_sync \notin OutputSyncTypes
          THEN clphase' = "usage" /\ sw' = new /\ UNCHANGED <<argv_slots, env_slots>>
          ELSE CASE clphase = "env" -> /\ clphase' = "env done" /\ env_slots' = sw.jobs
                                       /\ sw' = [new EXCEPT !.jobs = INVALID] /\ UNCHANGED argv_slots
                 [] clphase = "argv" -> /\ clphase' = "argv done" /\ argv_slots' = sw.jobs
                                        /\ sw' = [new EXCEPT !.jobs = IF @ = INVALID THEN env_slots ELSE @]
                                        /\ UNCHANGED env_slots
                 [] clphase = "file" -> clphase' = "file done" /\ sw' = new /\ UNCHANGED <<argv_slots, env_slots>>

\* The words that are left at the end of getopt.
LeftOver(r) == SubSeq(r.g.argv, r.g.optind, Len(r.g.argv))

\* The end of decode_switches.
decode_switches_end ==
    /\ clphase \in {"env", "argv", "file"}
    /\ IF opts.optind > Len(opts.argv) THEN WordsTaken(cl_targets)
       ELSE \E r \in {getopt_internal(opts)} : r.ret = "EOF" /\ WordsTaken(cl_targets \o LeftOver(r))
    /\ cl_targets' = << >> /\ returned' = << >> /\ bad' = FALSE
    /\ UNCHANGED <<cl_level, restarts, opts, origin, orig, specified, cl_slots, given, inherited, past>>

\* main goes on with the command line.
ParseArgv ==
    /\ clphase = "env done"
    /\ clphase' = "argv" /\ opts' = getopt_initialize(given, "RETURN_IN_ORDER") /\ origin' = from_command
    /\ UNCHANGED <<cl_level, restarts, sw, orig, specified, cl_targets, returned, bad, cl_goals, argv_slots, env_slots,
                   cl_slots, given, inherited, past>>

\* The jobserver that is named can be used if its pipe or fifo is there; a make
\* with a -j of its own does not look.
jobserver_parse_auth(usable) == argv_slots = INVALID /\ usable

\* reset_jobserver: the switches r without the parent's jobserver.
jobserver_clear(r) == [r EXCEPT !.jobserver_auth = NoArg]

\* The name of the jobserver that a make of this level sets up.
jobserver_get_auth == <<IF cl_level = 0 THEN "J0" ELSE "J1">>

\* A make below another uses its jobserver if it can; then stdin is put in a
\* temporary file.
SetUpJobs(usable) ==
    /\ clphase = "argv done"
    /\ usable \/ (sw.jobserver_auth # NoArg /\ argv_slots = INVALID)
    /\ LET stdin == {i \in DOMAIN sw.makefiles : sw.makefiles[i] = <<"-">>}
           read == [sw EXCEPT !.makefiles = [i \in DOMAIN @ |-> IF i \in stdin THEN <<"T">> ELSE @[i]]]
       IN IF Cardinality(stdin) > 1 THEN clphase' = "usage" /\ UNCHANGED sw
          ELSE /\ clphase' = "read"
               /\ sw' = IF sw.jobserver_auth = NoArg \/ jobserver_parse_auth(usable) THEN read
                        ELSE [jobserver_clear(read) EXCEPT !.jobs = IF argv_slots = INVALID THEN 1 ELSE @]
    /\ UNCHANGED <<cl_level, restarts, opts, origin, orig, specified, cl_targets, returned, bad, cl_goals, argv_slots,
                   env_slots, cl_slots, given, inherited, past>>

-----------------------------------------------------------------------------
(* MAKEFLAGS *)

\* SHORT_NOT_DEFAULT: the switch is on, and was given if it is on by default.
NotDefault(c) ==
    LET s == switches[c]
    IN IF s.type = "flag" THEN sw[s.val] ELSE ~sw[s.val] /\ c \in specified

\* The number of a value, as a word.
NumberWord(n) == CHOOSE w \in DOMAIN Numbers : Numbers[w] = n

\* Warnings are written as one list.
WarnSwitch == IF sw.warn = << >> THEN << >> ELSE [i \in DOMAIN sw.warn |-> <<"-", "-", "warn", "=">> \o sw.warn[i]]

\* define_makeflags: the words of MAKEFLAGS, the switches without argument in
\* one word, variables last.
define_makeflags(makefile) ==
    LET group == SelectSeq(<<"k", "n", "s", "S">>, LAMBDA c : NotDefault(c) /\ (~makefile \/ ~switches[c].no_makefile))
    IN (IF group = << >> THEN << >> ELSE <<<<"-">> \o group>>)
       \o [i \in DOMAIN sw.include_dirs |-> <<"-", "I">> \o sw.include_dirs[i]]
       \o (IF sw.jobs = INVALID THEN << >> ELSE <<<<"-", "j">> \o IF sw.jobs = INF THEN << >> ELSE NumberWord(sw.jobs)>>)
       \o (IF sw.output_sync = NoArg THEN << >> ELSE <<<<"-", "O">> \o sw.output_sync>>)
       \o [i \in DOMAIN sw.db_flags |-> <<"-", "-", "debug", "=">> \o sw.db_flags[i]]
       \o (IF sw.jobserver_auth = NoArg THEN << >> ELSE <<<<"-", "-", "auth", "=">> \o sw.jobserver_auth>>)
       \o (IF NotDefault("nosilent") THEN <<<<"-", "-", "no-", "silent">>>> ELSE << >>)
       \o WarnSwitch
       \o (IF sw.variables = << >> THEN << >> ELSE <<<<"-", "-">>>> \o sw.variables)

\* The makefiles are read; what they make of MAKEFLAGS is decoded with the
\* origin of the environment.
ReadMakefiles ==
    /\ clphase = "read"
    /\ \E flags \in MakefileFlags :
          LET own == define_makeflags(FALSE)
              vars == {i \in DOMAIN own : own[i] = <<"-", "-">>}
          IN opts' = getopt_initialize(IF vars = {} THEN own \o flags
                                    ELSE SubSeq(own, 1, Min(vars) - 1) \o flags \o SubSeq(own, Min(vars), Len(own)),
                                    "RETURN_IN_ORDER")
    /\ clphase' = "file" /\ origin' = from_env
    /\ past' = IF cl_level = 0 /\ restarts = 0 THEN sw ELSE past
    /\ env_slots' = sw.jobs                       \* old_arg_job_slots
    /\ sw' = [sw EXCEPT !.jobs = INVALID, !.warn = << >>]
    /\ UNCHANGED <<cl_level, restarts, orig, specified, cl_targets, returned, bad, cl_goals, argv_slots, cl_slots,
                   given, inherited>>

\* After that: -j of the makefile counts only if the command line has none, and
\* makes the make its own master.
SetUpJobserver(possible) ==
    /\ clphase = "file done"
    /\ LET keep == sw.jobs = INVALID \/ argv_slots # INVALID
           jobs == IF keep THEN env_slots ELSE sw.jobs
           read == [IF ~keep /\ sw.jobs # env_slots THEN jobserver_clear(sw) ELSE sw EXCEPT !.jobs = jobs]
           slots == IF read.jobserver_auth # NoArg THEN 0 ELSE IF jobs = INVALID THEN 1 ELSE jobs
           own == slots > 1 /\ possible
       IN /\ possible \/ slots > 1
          /\ cl_slots' = IF own THEN 0 ELSE slots
          /\ sw' = IF own THEN [read EXCEPT !.jobserver_auth = jobserver_get_auth] ELSE read
    /\ clphase' = "run"
    /\ UNCHANGED <<cl_level, restarts, opts, origin, orig, specified, cl_targets, returned, bad, cl_goals, argv_slots,
                   env_slots, given, inherited, past>>

-----------------------------------------------------------------------------
(* Starting other makes *)

\* A word that is rewritten when make starts again: it begins with a dash and
\* has an f in it, or is --file.
Rewritten(w) == w[1] = "-" /\ Len(w) > 1 /\ (IF w[2] = "-" THEN Len(w) > 2 /\ w[3] = "file" ELSE "f" \in Range(w))

\* The words for starting again: the names of makefiles are put in, and the
\* makefile of stdin becomes an option of its own.
ReExecWords ==
    LET Put(acc, w) ==
            LET mf == sw.makefiles[acc.mfidx]
                long == w[2] = "-"
                at == Min({i \in DOMAIN w : w[i] = IF long THEN "file" ELSE "f"})
                alone == at = Len(w)
                temp == mf = <<"T">>
                words == IF temp
                         THEN (IF ~long /\ at > 2 THEN <<SubSeq(w, 1, at - 1)>> ELSE << >>)
                              \o <<<<"-", "-", "tempstdin", "=">> \o mf>>
                         ELSE IF long THEN <<<<"-", "f">> \o mf>>
                         ELSE IF alone THEN <<w, mf>> ELSE <<SubSeq(w, 1, at) \o mf>>
            IN IF acc.skip THEN [acc EXCEPT !.skip = FALSE]
               ELSE IF ~Rewritten(w) THEN [acc EXCEPT !.words = Append(@, w)]
               ELSE IF acc.mfidx > Len(sw.makefiles) THEN [acc EXCEPT !.ok = FALSE]
               ELSE [acc EXCEPT !.words = @ \o words, !.mfidx = @ + 1, !.skip = alone]
    IN FoldLeft(Put, [words |-> << >>, mfidx |-> 1, skip |-> FALSE, ok |-> TRUE], given)

\* A remade makefile: make starts again, once here.  If the words do not fit
\* the list of makefiles, the program reads past it.
ReExec ==
    /\ clphase = "run" /\ cl_level = 0 /\ restarts = 0
    /\ LET r == IF sw.makefiles = << >> THEN [words |-> given, mfidx |-> 1, ok |-> TRUE] ELSE ReExecWords
       IN /\ r.ok /\ r.mfidx = Len(sw.makefiles) + 1
          /\ ClStarted(r.words, inherited, 0, 1, past)

\* A recipe starts a make.
SubMake(words) ==
    /\ clphase = "run" /\ cl_level = 0
    /\ ClStarted(words, define_makeflags(FALSE), 1, 0, sw)

\* getopt on its own.
Alone ==
    /\ clphase = "alone"
    /\ \E r \in {getopt_internal(opts)} :
          /\ opts' = r.g
          /\ returned' = Append(returned, r.ret)
          /\ clphase' = IF r.ret = "EOF" THEN "alone done" ELSE clphase
    /\ UNCHANGED <<cl_level, restarts, origin, sw, orig, specified, cl_targets, bad, cl_goals, argv_slots, env_slots,
                   cl_slots, given, inherited, past>>

ClNext ==
    \/ decode_switch
    \/ decode_switches_end
    \/ ParseArgv
    \/ \E usable \in BOOLEAN : SetUpJobs(usable)
    \/ ReadMakefiles
    \/ \E possible \in BOOLEAN : SetUpJobserver(possible)
    \/ ReExec
    \/ \E words \in SubLines : SubMake(words)
    \/ Alone

-----------------------------------------------------------------------------
(* Properties *)

\* Type invariant.
ClTypeOK ==
    /\ opts.optind \in 1..argc(opts) /\ opts.first_nonopt \in 1..argc(opts) /\ opts.last_nonopt \in 1..argc(opts)
    /\ cl_slots \in {INVALID, INF} \cup Range(Numbers) \cup {1}

\* What getopt finds in words when it returns them in order.
OneMore(acc, r) ==
    IF acc.end THEN acc
    ELSE CASE r.ret = "EOF" -> [acc EXCEPT !.end = TRUE, !.rest = @ \o LeftOver(r)]
           [] r.ret = "1" -> [acc EXCEPT !.g = r.g, !.rest = Append(@, r.arg)]
           [] OTHER -> [acc EXCEPT !.g = r.g, !.opts = Append(@, r.ret)]

InOrder(words) ==
    FoldLeft(LAMBDA acc, k : OneMore(acc, getopt_internal(acc.g)),
             [g |-> getopt_initialize(words, "RETURN_IN_ORDER"), end |-> FALSE, opts |-> << >>, rest |-> << >>],
             [k \in 1..(4 * Len(words) + 1) |-> k])

\* Permuting changes nothing but the order: the same options are found, and
\* what is left at the end are the other words in the order they were given.
PermutedInOrder ==
    (clphase = "alone done" /\ opts.ordering = "PERMUTE") =>
        /\ \E ref \in {InOrder(given)} : /\ returned = Append(ref.opts, "EOF")
                                         /\ SubSeq(opts.argv, opts.optind, Len(opts.argv)) = ref.rest
        /\ \A w \in Range(given) : Cardinality({i \in DOMAIN given : given[i] = w})
                                     = Cardinality({i \in DOMAIN opts.argv : opts.argv[i] = w})

Passed(v) == [x \in DOMAIN DefaultSwitches \ {"makefiles", "new_files", "variables"} |-> v[x]]

\* A sub-make has the switches of its parent, those of makefiles apart, before
\* it looks at its own words; the variables are the same.
SubMakeInherits ==
    (cl_level = 1 /\ clphase = "env done") =>
        /\ Passed([sw EXCEPT !.jobs = env_slots]) = Passed(past)
        /\ Range(sw.variables) = Range(past.variables)
        /\ cl_goals = << >>

\* A makefile cannot take back what the command line says: with -k, -S, -s or
\* --no-silent from there, the last of them counts.
SwitchesKept ==
    clphase = "run" /\ cl_level = 0 /\ restarts = 0 =>
        \A v \in TrackedOrigin : orig[v] = from_command => sw[v] = past[v]

\* A make that starts again has the same switches as before, unless -W is among
\* them: the rewriting takes an f in its argument (-Wfoo) for -f.
RestartSame ==
    (cl_level = 0 /\ restarts = 1 /\ clphase = "read" /\ \A w \in Range(given) : "W" \notin Range(w)) =>
        [sw EXCEPT !.jobserver_auth = NoArg] = [past EXCEPT !.jobserver_auth = NoArg]

\* A sub-make runs jobs in parallel only under its parent's jobserver, or because
\* its own words or its makefile say so, or because its parent has no limit or
\* could not set up a jobserver.
ParallelByRequest ==
    (cl_level = 1 /\ clphase = "run") =>
        \/ cl_slots = 1
        \/ sw.jobserver_auth = <<"J0">>
        \/ argv_slots # INVALID
        \/ sw.jobs # env_slots                  \* set by the makefile
        \/ past.jobs = INF \/ past.jobserver_auth = NoArg

\* The command line as a whole.
CommandLineCorrect ==
    ClTypeOK /\ PermutedInOrder /\ SubMakeInherits /\ SwitchesKept /\ RestartSame /\ ParallelByRequest
====
