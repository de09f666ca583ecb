---- MODULE Jobserver ----
(***************************************************************************)
(* The job control of GNU make as it is ported in source/gnu-make: the     *)
(* jobserver of posixos.c, the life of a job in job.c (new_job,            *)
(* start_waiting_job, reap_children, free_child) and the way out in main.c *)
(* and commands.c (die, clean_jobserver, fatal_error_signal).              *)
(*                                                                         *)
(* Several makes share one pipe of tokens: the root and the makes that     *)
(* recursive recipe lines start.  Which job a make decides on next is the  *)
(* business of remake.c and left open here; see MakeUpdate.  A job is the  *)
(* recipe of one target, a sequence of command lines; a line starts a      *)
(* process or a submake, and may ignore its errors.                        *)
(*                                                                         *)
(* The processes of the system interleave freely.  A make runs one         *)
(* operation of its agenda at a time; the calls that one makes inside      *)
(* another are pushed on the agenda.                                       *)
(***************************************************************************)
EXTENDS Integers, Sequences, FiniteSets

CONSTANTS
    Makes,
    Root,
    Jobs,
    Owner,               \* [Jobs -> Makes]
    CommandLines,        \* [Jobs -> Seq([submake : Makes \cup {NoMake}, noerror : BOOLEAN])]
    NoMake,
    MayBeEmpty,          \* jobs whose lines may all expand to nothing
    master_job_slots,    \* the N of make -jN
    PselectBuilds,       \* values of HAVE_PSELECT to try
    KeepGoing,           \* values of keep_going_flag to try
    Loaded,              \* BOOLEAN: with -l, load_too_high may hold
    SpawnFailures,       \* bound on commands that cannot be started
    Victims              \* makes that may get a SIGTERM from outside

ASSUME JobserverAssumption ==
    /\ Root \in Makes /\ NoMake \notin Makes
    /\ Owner \in [Jobs -> Makes]
    /\ MayBeEmpty \subseteq Jobs
    /\ CommandLines \in [Jobs -> Seq([submake : Makes \cup {NoMake}, noerror : BOOLEAN]) \ {<< >>}]
    /\ IsFiniteSet(Makes) /\ IsFiniteSet(Jobs)
    /\ \A m \in Makes : m # Root <=> \E j \in Jobs : \E l \in DOMAIN CommandLines[j] : CommandLines[j][l].submake = m
    /\ \A i, j \in Jobs : \A k \in DOMAIN CommandLines[i], l \in DOMAIN CommandLines[j] :
          CommandLines[i][k].submake = CommandLines[j][l].submake =>
              CommandLines[i][k].submake = NoMake \/ (i = j /\ k = l)
    /\ master_job_slots \in Nat \ {0, 1}
    /\ Loaded \in BOOLEAN /\ PselectBuilds \subseteq BOOLEAN /\ KeepGoing \subseteq BOOLEAN
    /\ SpawnFailures \in Nat /\ Victims \subseteq Makes

VARIABLES
    pipe,                \* tokens in the pipe
    keep_going_flag,
    HAVE_PSELECT,        \* how the program was built: fixed
    make,                \* the state of each make
    job,                 \* the struct child of each job
    spawnFailures,
    internal,            \* an "INTERNAL:" message was printed
    lost                 \* history: tokens that signalled makes took along

flags == <<keep_going_flag, HAVE_PSELECT>>

vars == <<pipe, flags, make, job, spawnFailures, internal, lost>>

\* "pending": not decided on yet.  "waiting": on the waiting_jobs chain.  The
\* next four are on the children chain: "live", the two ways to have died, and
\* "unstarted" for a pid of -1.  "finished": off the chain and freed.
OnChain == {"live", "won", "failed", "unstarted"}
Dead == OnChain \ {"live"}

Operations == {"reap_or_wait", "looked", "scan", "take_waiting", "token", "pre_acquire", "recheck",
               "acquire", "start", "reap", "wait", "die", "clean_jobserver",
               "acquire_all", "kill"}

MakeState == [
    proc : {"unborn", "running", "dying", "signalled", "exited"},
    agenda : Seq(Operations),
    newjob : SUBSET Jobs,              \* the job that new_job is starting
    jobserver_tokens : Nat,
    jobserver_enabled : BOOLEAN,
    job_slots_used : Nat,
    waiting_jobs : Seq(Jobs),
    more_commands : BOOLEAN,           \* command_count moved since update_goal_chain looked
    sigchld : BOOLEAN,                 \* see pre_acquire
    sigterm : BOOLEAN,                 \* a SIGTERM is on its way
    status : {0, 2}]                   \* MAKE_SUCCESS, MAKE_FAILURE

JobState == [
    child : OnChain \cup {"pending", "waiting", "finished"},
    jobslot : {0, 1},
    command_line : Nat]                \* lines taken so far

JobsOf(m) == {j \in Jobs : Owner[j] = m}
children(m) == {j \in JobsOf(m) : job[j].child \in OnChain}
CurrentLine(j) == CommandLines[j][job[j].command_line]

\* The job whose line runs make m, if any.
ParentJobs(m) == {j \in Jobs : /\ job[j].child = "live"
                               /\ CurrentLine(j).submake = m}

NewMake == [proc |-> "unborn", agenda |-> <<"reap_or_wait">>, newjob |-> {}, jobserver_tokens |-> 0,
            jobserver_enabled |-> TRUE, job_slots_used |-> 0, waiting_jobs |-> << >>,
            more_commands |-> FALSE, sigchld |-> FALSE, sigterm |-> FALSE, status |-> 0]

Init ==
    /\ pipe = master_job_slots - 1          \* jobserver_setup
    /\ keep_going_flag \in KeepGoing /\ HAVE_PSELECT \in PselectBuilds
    /\ make = [m \in Makes |-> IF m = Root THEN [NewMake EXCEPT !.proc = "running"] ELSE NewMake]
    /\ job = [j \in Jobs |-> [child |-> "pending", jobslot |-> 0, command_line |-> 0]]
    /\ spawnFailures = 0
    /\ internal = FALSE /\ lost = 0

Alive(m) == make[m].proc \in {"running", "dying", "signalled"}
At(m, op) == Alive(m) /\ make[m].agenda # << >> /\ Head(make[m].agenda) = op

\* The agenda of m once its first operation is replaced by ops.
Then(m, ops) == ops \o Tail(make[m].agenda)

----------------------------------------------------------------------------
(***************************************************************************)
(* Starting a command.                                                     *)
(***************************************************************************)

\* free_child gives the token back unless it is the one the make was born with.
Released(m) == IF make[m].jobserver_enabled /\ make[m].jobserver_tokens > 1 THEN 1 ELSE 0

\* Line l of j is spawned by a make whose record becomes mk, and a recursive
\* line brings a make to life.  counted says whether the child gets a job slot.
Spawned(m, j, l, mk, counted) ==
    LET next_make == CommandLines[j][l].submake
        began == [job EXCEPT ![j].command_line = l, ![j].child = "live"]
        mk2 == IF counted THEN [mk EXCEPT !.job_slots_used = @ + 1] ELSE mk IN
    /\ job' = IF counted THEN [began EXCEPT ![j].jobslot = 1] ELSE began
    /\ make' = IF next_make = NoMake THEN [make EXCEPT ![m] = mk2]
               ELSE [make EXCEPT ![m] = mk2, ![next_make].proc = "running"]
    /\ UNCHANGED spawnFailures

\* One of the calls of child_execute_job fails, or there is no such program:
\* the child has a pid of -1.
SpawnFails(m, j, l, mk) ==
    /\ spawnFailures < SpawnFailures
    /\ spawnFailures' = spawnFailures + 1
    /\ job' = [job EXCEPT ![j].command_line = l, ![j].child = "unstarted"]
    /\ make' = [make EXCEPT ![m] = mk]

\* The next line of j.
start_job_command(m, j, mk, counted) ==
    LET l == job[j].command_line + 1
    IN Spawned(m, j, l, mk, counted) \/ SpawnFails(m, j, l, mk)

MoreLines(j) == job[j].command_line < Len(CommandLines[j])

\* start_waiting_job puts the job back when the load is too high and another
\* job runs; a job without commands is finished at once; otherwise its first
\* command starts.  back is the agenda if the job has to wait, on otherwise.
start_waiting_job(m, j, mk, back, on) ==
    \/ /\ Loaded /\ mk.job_slots_used > 0                          \* load_too_high
       /\ make' = [make EXCEPT ![m] = [mk EXCEPT !.agenda = back,
                                                 !.waiting_jobs = <<j>> \o @]]
       /\ job' = [job EXCEPT ![j].child = "waiting"]
       /\ UNCHANGED <<pipe, spawnFailures>>
    \/ /\ j \in MayBeEmpty
       /\ make' = [make EXCEPT ![m] = [mk EXCEPT !.agenda = on,
                                                 !.jobserver_tokens = @ - 1]]
       /\ pipe' = IF mk.jobserver_tokens > 1 THEN pipe + 1 ELSE pipe
       /\ job' = [job EXCEPT ![j].child = "finished"]
       /\ UNCHANGED spawnFailures
    \/ /\ start_job_command(m, j, [mk EXCEPT !.agenda = on], TRUE)
       /\ UNCHANGED pipe

----------------------------------------------------------------------------
Goes(m, ops) == make' = [make EXCEPT ![m].agenda = Then(m, ops)]

Others == <<pipe, flags, job, spawnFailures, internal, lost>>

\* start_waiting_jobs: what it does while jobs wait on the chain w, which only
\* its own make changes.
start_waiting_jobs(w) == IF w = << >> THEN << >> ELSE <<"reap", "take_waiting">>

TakeWaiting(m) ==
    /\ At(m, "take_waiting")
    /\ LET w == make[m].waiting_jobs IN
       start_waiting_job(m, Head(w), [make[m] EXCEPT !.waiting_jobs = Tail(w)],
                         Then(m, << >>), Then(m, start_waiting_jobs(Tail(w))))
    /\ UNCHANGED <<flags, internal, lost>>

----------------------------------------------------------------------------
(***************************************************************************)
(* update_goal_chain: a pass starts waiting jobs, reaps, and scans the     *)
(* goals, which decides on jobs.  It blocks for a child only if none       *)
(* finished since the last pass.                                           *)
(***************************************************************************)
ReapOrWait(m) ==
    /\ At(m, "reap_or_wait")
    /\ Goes(m, <<IF make[m].more_commands THEN "reap" ELSE "wait", "looked">>)
    /\ UNCHANGED Others

\* last_cmd_count = command_count comes right after the reaping.
Scanning(m) == At(m, "looked") \/ At(m, "scan")

\* The scan decides to run the recipe of a target: new_job.
DecideOnJob(m, j) ==
    /\ Scanning(m) /\ j \in JobsOf(m) /\ job[j].child = "pending"
    /\ make' = [make EXCEPT
          ![m].agenda = start_waiting_jobs(make[m].waiting_jobs) \o <<"reap", "token", "scan">>,
          ![m].more_commands = @ /\ At(m, "scan"),
          ![m].newjob = {j}]
    /\ UNCHANGED Others

Busy(m) == children(m) # {} \/ make[m].waiting_jobs # << >>

EndScan(m) ==
    /\ Scanning(m) /\ Busy(m)
    /\ make' = [make EXCEPT
          ![m].agenda = start_waiting_jobs(make[m].waiting_jobs) \o <<"reap_or_wait">>,
          ![m].more_commands = @ /\ At(m, "scan")]
    /\ UNCHANGED Others

\* Every target is made, or given up because of a failed one: main calls die.
AllConsidered(m) ==
    /\ Scanning(m) /\ ~Busy(m)
    /\ make[m].status = 2 \/ \A j \in JobsOf(m) : job[j].child = "finished"
    /\ make' = [make EXCEPT ![m].agenda = <<"die">>, ![m].proc = "dying"]
    /\ UNCHANGED Others

----------------------------------------------------------------------------
(***************************************************************************)
(* new_job waits for a token.  Its first job runs on the token that the    *)
(* make was born with.                                                     *)
(***************************************************************************)
GetsToken(m) ==
    make' = [make EXCEPT ![m].agenda = Then(m, <<"start">>), ![m].jobserver_tokens = @ + 1]

NeedToken_two_free(m) ==
    /\ At(m, "token")
    /\ IF make[m].jobserver_tokens <= 1 THEN GetsToken(m)
       ELSE Goes(m, <<"pre_acquire", "reap">> \o start_waiting_jobs(make[m].waiting_jobs)
                     \o <<"recheck">>)
    /\ UNCHANGED Others

NeedToken_reap_before_dup(m) ==
    /\ At(m, "token")
    /\ IF make[m].jobserver_tokens = 0 THEN GetsToken(m)
       ELSE Goes(m, <<"reap">> \o start_waiting_jobs(make[m].waiting_jobs)
                     \o <<"pre_acquire", "recheck">>)
    /\ UNCHANGED Others

NeedToken(m) ==
    /\ At(m, "token")
    /\ IF make[m].jobserver_tokens = 0 THEN GetsToken(m)
       ELSE Goes(m, <<"pre_acquire", "reap">> \o start_waiting_jobs(make[m].waiting_jobs)
                     \o <<"recheck">>)
    /\ UNCHANGED Others

\* With pselect, SIGCHLD is blocked but in pselect itself, and sigchld says
\* that it is pending.  Without, child_handler closes the descriptor job_rfd
\* that the read uses, and sigchld says that it is closed: jobserver_pre_acquire
\* opens it again.
jobserver_pre_acquire(m) ==
    /\ At(m, "pre_acquire")
    /\ make' = [make EXCEPT ![m].agenda = Then(m, << >>),
                            ![m].sigchld = IF HAVE_PSELECT THEN @ ELSE FALSE]
    /\ UNCHANGED Others

\* "INTERNAL: no children as we go to sleep on read" is fatal.
Recheck(m) ==
    /\ At(m, "recheck")
    /\ LET asleep == make[m].jobserver_tokens # 0 /\ children(m) = {} IN
       /\ internal' = (internal \/ asleep)
       /\ IF make[m].jobserver_tokens = 0 THEN GetsToken(m)
          ELSE IF asleep THEN make' = [make EXCEPT ![m].agenda = <<"die">>, ![m].proc = "dying",
                                                   ![m].status = 2]
          ELSE Goes(m, <<"acquire">>)
    /\ UNCHANGED <<pipe, flags, job, spawnFailures, lost>>

jobserver_acquire(m) ==
    /\ At(m, "acquire") /\ pipe > 0
    /\ HAVE_PSELECT \/ ~make[m].sigchld
    /\ GetsToken(m)
    /\ pipe' = pipe - 1
    /\ UNCHANGED <<flags, job, spawnFailures, internal, lost>>

\* EINTR or EBADF because a child died.  The one second timeout for waiting
\* jobs works with pselect only: without, EINTRLOOP restarts the read after
\* the alarm.
AcquireInterrupted(m) ==
    /\ At(m, "acquire")
    /\ make[m].sigchld \/ (HAVE_PSELECT /\ make[m].waiting_jobs # << >>)
    /\ make' = [make EXCEPT ![m].agenda = Then(m, <<"token">>),
                            ![m].sigchld = IF HAVE_PSELECT THEN FALSE ELSE @]
    /\ UNCHANGED Others

StartJob(m) ==
    /\ At(m, "start")
    /\ \E j \in make[m].newjob :
          start_waiting_job(m, j, [make[m] EXCEPT !.newjob = {}], Then(m, << >>), Then(m, << >>))
    /\ UNCHANGED <<flags, internal, lost>>

----------------------------------------------------------------------------
(***************************************************************************)
(* reap_children: "wait" blocks for one child, "reap" takes those that are *)
(* dead already.  A child that never started counts as dead, with exit     *)
(* code 127, and is found first.                                           *)
(***************************************************************************)
Reaping(m) == At(m, "reap") \/ At(m, "wait")

Reapable(m) ==
    LET unstarted == {j \in children(m) : job[j].child = "unstarted"} IN
    IF unstarted # {} THEN unstarted ELSE {j \in children(m) : job[j].child \in Dead}

\* The status that counts: ignored for a line with "-".
LineFailed(j) == job[j].child \in {"failed", "unstarted"} /\ ~CurrentLine(j).noerror

Counts(j) == job[j].child # "unstarted"     \* ++command_count is skipped then

\* Take j off the chain, free it and stop blocking; after a failure without
\* -k, die.
RemoveChild(m, j, ok) ==
    LET dies == ~ok /\ ~keep_going_flag /\ make[m].proc = "running" IN
    /\ job' = [job EXCEPT ![j].child = "finished", ![j].jobslot = 0]
    /\ pipe' = pipe + Released(m)
    /\ make' = [make EXCEPT ![m] = [make[m] EXCEPT
          !.job_slots_used = IF @ > 0 THEN @ - job[j].jobslot ELSE @,
          !.jobserver_tokens = @ - 1,
          !.more_commands = @ \/ Counts(j),
          !.status = IF ok THEN @ ELSE 2,
          !.proc = IF dies THEN "dying" ELSE @,
          !.newjob = IF dies THEN {} ELSE @,
          !.agenda = IF dies THEN <<"die">> ELSE Then(m, <<"reap">>)]]
    /\ UNCHANGED spawnFailures

\* Never start new commands while dying of a signal.
ReapNextLine(m, j) ==
    /\ ~LineFailed(j) /\ MoreLines(j) /\ make[m].proc # "signalled"
    /\ start_job_command(m, j, [make[m] EXCEPT !.more_commands = @ \/ Counts(j)], FALSE)
    /\ UNCHANGED pipe

ReapLastLine(m, j) == ~LineFailed(j) /\ ~MoreLines(j) /\ RemoveChild(m, j, TRUE)

ReapFailure(m, j) ==
    /\ LineFailed(j) \/ (MoreLines(j) /\ make[m].proc = "signalled")
    /\ RemoveChild(m, j, FALSE)

reap_children(m) ==
    /\ Reaping(m)
    /\ \E j \in Reapable(m) : ReapNextLine(m, j) \/ ReapLastLine(m, j) \/ ReapFailure(m, j)
    /\ UNCHANGED <<flags, internal, lost>>

\* Nothing is dead, or there is no child at all.
ReapedAll(m) ==
    /\ Reaping(m) /\ Reapable(m) = {}
    /\ At(m, "wait") => children(m) = {}
    /\ Goes(m, << >>)
    /\ UNCHANGED Others

\* The process of a command line ends; its make gets a SIGCHLD.
CommandEnds(j, result) ==
    /\ job[j].child = "live" /\ CurrentLine(j).submake = NoMake
    /\ job' = [job EXCEPT ![j].child = result]
    /\ make' = [make EXCEPT ![Owner[j]].sigchld = @ \/ Alive(Owner[j])]
    /\ UNCHANGED <<pipe, flags, spawnFailures, internal, lost>>

----------------------------------------------------------------------------
(***************************************************************************)
(* The way out                                                             *)
(***************************************************************************)

\* m exits, its parent sees its child die, and mk is what is left of it.
Exits(m, ok) ==
    /\ job' = [j \in Jobs |-> IF j \in ParentJobs(m)
                              THEN [job[j] EXCEPT !.child = IF ok THEN "won" ELSE "failed"]
                              ELSE job[j]]
    /\ make' = [n \in Makes |->
          IF n = m THEN [make[m] EXCEPT !.proc = "exited", !.agenda = << >>,
                                        !.jobserver_tokens = 0, !.jobserver_enabled = FALSE,
                                        !.sigchld = FALSE]
          ELSE [make[n] EXCEPT !.sigchld = @ \/ (Alive(n) /\ \E j \in ParentJobs(m) : Owner[j] = n)]]

die(m) ==
    /\ At(m, "die")
    /\ Goes(m, IF make[m].job_slots_used > 0 THEN <<"wait", "die">> ELSE <<"clean_jobserver">>)
    /\ UNCHANGED Others

clean_jobserver_all_tokens(m) ==
    /\ At(m, "clean_jobserver")
    /\ pipe' = IF make[m].status = 2 THEN pipe + make[m].jobserver_tokens ELSE pipe
    /\ internal' = (internal \/ (make[m].status # 2 /\ make[m].jobserver_tokens > 0))
    /\ IF m = Root
       THEN /\ make' = [make EXCEPT ![m].agenda = <<"acquire_all">>, ![m].jobserver_tokens = 0]
            /\ UNCHANGED job
       ELSE Exits(m, make[m].status = 0)
    /\ UNCHANGED <<flags, spawnFailures, lost>>

\* After a failure the tokens still held are written back, but for the one
\* the make was born with.
clean_jobserver(m) ==
    /\ At(m, "clean_jobserver")
    /\ LET held == make[m].jobserver_tokens IN
       /\ pipe' = IF make[m].status = 2 /\ held > 1 THEN pipe + held - 1 ELSE pipe
       /\ internal' = (internal \/ (make[m].status # 2 /\ held > 0))
    /\ IF m = Root
       THEN /\ make' = [make EXCEPT ![m].agenda = <<"acquire_all">>, ![m].jobserver_tokens = 0]
            /\ UNCHANGED job
       ELSE Exits(m, make[m].status = 0)
    /\ UNCHANGED <<flags, spawnFailures, lost>>

\* The root reads the pipe until no make has it open for writing any more.
jobserver_acquire_all(m) ==
    /\ At(m, "acquire_all")
    /\ \A n \in Makes \ {m} : ~(Alive(n) /\ make[n].jobserver_enabled)
    /\ pipe' = 0
    /\ internal' = (internal \/ 1 + pipe # master_job_slots)
    /\ Exits(m, make[m].status = 0)
    /\ UNCHANGED <<flags, spawnFailures, lost>>

\* SIGTERM, from outside or passed on by the parent make: the handler forgets
\* the jobserver, kills the children and waits for them.
fatal_error_signal(m) ==
    /\ make[m].proc \in {"running", "dying"}
    /\ make[m].sigterm \/ m \in Victims
    /\ lost' = lost + Released(m) * (make[m].jobserver_tokens - 1)
    /\ LET killed == {j \in children(m) : job[j].child = "live"}
           subs == {CurrentLine(j).submake : j \in killed} IN
       /\ job' = [j \in Jobs |-> IF j \in killed /\ CurrentLine(j).submake = NoMake
                                 THEN [job[j] EXCEPT !.child = "failed"] ELSE job[j]]
       /\ make' = [n \in Makes |->
             IF n = m THEN [make[m] EXCEPT !.proc = "signalled", !.agenda = <<"kill">>,
                                           !.jobserver_enabled = FALSE, !.newjob = {}]
             ELSE [make[n] EXCEPT !.sigterm = @ \/ n \in subs]]
    /\ UNCHANGED <<pipe, flags, spawnFailures, internal>>

KillAndWait(m) ==
    /\ At(m, "kill")
    /\ IF make[m].job_slots_used > 0
       THEN /\ Goes(m, <<"wait", "kill">>) /\ UNCHANGED job
       ELSE Exits(m, FALSE)
    /\ UNCHANGED <<pipe, flags, spawnFailures, internal, lost>>

----------------------------------------------------------------------------
MakeStep(m) ==
    \/ ReapOrWait(m) \/ EndScan(m) \/ AllConsidered(m)
    \/ \E j \in Jobs : DecideOnJob(m, j)
    \/ TakeWaiting(m) \/ NeedToken(m) \/ jobserver_pre_acquire(m) \/ Recheck(m)
    \/ jobserver_acquire(m) \/ AcquireInterrupted(m) \/ StartJob(m)
    \/ reap_children(m) \/ ReapedAll(m)
    \/ die(m) \/ clean_jobserver(m) \/ jobserver_acquire_all(m) \/ KillAndWait(m)

Next ==
    \/ \E m \in Makes : MakeStep(m) \/ fatal_error_signal(m)
    \/ \E j \in Jobs, result \in {"won", "failed"} : CommandEnds(j, result)

\* The operating system schedules every make and every command, commands end,
\* and a signal sent is delivered.
Fairness ==
    /\ \A m \in Makes : /\ WF_vars(MakeStep(m))
                        /\ WF_vars(make[m].sigterm /\ fatal_error_signal(m))
    /\ \A j \in Jobs : WF_vars(\E result \in {"won", "failed"} : CommandEnds(j, result))

Spec == Init /\ [][Next]_vars
FairSpec == Spec /\ Fairness

----------------------------------------------------------------------------
TypeOK ==
    /\ pipe \in 0 .. master_job_slots - 1
    /\ keep_going_flag \in BOOLEAN
    /\ \A m \in Makes : /\ make[m].jobserver_tokens \in Nat
                        /\ make[m].agenda \in Seq(Operations)
    /\ \A j \in Jobs : job[j] \in JobState /\ job[j].command_line <= Len(CommandLines[j])
    /\ internal \in BOOLEAN /\ lost \in Nat

\* The commands that run now, submakes aside: these are what -j limits.
Running == {j \in Jobs : job[j].child = "live" /\ CurrentLine(j).submake = NoMake}

\* die and the signal handler wait while job_slots_used > 0: from here on make m
\* waits for no command of its own any more.
Abandons(m) == \/ make[m].proc = "exited" \/ At(m, "acquire_all")
               \/ make[m].proc = "signalled" /\ make[m].job_slots_used = 0

\* Commands whose make does not wait for them.
Orphans == {j \in Jobs : job[j].child = "live" /\ Abandons(Owner[j])}

\* The tokens makes hold beyond the one they were born with.
HeldTokens == UNION {{m} \X (2 .. make[m].jobserver_tokens) : m \in {n \in Makes : make[n].jobserver_enabled}}

\* However makes start, fail, are killed and release their jobs, no token is
\* made up or thrown away: those in the pipe, those the makes hold and those
\* that killed makes took along are the ones jobserver_setup wrote.
TokensConserved ==
    make[Root].proc # "exited" =>
        pipe + Cardinality(HeldTokens) + lost = master_job_slots - 1

\* make -jN never has more than N commands running, over all submakes, until
\* a make leaves a command of its own behind: the root gives the tokens back
\* before it waits for the other makes, and they start jobs with them.
JobsWithinSlots == Orphans = {} => Cardinality(Running) <= master_job_slots

\* None of the three "INTERNAL:" complaints of job.c and main.c about tokens
\* and children can come up, unless a killed make took tokens along.
NoInternalError == internal => lost > 0

\* A make on its way out leaves a command of its own running only if the first
\* line of that job could not be started and was ignored: the next line then
\* has no job slot.
OrphansNeedSpawnFailure == Orphans # {} => spawnFailures > 0

\* The tokens of the jobserver add up in every state, and no make finds
\* otherwise.
TokensAccounted == TypeOK /\ TokensConserved /\ NoInternalError

\* The job slots bound what runs, and no job outlives its make, but for lines
\* that could not be started.
JobsAccounted == JobsWithinSlots /\ OrphansNeedSpawnFailure

\* No make sleeps for ever, neither on a read that misses the death of a
\* child nor on tokens that nobody gives back: the build ends.
BuildEnds == <>(make[Root].proc = "exited")
====
