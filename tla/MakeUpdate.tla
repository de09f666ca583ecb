---- MODULE MakeUpdate ----
(***************************************************************************)
(* How GNU make, as ported in source/gnu-make, brings its goals up to      *)
(* date: remake.c, with the parts of job.c and commands.c that start and   *)
(* reap recipes.  update_file_1 calls itself for every prerequisite; its   *)
(* activations are the frames of the stack.  Recipes run as processes of   *)
(* their own and end at any time, but make notices only when it reaps,     *)
(* between two passes over the goals and inside new_job.                   *)
(*                                                                         *)
(* With --shuffle (shuffle.c) a list is walked in another order than it is *)
(* written in: each struct dep on it names the one to visit in its place.  *)
(*                                                                         *)
(* Left out: double-colon rules, intermediate files, VPATH, archives and   *)
(* the -n, -q, -t, -B modes.  Tokens and load are the subject of Jobserver.*)
(***************************************************************************)
EXTENDS Integers, Sequences, FiniteSets, SequencesExt

CONSTANTS
    Files,
    Makefiles,       \* records with the fields of MakefileShape
    JobSlots,        \* values of job_slots to try
    KeepGoing,       \* values of keep_going_flag to try
    ShuffleModes,    \* values of --shuffle to try
    OldTimes,        \* modification times before the build; 0: does not exist
    MayFail          \* targets whose recipe may fail

MakefileShape == [
    goals : Seq(Files),
    deps : [Files -> Seq(Files)],
    order_only : SUBSET (Files \X Files),    \* ignore_mtime
    wait_here : SUBSET (Files \X Files),     \* .WAIT before the prerequisite
    phony : SUBSET Files,
    cmds : SUBSET Files,                     \* files with a recipe
    empty : SUBSET Files,                    \* of these, with nothing but whitespace in it
    is_target : SUBSET Files,
    also_make : [Files -> Seq(Files)]]       \* the peers of a grouped target

ASSUME MakeAssumption ==
    /\ Makefiles \subseteq MakefileShape
    /\ JobSlots \subseteq Nat \ {0} /\ KeepGoing \subseteq BOOLEAN
    /\ ShuffleModes \subseteq {"none", "identity", "reverse", "random"}
    /\ OldTimes \subseteq Nat /\ MayFail \subseteq Files
    /\ IsFiniteSet(Files)

VARIABLES
    mf,              \* the makefile: fixed
    job_slots, keep_going_flag,              \* fixed
    shuf,            \* for each list the order it is walked in: fixed
    file,            \* the struct file of each file
    deps,            \* the lists of prerequisites
    considered,      \* files considered on this pass
    stack,           \* the activations of update_file_1, innermost first
    ret,             \* what the last update_file returned
    at,              \* where make is, see Next
    goals,           \* of update_goal_chain: still to be made
    visited,         \* how many of them this pass has seen
    goal_status,     \* status of update_goal_chain
    more_commands,   \* a child was reaped since the last pass
    children,        \* [files whose recipe runs -> "live", "won", "failed"]
    disk,            \* modification times in the file system
    now,             \* the clock
    runs             \* history: how often each recipe was started

vars == <<mf, job_slots, keep_going_flag, shuf, file, deps, considered, stack, ret, at, goals,
          visited, goal_status, more_commands, children, disk, now, runs>>
fixed == <<mf, job_slots, keep_going_flag, shuf>>
goalVars == <<goals, visited, goal_status>>
world == <<children, disk, now, runs>>

UNKNOWN_MTIME == -1
NONEXISTENT_MTIME == 0

PeersIn(m, f) == ToSet(m.also_make[f])
Peers(f) == PeersIn(mf, f)

\* A struct dep is named by the target whose list it was read for and the file.
Listed(f) == [i \in DOMAIN mf.deps[f] |-> <<f, mf.deps[f][i]>>]

----------------------------------------------------------------------------
(***************************************************************************)
(* --shuffle                                                               *)
(***************************************************************************)
\* What the shuffler of a mode may make of a list.  The random one swaps every
\* element with one before it or itself, which gives any permutation.
shuffler(mode, list) ==
    CASE mode \in {"none", "identity"} -> {list}
      [] mode = "reverse" -> {Reverse(list)}
      [] mode = "random" -> {[i \in DOMAIN list |-> list[p[i]]] : p \in Bijection(DOMAIN list, DOMAIN list)}

\* A list with .WAIT in it keeps its order.
shuffle_deps(mode, f) ==
    IF ToSet(Listed(f)) \cap mf.wait_here # {} THEN {Listed(f)} ELSE shuffler(mode, Listed(f))

\* Prerequisites are followed from the goals; a peer of a grouped target is not.
Reachable == LET step[n \in Nat] ==
                    IF n = 0 THEN ToSet(mf.goals)
                    ELSE step[n - 1] \cup UNION {ToSet(mf.deps[x]) : x \in step[n - 1]}
             IN step[Cardinality(Files)]

shuffle_deps_recursive(mode, f) == IF f \in Reachable THEN shuffle_deps(mode, f) ELSE {Listed(f)}

\* The struct dep to visit when the walk is at p.
Shuffled(p) == shuf[p[1]][CHOOSE i \in DOMAIN Listed(p[1]) : Listed(p[1])[i] = p]

\* snap_deps: a phony file counts as nonexistent, whatever the disk holds.
FreshFile(phony) == [command_state |-> "not_started", updated |-> FALSE, update_status |-> "none",
                     last_mtime |-> IF phony THEN NONEXISTENT_MTIME ELSE UNKNOWN_MTIME,
                     updating |-> FALSE, changed |-> {}]

Init ==
    /\ mf \in Makefiles
    /\ job_slots \in JobSlots /\ keep_going_flag \in KeepGoing
    /\ file = [f \in Files |-> FreshFile(f \in mf.phony)]
    /\ deps = [f \in Files |-> Listed(f)]
    /\ considered = {} /\ stack = << >>
    /\ ret = "success" /\ at = "pass"
    /\ \E mode \in ShuffleModes :
          /\ goals \in shuffler(mode, mf.goals)
          /\ \E order \in [Files -> UNION {shuffle_deps_recursive(mode, f) : f \in Files}] :
                /\ \A f \in Files : order[f] \in shuffle_deps_recursive(mode, f)
                /\ shuf = order
    /\ visited = 0 /\ goal_status = "none"
    /\ more_commands = TRUE
    /\ children = << >>
    /\ disk \in {d \in [Files -> OldTimes] :
                    \A f \in Files : f \in mf.phony => d[f] = NONEXISTENT_MTIME}
    /\ now \in {t \in OldTimes : \A u \in OldTimes : u <= t}
    /\ runs = [f \in Files |-> 0]

----------------------------------------------------------------------------
(***************************************************************************)
(* Time stamps and states of files                                         *)
(***************************************************************************)

\* file_mtime asks the file system only while the cached time is unknown.
MtimeIn(fs, f) == IF fs[f].last_mtime = UNKNOWN_MTIME THEN disk[f] ELSE fs[f].last_mtime
file_mtime(f) == MtimeIn(file, f)
Stat(fs, f) == [fs EXCEPT ![f].last_mtime = MtimeIn(fs, f)]

StateRank(s) == CASE s = "not_started" -> 0 [] s = "deps_running" -> 1
                  [] s = "running" -> 2 [] s = "finished" -> 3

\* Mutant: the peers are forgotten.
set_command_state_alone(fs, f, state) == [fs EXCEPT ![f].command_state = state]

\* Peers are never lowered.
set_command_state(fs, f, state) ==
    [g \in Files |->
        IF g = f \/ (g \in Peers(f) /\ StateRank(state) > StateRank(fs[g].command_state))
        THEN [fs[g] EXCEPT !.command_state = state] ELSE fs[g]]

\* A recipe that ran has its target looked at again, and its outcome is that
\* of the peers too.
notice_finished_file(fs, f) ==
    LET ran == fs[f].command_state = "running"
        done == [fs[f] EXCEPT !.command_state = "finished", !.updated = TRUE,
                              !.last_mtime = IF ran /\ f \notin mf.phony THEN UNKNOWN_MTIME ELSE @,
                              !.update_status = IF @ = "none" THEN "success" ELSE @] IN
    [g \in Files |->
        IF g = f THEN done
        ELSE IF ran /\ fs[f].update_status # "none" /\ g \in Peers(f)
             THEN [fs[g] EXCEPT !.command_state = "finished", !.updated = TRUE,
                                !.update_status = fs[f].update_status,
                                !.last_mtime = IF g \in mf.phony THEN @ ELSE disk[g]]
             ELSE fs[g]]

Finish(fs, f, status) == notice_finished_file([fs EXCEPT ![f].update_status = status], f)

\* Mutant: only the recipe itself counts as progress.
InProgress_running_only(f) == file[f].command_state = "running"

InProgress(f) == file[f].command_state \in {"running", "deps_running"}

----------------------------------------------------------------------------
(***************************************************************************)
(* update_file, and update_file_1 up to its first prerequisite             *)
(***************************************************************************)
\* The prerequisites of f and then of its peers are walked; kept is lastd # 0.
Frame(f, fs) ==
    LET group == {f} \cup Peers(f)
        times == {MtimeIn(fs, g) : g \in group} IN
    [file |-> f,
     todo |-> deps[f], kept |-> FALSE, lists |-> mf.also_make[f],
     noexist |-> NONEXISTENT_MTIME \in times,
     this_mtime |-> CHOOSE t \in times : \A u \in times : t <= u,
     must_make |-> NONEXISTENT_MTIME \in times,
     running |-> FALSE,
     dep_status |-> "success",
     d_mtime |-> 0]

\* What update_file answers without looking at the prerequisites: the file was
\* considered on this pass, is being made, or is made.
Settled(f) == f \in considered \/ file[f].updated
                 \/ file[f].command_state \in {"running", "finished"}

Answer(f) == IF file[f].command_state = "finished" /\ file[f].update_status = "failed"
             THEN "failed" ELSE "success"

\* update_file(f) from update_goal_chain or from check_dep, with the files fs;
\* s is the stack to return to.
update_file(f, fs, s) ==
    /\ considered' = considered \cup {f}
    /\ IF Settled(f)
       THEN /\ ret' = Answer(f) /\ at' = "returned"
            /\ stack' = s /\ file' = fs
       ELSE LET seen == [g \in Files |->
                            IF g \in {f} \cup Peers(f)
                            THEN [fs[g] EXCEPT !.last_mtime = MtimeIn(fs, g),
                                               !.updating = g = f \/ @]
                            ELSE fs[g]] IN
            /\ file' = seen
            /\ stack' = <<Frame(f, seen)>> \o s
            /\ at' = "deps" /\ UNCHANGED ret

----------------------------------------------------------------------------
(***************************************************************************)
(* update_file_1: the prerequisites                                        *)
(***************************************************************************)
Top == Head(stack)
NextDep == Shuffled(Head(Top.todo))

AtDep == at = "deps" /\ Top.todo # << >>
\* Mutant: .WAIT is ignored.
Blocked_never(p) == FALSE

Blocked(p) == p \in mf.wait_here /\ Top.running

\* .WAIT ends the walk of this list while something runs.
WaitHere ==
    /\ AtDep /\ Blocked(NextDep)
    /\ stack' = <<[Top EXCEPT !.todo = << >>]>> \o Tail(stack)
    /\ UNCHANGED <<fixed, file, deps, considered, ret, at, goalVars, more_commands, world>>

\* Lists share their tails, so that a dep unlinked from one is gone from all;
\* but the first of a list is unlinked by moving the head of the list of FILE,
\* whichever list is walked.  With --shuffle it is the dep the walk is at that
\* is unlinked, and not the circular one it names.
Without(list, p) ==
    IF p \in ToSet(list) THEN RemoveAt(list, CHOOSE i \in DOMAIN list : list[i] = p) ELSE list

Unlink(fr) ==
    LET p == Head(fr.todo) IN
    IF fr.kept THEN [deps EXCEPT ![p[1]] = Without(@, p)]
    ELSE [deps EXCEPT ![fr.file] = Tail(fr.todo)]

DropCircular ==
    /\ AtDep /\ ~Blocked(NextDep) /\ file[NextDep[2]].updating
    /\ file' = Stat(file, NextDep[2])
    /\ deps' = Unlink(Top)
    /\ stack' = <<[Top EXCEPT !.todo = Tail(@)]>> \o Tail(stack)
    /\ UNCHANGED <<fixed, considered, ret, at, goalVars, more_commands, world>>

NextList ==
    /\ at = "deps" /\ Top.todo = << >> /\ Top.lists # << >>
    /\ stack' = <<[Top EXCEPT !.todo = deps[Head(Top.lists)], !.kept = FALSE,
                              !.lists = Tail(@)]>> \o Tail(stack)
    /\ UNCHANGED <<fixed, file, deps, considered, ret, at, goalVars, more_commands, world>>

\* check_dep, down to update_file.
check_dep ==
    /\ AtDep /\ ~Blocked(NextDep) /\ ~file[NextDep[2]].updating
    /\ LET d == NextDep[2] IN
       update_file(d, Stat(file, d), <<[Top EXCEPT !.d_mtime = file_mtime(d)]>> \o Tail(stack))
    /\ UNCHANGED <<fixed, deps, goalVars, more_commands, world>>

\* ignore_mtime: an order-only prerequisite does not make its target old.
Counts(p) == p \notin mf.order_only

\* Without -k a failed prerequisite ends the walk of the list.
Stops(failed) == failed /\ ~keep_going_flag

\* Back from check_dep: what the prerequisite means for its target.
DepReturned ==
    /\ at = "returned" /\ stack # << >>
    /\ LET p == NextDep
           d == p[2]
           mtime == file_mtime(d)
           running == Top.running \/ InProgress(d)
           failed == Top.dep_status = "failed" \/ ret = "failed"
           stop == Stops(failed)
           newer == mtime = NONEXISTENT_MTIME \/ mtime > Top.this_mtime
           fr == [Top EXCEPT !.running = running,
                             !.dep_status = IF failed THEN "failed" ELSE "success",
                             !.must_make = @ \/ (newer /\ Counts(p)),
                             !.todo = IF stop THEN << >> ELSE Tail(@), !.kept = TRUE]
           changed == mtime # Top.d_mtime \/ Top.d_mtime = NONEXISTENT_MTIME
           fs == [Stat(file, d) EXCEPT ![d].updating = FALSE] IN
       /\ stack' = <<fr>> \o Tail(stack)
       /\ file' = IF running \/ stop THEN fs
                  ELSE [fs EXCEPT ![p[1]].changed = IF changed THEN @ \cup {d} ELSE @ \ {d}]
    /\ at' = "deps"
    /\ UNCHANGED <<fixed, deps, considered, ret, goalVars, more_commands, world>>

----------------------------------------------------------------------------
(***************************************************************************)
(* update_file_1: all prerequisites seen                                   *)
(***************************************************************************)
AllSeen == at = "deps" /\ Top.todo = << >> /\ Top.lists = << >>
Settles == AllSeen /\ ~Top.running /\ Top.dep_status = "success"

Return(fs, status) ==
    /\ file' = [fs EXCEPT ![Top.file].updating = FALSE]
    /\ ret' = status
    /\ stack' = Tail(stack)
    /\ at' = "returned"

DepsRunning ==
    /\ AllSeen /\ Top.running
    /\ Return(set_command_state(file, Top.file, "deps_running"), "success")
    /\ UNCHANGED <<fixed, deps, considered, goalVars, more_commands, world>>

GiveUp ==
    /\ AllSeen /\ ~Top.running /\ Top.dep_status = "failed"
    /\ Return(Finish(file, Top.file, "failed"), "failed")
    /\ UNCHANGED <<fixed, deps, considered, goalVars, more_commands, world>>

\* The prerequisites that are not order-only.
NormalDeps(f) == {p[2] : p \in {q \in ToSet(deps[f]) : Counts(q)}}

\* must_make, with what only shows after the last prerequisite.
MustMake ==
    LET f == Top.file IN
    IF /\ ~Top.noexist /\ f \in mf.is_target /\ f \notin mf.cmds
       /\ file[f].changed \cap NormalDeps(f) = {}
    THEN FALSE
    ELSE \/ Top.must_make
         \/ \E d \in NormalDeps(f) : file_mtime(d) = NONEXISTENT_MTIME

NotStarted(f) == IF file[f].command_state = "deps_running"
                 THEN set_command_state(file, f, "not_started") ELSE file

NoNeedToRemake ==
    /\ Settles /\ ~MustMake
    /\ Return(notice_finished_file(NotStarted(Top.file), Top.file), "success")
    /\ UNCHANGED <<fixed, deps, considered, goalVars, more_commands, world>>

\* remake_file without a recipe: a target is taken as made, anything else
\* fails, and without -k that is the end.
RemakeWithoutRecipe ==
    /\ Settles /\ MustMake /\ Top.file \notin mf.cmds
    /\ LET status == IF Top.file \in mf.phony \cup mf.is_target THEN "success" ELSE "failed" IN
       IF status = "failed" /\ ~keep_going_flag
       THEN /\ at' = "die" /\ goal_status' = "failed"
            /\ UNCHANGED <<file, stack, ret>>
       ELSE /\ Return(Finish(NotStarted(Top.file), Top.file, status), status)
            /\ UNCHANGED goal_status
    /\ UNCHANGED <<fixed, deps, considered, goals, visited, more_commands, world>>

\* A recipe of whitespace counts as run at once.
remake_file ==
    /\ Settles /\ MustMake /\ Top.file \in mf.cmds
    /\ LET f == Top.file
           fs == NotStarted(f) IN
       IF f \in mf.empty
       THEN Return(Finish(set_command_state(fs, f, "running"), f, "success"), "success")
       ELSE /\ file' = [fs EXCEPT ![f].updating = FALSE]
            /\ at' = "new_job" /\ UNCHANGED <<stack, ret>>
    /\ UNCHANGED <<fixed, deps, considered, goalVars, more_commands, world>>

----------------------------------------------------------------------------
(***************************************************************************)
(* new_job and reap_children                                               *)
(***************************************************************************)
DeadChildren == {c \in DOMAIN children : children[c] # "live"}

new_job ==
    /\ at = "new_job" /\ DeadChildren = {}
    /\ Cardinality(DOMAIN children) < job_slots
    /\ LET f == Top.file IN
       /\ children' = [c \in DOMAIN children \cup {f} |-> IF c = f THEN "live" ELSE children[c]]
       /\ file' = set_command_state(file, f, "running")
       /\ runs' = [runs EXCEPT ![f] = @ + 1]
    /\ at' = IF job_slots = 1 THEN "linear" ELSE "started"
    /\ UNCHANGED <<fixed, deps, considered, stack, ret, goalVars, more_commands, disk, now>>

\* Back in update_file_1; with one job slot only after the recipe ended.
Started ==
    /\ \/ at = "started"
       \/ at = "linear" /\ file[Top.file].command_state # "running"
    /\ stack' = Tail(stack)
    /\ ret' = Answer(Top.file)
    /\ at' = "returned"
    /\ UNCHANGED <<fixed, file, deps, considered, goalVars, more_commands, world>>

\* One child; after a failure without -k, die.
reap_children ==
    /\ at \in {"pass", "new_job", "linear", "die"}
    /\ \E c \in DeadChildren :
          LET ok == children[c] = "won"
              dies == ~ok /\ ~keep_going_flag IN
          /\ file' = Finish(file, c, IF ok THEN "success" ELSE "failed")
          /\ children' = [x \in DOMAIN children \ {c} |-> children[x]]
          /\ at' = IF dies THEN "die" ELSE at
          /\ goal_status' = IF dies THEN "failed" ELSE goal_status
    /\ more_commands' = TRUE
    /\ UNCHANGED <<fixed, deps, considered, stack, ret, goals, visited, disk, now, runs>>

\* The processes of a recipe end.  One that succeeded has written its targets;
\* one that failed may have.
RecipeEnds(f, result) ==
    /\ f \in DOMAIN children /\ children[f] = "live"
    /\ result = "failed" => f \in MayFail
    /\ children' = [children EXCEPT ![f] = result]
    /\ now' \in {now, now + 1}
    /\ \E writes \in BOOLEAN :
          /\ result = "won" => writes
          /\ disk' = [g \in Files |-> IF writes /\ g \in ({f} \cup Peers(f)) \ mf.phony
                                      THEN now' ELSE disk[g]]
    /\ UNCHANGED <<fixed, file, deps, considered, stack, ret, at, goalVars, more_commands, runs>>

----------------------------------------------------------------------------
(***************************************************************************)
(* update_goal_chain.  A pass blocks for a child unless one was reaped     *)
(* since the last pass.                                                    *)
(***************************************************************************)
BeginScan ==
    /\ at = "pass" /\ DeadChildren = {}
    /\ more_commands \/ children = << >>
    /\ more_commands' = FALSE
    /\ visited' = 0
    /\ at' = "scan"
    /\ UNCHANGED <<fixed, file, deps, considered, stack, ret, goals, goal_status, world>>

UpdateGoal ==
    /\ at = "scan" /\ visited < Len(goals)
    /\ update_file(goals[visited + 1], file, << >>)
    /\ UNCHANGED <<fixed, deps, goalVars, more_commands, world>>

\* Mutant: the last goal decides.
GoalReturned_last_wins ==
    /\ at = "returned" /\ stack = << >>
    /\ LET goal == goals[visited + 1] IN
       /\ goal_status' = IF file[goal].updated THEN file[goal].update_status ELSE goal_status
       /\ goals' = IF file[goal].updated THEN RemoveAt(goals, visited + 1) ELSE goals
       /\ visited' = IF file[goal].updated THEN visited ELSE visited + 1
    /\ at' = "scan"
    /\ UNCHANGED <<fixed, file, deps, considered, stack, ret, more_commands, world>>

GoalReturned ==
    /\ at = "returned" /\ stack = << >>
    /\ LET goal == goals[visited + 1] IN
       /\ goal_status' = IF file[goal].updated /\ file[goal].update_status = "failed"
                         THEN "failed" ELSE goal_status
       /\ goals' = IF file[goal].updated THEN RemoveAt(goals, visited + 1) ELSE goals
       /\ visited' = IF file[goal].updated THEN visited ELSE visited + 1
    /\ at' = "scan"
    /\ UNCHANGED <<fixed, file, deps, considered, stack, ret, more_commands, world>>

\* Mutant: all passes are one batch of consideration.
EndScan_same_batch ==
    /\ at = "scan" /\ visited = Len(goals)
    /\ at' = IF goals = << >> THEN "die" ELSE "pass"
    /\ UNCHANGED <<fixed, file, deps, considered, stack, ret, goalVars, more_commands, world>>

EndScan ==
    /\ at = "scan" /\ visited = Len(goals)
    /\ considered' = {}
    /\ at' = IF goals = << >> THEN "die" ELSE "pass"
    /\ UNCHANGED <<fixed, file, deps, stack, ret, goalVars, more_commands, world>>

die ==
    /\ at = "die" /\ children = << >>
    /\ at' = "exited"
    /\ UNCHANGED <<fixed, file, deps, considered, stack, ret, goalVars, more_commands, world>>

MakeStep ==
    \/ WaitHere \/ DropCircular \/ NextList \/ check_dep \/ DepReturned
    \/ DepsRunning \/ GiveUp \/ NoNeedToRemake \/ RemakeWithoutRecipe \/ remake_file
    \/ new_job \/ Started \/ reap_children
    \/ BeginScan \/ UpdateGoal \/ GoalReturned \/ EndScan \/ die

Next == MakeStep \/ \E f \in Files, result \in {"won", "failed"} : RecipeEnds(f, result)

Spec == Init /\ [][Next]_vars
FairSpec == /\ Spec /\ WF_vars(MakeStep)
            /\ \A f \in Files : WF_vars(\E result \in {"won", "failed"} : RecipeEnds(f, result))

----------------------------------------------------------------------------
(***************************************************************************)
(* Properties                                                              *)
(***************************************************************************)
GroupIn(m, f) == {f} \cup PeersIn(m, f)
Group(f) == GroupIn(mf, f)
States == {"not_started", "deps_running", "running", "finished"}
Statuses == {"none", "success", "failed"}
Where == {"pass", "scan", "deps", "returned", "new_job", "started", "linear", "die", "exited"}

\* Type invariant.
MakeTypeOK ==
    /\ mf \in Makefiles /\ job_slots \in JobSlots /\ keep_going_flag \in KeepGoing
    /\ file \in [Files -> [command_state : States, updated : BOOLEAN, update_status : Statuses,
                           last_mtime : Nat \cup {UNKNOWN_MTIME}, updating : BOOLEAN,
                           changed : SUBSET Files]]
    /\ shuf \in [Files -> Seq(Files \X Files)] /\ deps \in [Files -> Seq(Files \X Files)]
    /\ considered \subseteq Files /\ at \in Where /\ ret \in Statuses /\ goal_status \in Statuses
    /\ Len(stack) <= Cardinality(Files)
    /\ goals \in Seq(Files) /\ visited \in 0..Len(goals)
    /\ DOMAIN children \subseteq Files /\ Cardinality(DOMAIN children) <= job_slots
    /\ disk \in [Files -> Nat] /\ now \in Nat /\ runs \in [Files -> Nat]

\* A target needs the prerequisites of its whole group.  An edge that closes a
\* circle is excluded: one of the circle has to be dropped.
NeedsIn(m, f) == UNION {ToSet(m.deps[g]) : g \in GroupIn(m, f)}
Needs(f) == NeedsIn(mf, f)

\* What f is or needs, directly or not: what is in every set with f that has
\* the needs of each of its members.
BelowIn(m, f) == {x \in Files : \A S \in SUBSET Files :
                    f \in S /\ (\A y \in S : NeedsIn(m, y) \subseteq S) => x \in S}
Below(f) == BelowIn(mf, f)
RealNeeds(f) == {d \in Needs(f) : Below(d) \cap Group(f) = {}}

\* A recipe runs only once everything its group needs has been made, order-only
\* prerequisites included, and made with success.
RecipeAfterPrereqs ==
    \A f \in DOMAIN children : \A d \in RealNeeds(f) :
        file[d].command_state = "finished" /\ file[d].update_status = "success"

\* However many targets wait for it, and on however many passes, the recipe of
\* a group is started once.
RecipeRunsOnce ==
    \A f \in Files : \A g, h \in Group(f) : runs[g] > 0 /\ runs[h] > 0 => g = h /\ runs[g] = 1

MadeFrom(f) == UNION {{d \in ToSet(mf.deps[g]) : <<g, d>> \notin mf.order_only} : g \in Group(f)}
Wanted == UNION {Below(g) : g \in ToSet(mf.goals)}

\* After a build reported as successful no target with a recipe is missing or
\* older than what it is made from, unless its recipe is empty.
UpToDateAtEnd ==
    at = "exited" /\ goal_status # "failed" =>
        \A f \in (Wanted \cap mf.cmds) \ (mf.phony \cup mf.empty) :
            /\ disk[f] # NONEXISTENT_MTIME
            /\ \A d \in RealNeeds(f) \cap MadeFrom(f) :
                  \/ disk[d] # NONEXISTENT_MTIME /\ disk[d] <= disk[f]
                  \/ SumFunctionOnSet(runs, Group(f)) = 1

\* A failure is never lost on the way to the exit status.
FailureReported ==
    at = "exited" /\ goal_status # "failed" => \A f \in Files : file[f].update_status # "failed"

\* With -k everything that can be made is made.
KeepGoingMakesTheRest ==
    at = "exited" /\ keep_going_flag => \A f \in Wanted : file[f].updated

\* A prerequisite leaves its target's list only where it closes a circle;
\* --shuffle may drop another one of the same list in its place.
InCircle(p) == p[1] \in Below(p[2])
DroppedInCircle ==
    \A f \in Files : \A p \in ToSet(Listed(f)) \ ToSet(deps[f]) :
        IF shuf[f] = Listed(f) THEN InCircle(p)
        ELSE \E q \in ToSet(Listed(f)) : InCircle(q)

\* make's bookkeeping of files, prerequisites and children is consistent, and
\* no recipe is run twice.
MakeConsistent == MakeTypeOK /\ DroppedInCircle /\ RecipeRunsOnce

\* make's exit status tells whether something failed and, if nothing did, that
\* the goals are up to date; -k makes all the rest.
ExitStatusTruthful == FailureReported /\ KeepGoingMakesTheRest /\ UpToDateAtEnd

\* A recipe starts only where the disk shows a reason: part of the group or
\* something it is made from is missing or phony, or the latter is newer.
Justified(f) ==
    \/ \E g \in Group(f) : disk[g] = NONEXISTENT_MTIME
    \/ \E g \in Group(f), d \in MadeFrom(f) : disk[d] = NONEXISTENT_MTIME \/ disk[d] > disk[g]
NoNeedlessRecipe == [][\A f \in Files : runs'[f] > runs[f] => Justified(f)]_vars

\* What stands behind .WAIT and is a prerequisite of nothing else starts after
\* everything before it has ended.
Before(p) == LET s == mf.deps[p[1]] IN
             {s[i] : i \in {i \in DOMAIN s : \E j \in DOMAIN s : i < j /\ s[j] = p[2]}}
WaitOrders ==
    [][\A p \in mf.wait_here :
          /\ runs'[p[2]] > runs[p[2]]
          /\ \A f \in Files \ {p[1]} : p[2] \notin ToSet(mf.deps[f])
          /\ p[2] \notin ToSet(mf.goals)
          => Before(p) \cap DOMAIN children = {}]_vars

\* No recipe starts without a reason or too early.
RecipeStartsInTurn == NoNeedlessRecipe /\ WaitOrders

\* Every build ends.
MakeEnds == <>(at = "exited")
====
