---- MODULE ReadMakefile ----
(***************************************************************************)
(* GNU make reads its makefiles (read.c): the loop of eval() over lines,   *)
(* conditionals, define, include and $(eval), and the rules recorded in    *)
(* the data base of files when the line that ends them is met.             *)
(*                                                                         *)
(* A line is a record whose field k says what kind of line it is; the      *)
(* words in it are model values.  Makefiles hold any lines of the profile  *)
(* that a behaviour chose.  A frame is one call of eval() on the stack.    *)
(***************************************************************************)
EXTENDS Integers, Sequences, FiniteSets, SequencesExt, FiniteSetsExt, Functions

CONSTANTS
    RdProfiles,      \* profile -> the lines its makefiles are made of, the
                     \* makefiles to read and a bound on the lines read
    RdDisk,          \* the makefiles that exist
    MaxRdFrames      \* bound: makefiles open at a time

VARIABLES
    rd_profile,      \* the lines of this behaviour
    rd_queue,        \* what read_all_makefiles has still to read
    frames,          \* the calls of eval(), the innermost last
    filedb,          \* name -> the entries of that file (several for ::)
    defined,         \* the variables with a value
    default_goal,    \* .DEFAULT_GOAL
    makefile_list,   \* MAKEFILE_LIST
    read_files,      \* the makefiles to be remade, with their errors
    rd_fatal,        \* make has exited with an error
    rules,           \* the rules in the order of their lines (history)
    recorded,        \* the rules record_files has seen (history)
    rd_lines         \* the number of lines read

readVars == <<rd_profile, rd_queue, frames, filedb, defined, default_goal, makefile_list,
              read_files, rd_fatal, rules, recorded, rd_lines>>

NONE == "none"
IsPattern(t) == t \in {"%", "%.o"}
IsDotted(t) == t \in {".c", ".c.o"}

\* The locals of eval(), the conditionals in force and the lines read.
NewFrame(name, set_default) ==
    [file |-> name, set_default |-> set_default, waiting |-> 0, cmds |-> FALSE,
     no_targets |-> FALSE, ignoring |-> FALSE, in_ignored_define |-> FALSE, nlevels |-> 0,
     conds |-> << >>, lines |-> << >>]

TopFrame == frames[Len(frames)]

-----------------------------------------------------------------------------
(* Recording a rule *)

NewEntry == [is_target |-> FALSE, double |-> FALSE, cmds |-> 0, deps |-> << >>, also_make |-> {}]
Enter(db, name) == IF name \in DOMAIN db THEN db ELSE db @@ (name :> <<NewEntry>>)

\* Prerequisites of a rule with a recipe go before the ones already there.
MergeDeps(old, this, cmds) == IF cmds THEN this \o old ELSE old \o this
\* One target of rule number id; a fatal error is reported by an empty result.
RecordTarget(db, id, t) ==
    LET r == rules[id]
        cmds == r.cmds
        this == IF r.static /\ t \notin r.matching THEN << >> ELSE r.deps
        es == Enter(db, t)[t]
        e == es[Len(es)]
        again == r.double /\ e.double
        old == IF again THEN NewEntry ELSE e
        new == [old EXCEPT !.is_target = TRUE, !.double = r.double,
                           !.cmds = IF cmds THEN id ELSE IF r.double THEN 0 ELSE @,
                           !.deps = MergeDeps(@, this, cmds)]
    IN [Enter(db, t) EXCEPT ![t] = IF again THEN Append(es, new) ELSE [es EXCEPT ![Len(es)] = new]]

BothColons(db, r, t) ==
    /\ t \in DOMAIN db
    /\ LET e == Head(db[t]) IN (r.double /\ e.is_target /\ ~e.double) \/ (~r.double /\ e.double)

\* The members of a group know the others, and forget a group they were in.
RecordGroup(db, r) ==
    IF ~r.group THEN db
    ELSE [t \in DOMAIN db |->
            IF t \notin ToSet(r.targets) THEN db[t]
            ELSE [db[t] EXCEPT ![Len(db[t])].also_make = ToSet(r.targets) \ {t}]]

\* record_files: the data base with rule id in it, or why make exits.
record_files(db, id) ==
    LET r == rules[id]
        implicit == IsPattern(Head(r.targets))
        entered == FoldLeft(Enter, db, r.deps)
        add(acc, t) == IF acc.fatal \/ BothColons(acc.db, r, t) THEN [acc EXCEPT !.fatal = TRUE]
                       ELSE [acc EXCEPT !.db = RecordTarget(@, id, t)]
        all == FoldLeft(add, [db |-> IF r.static THEN db ELSE entered, fatal |-> FALSE], r.targets)
    IN IF r.group /\ ~r.cmds THEN [db |-> db, fatal |-> TRUE]
       ELSE IF implicit
       THEN [db |-> db, fatal |-> r.static \/ \E t \in ToSet(r.targets) : ~IsPattern(t)]
       ELSE [all EXCEPT !.db = RecordGroup(@, r)]

\* record_waiting_files: the rule the lines before this one were about.
Waiting(f) == IF f.waiting = 0 THEN [db |-> filedb, fatal |-> FALSE] ELSE record_files(filedb, f.waiting)
NoRuleWaiting(f) == [f EXCEPT !.waiting = 0, !.cmds = FALSE, !.no_targets = FALSE]

record_waiting_files(f) ==
    /\ filedb' = Waiting(f).db
    /\ recorded' = IF f.waiting = 0 THEN recorded ELSE recorded \cup {f.waiting}

-----------------------------------------------------------------------------
(* Conditionals *)

\* The value of a condition: it is not looked at where lines are ignored.
Ignored(conds) == \E i \in DOMAIN conds : conds[i].ignoring # 0
Holds(l) == (l.var \in defined) = (l.k = "ifdef")

\* A conditional opens a level; one without good syntax leaves it half done.
Pushed(conds, l, b) ==
    LET value == IF Ignored(conds) THEN 1 ELSE IF l.bad THEN b ELSE IF Holds(l) THEN 0 ELSE 1
    IN Append(conds, [ignoring |-> value, seen_else |-> FALSE])

ElseState(c) == [c EXCEPT !.ignoring = IF @ = 0 THEN 2 ELSE IF @ = 1 THEN 0 ELSE @]
\* conditional_line: the new levels, or a fatal error.  b is what an
\* uninitialised level of a bad conditional happens to hold.
conditional_line(conds, l, b) ==
    LET o == Len(conds)
        turned == [conds EXCEPT ![o] = ElseState(@)]
        inner == Pushed(turned, l.cond[1], b)
        misread == l.cond[1].bad /\ ~Ignored(turned)
        raised == IF turned[o].ignoring < 2 THEN [turned EXCEPT ![o].ignoring = inner[o + 1].ignoring]
                  ELSE turned
        ok(c) == [conds |-> c, fatal |-> FALSE]
        error == [conds |-> conds, fatal |-> TRUE]
    IN CASE l.k \in {"ifdef", "ifndef"} ->
              IF l.bad /\ ~Ignored(conds) THEN error ELSE ok(Pushed(conds, l, b))
         [] l.k \in {"else", "endif"} /\ conds = << >> -> error
         [] l.k = "endif" /\ conds # << >> -> ok(Front(conds))
         [] l.k = "else" /\ conds # << >> ->
              IF conds[o].seen_else THEN error
              ELSE IF l.cond = << >> THEN ok([turned EXCEPT ![o].seen_else = TRUE])
              ELSE IF l.cond[1].k = "text" THEN ok(turned)
              ELSE IF misread THEN ok(inner) ELSE ok(raised)

-----------------------------------------------------------------------------
(* Actions: one line of the innermost frame *)

ReadInit ==
    /\ rd_profile \in DOMAIN RdProfiles
    /\ rd_queue = RdProfiles[rd_profile].queue
    /\ frames = << >> /\ filedb = << >> /\ defined = {} /\ default_goal = NONE
    /\ makefile_list = << >> /\ read_files = << >> /\ rd_fatal = FALSE
    /\ rules = << >> /\ recorded = {} /\ rd_lines = 0

\* eval_makefile: the file is entered, and if it can be opened it is read.
Opened(m) == m.name \in RdDisk
eval_makefile(stack, m) ==
    /\ read_files' = <<[file |-> m.name, error |-> ~Opened(m), dontcare |-> m.dontcare]>> \o read_files
    /\ makefile_list' = IF Opened(m) THEN Append(makefile_list, m.name) ELSE makefile_list
    /\ frames' = IF Opened(m) THEN Append(stack, NewFrame(m.name, m.set_default)) ELSE stack

\* read_all_makefiles: MAKEFILES, then -f or the default makefile.
read_all_makefiles ==
    /\ frames = << >> /\ rd_queue # << >> /\ ~rd_fatal
    /\ eval_makefile(<< >>, Head(rd_queue))
    /\ rd_queue' = Tail(rd_queue)
    /\ UNCHANGED <<rd_profile, filedb, defined, default_goal, rd_fatal, rules, recorded, rd_lines>>

SetTop(f) == [frames EXCEPT ![Len(frames)] = f]
Seen(f, l, live, truth) ==
    LET odd == l.k = "else" /\ l.cond # << >> /\ l.cond[1].bad
    IN [f EXCEPT !.lines = Append(@, [k |-> l.k, odd |-> odd, live |-> live, truth |-> truth])]

Exit == rd_fatal' = TRUE /\ UNCHANGED <<rd_queue, frames, filedb, defined, default_goal,
                                        makefile_list, read_files, rules, recorded>>
NoFileChange == UNCHANGED <<rd_queue, makefile_list, read_files, rd_fatal>>

\* A line of a recipe, in the context of a rule or not.
RecipeLine(f, l) ==
    IF f.no_targets \/ f.ignoring THEN
        /\ frames' = SetTop(Seen(f, l, FALSE, FALSE)) /\ NoFileChange
        /\ UNCHANGED <<filedb, defined, default_goal, rules, recorded>>
    ELSE IF f.waiting = 0 THEN Exit
    ELSE /\ frames' = SetTop(Seen([f EXCEPT !.cmds = TRUE], l, TRUE, FALSE))
         /\ rules' = [rules EXCEPT ![f.waiting].cmds = TRUE]
         /\ NoFileChange /\ UNCHANGED <<filedb, defined, default_goal, recorded>>

\* Assignments, undefine and define; an ignored define hides its body.
AssignmentLine(f, l) ==
    IF f.ignoring THEN
        /\ frames' = SetTop(Seen([f EXCEPT !.in_ignored_define = @ \/ l.k = "define"], l, FALSE, FALSE))
        /\ NoFileChange /\ UNCHANGED <<filedb, defined, default_goal, rules, recorded>>
    ELSE IF Waiting(f).fatal THEN Exit
    ELSE /\ record_waiting_files(f)
         /\ defined' = IF l.k = "assign" THEN defined \cup {l.var} ELSE defined
         /\ frames' = SetTop(Seen([NoRuleWaiting(f) EXCEPT !.nlevels = IF l.k = "define" THEN 1 ELSE 0],
                                  l, TRUE, FALSE))
         /\ NoFileChange /\ UNCHANGED <<default_goal, rules>>

\* do_define takes lines up to the endef that matches.
DefineBody(f, l) ==
    LET n == CASE l.k = "define" -> f.nlevels + 1
               [] l.k = "endef" -> f.nlevels - 1
               [] OTHER -> f.nlevels
    IN /\ frames' = SetTop(Seen([f EXCEPT !.nlevels = n], l, FALSE, FALSE))
       /\ NoFileChange /\ UNCHANGED <<filedb, defined, default_goal, rules, recorded>>

\* The body of a define in lines that are ignored.
IgnoredDefineBody(f, l) ==
    /\ frames' = SetTop(Seen([f EXCEPT !.in_ignored_define = l.k # "endef"], l, FALSE, FALSE))
    /\ NoFileChange /\ UNCHANGED <<filedb, defined, default_goal, rules, recorded>>

ConditionalLine(f, l) ==
    \E b \in {0, 1} :
        LET c == conditional_line(f.conds, l, b)
            truth == IF l.k \in {"ifdef", "ifndef"} THEN Holds(l)
                     ELSE l.k = "else" /\ (l.cond = << >> \/ l.cond[1].k = "text" \/ Holds(l.cond[1]))
        IN IF c.fatal THEN Exit
           ELSE /\ frames' = SetTop(Seen([f EXCEPT !.conds = c.conds, !.ignoring = Ignored(c.conds)],
                                         l, FALSE, truth))
                /\ NoFileChange /\ UNCHANGED <<filedb, defined, default_goal, rules, recorded>>

\* export and vpath: they end the rule before them.
DirectiveLine(f, l) ==
    IF Waiting(f).fatal THEN Exit
    ELSE /\ record_waiting_files(f)
         /\ defined' = IF l.k = "export" THEN defined \cup {l.var} ELSE defined
         /\ frames' = SetTop(Seen(NoRuleWaiting(f), l, TRUE, FALSE))
         /\ NoFileChange /\ UNCHANGED <<default_goal, rules>>

\* Mutant: the included makefile is read first.
IncludeLine_rule_kept(f, l) ==
    /\ eval_makefile(SetTop(Seen(f, l, TRUE, FALSE)),
                     [name |-> l.name, dontcare |-> l.noerror, set_default |-> f.set_default])
    /\ UNCHANGED <<rd_queue, filedb, defined, default_goal, rd_fatal, rules, recorded>>

\* include: the rule before it is recorded first.
IncludeLine(f, l) ==
    IF Waiting(f).fatal THEN Exit
    ELSE /\ record_waiting_files(f)
         /\ eval_makefile(SetTop(Seen(NoRuleWaiting(f), l, TRUE, FALSE)),
                          [name |-> l.name, dontcare |-> l.noerror, set_default |-> f.set_default])
         /\ UNCHANGED <<rd_queue, defined, default_goal, rd_fatal, rules>>
\* $(eval ...) on a line of its own: eval_buffer, with conditionals of its own.
EvalLine(f, l) ==
    IF Waiting(f).fatal THEN Exit
    ELSE /\ record_waiting_files(f)
         /\ frames' = Append(SetTop(Seen(NoRuleWaiting(f), l, TRUE, FALSE)), NewFrame("eval", TRUE))
         /\ NoFileChange /\ UNCHANGED <<defined, default_goal, rules>>

\* check_specials: the first target that may be the default goal.
check_specials(targets, set_default) ==
    LET n == SelectInSeq(targets, IsPattern)
        upto == IF n = 0 THEN targets ELSE SubSeq(targets, 1, n - 1)
        fit == SelectSeq(upto, LAMBDA t : ~IsDotted(t))
    IN IF set_default /\ default_goal = NONE /\ fit # << >> THEN Head(fit) ELSE default_goal

\* What is known of a rule when its line is read: the pattern of a static one, the
\* prerequisites, and the recipe behind a semicolon.
RuleRead(f, l) == [targets |-> l.targets, deps |-> l.deps, double |-> l.double, group |-> l.group,
                 static |-> l.static, matching |-> l.matching, cmds |-> l.recipe,
                 set_default |-> f.set_default]

\* A line with targets: it waits for its recipe.
RuleLine(f, l) ==
    IF Waiting(f).fatal THEN Exit
    ELSE /\ record_waiting_files(f)
         /\ IF l.targets = << >>
            THEN /\ frames' = SetTop(Seen([NoRuleWaiting(f) EXCEPT !.no_targets = TRUE], l, TRUE, FALSE))
                 /\ UNCHANGED <<rules, default_goal>>
            ELSE /\ rules' = Append(rules, RuleRead(f, l))
                 /\ frames' = SetTop(Seen([NoRuleWaiting(f) EXCEPT !.waiting = Len(rules) + 1,
                                                             !.cmds = l.recipe], l, TRUE, FALSE))
                 /\ default_goal' = check_specials(l.targets, f.set_default)
         /\ NoFileChange /\ UNCHANGED defined

\* One line of eval(), with the tests in the order of the code.
Line(l) ==
    /\ frames # << >> /\ ~rd_fatal /\ rd_lines < RdProfiles[rd_profile].bound
    /\ rd_lines' = rd_lines + 1
    /\ l.k \in {"include", "eval"} => Len(frames) < MaxRdFrames
    /\ UNCHANGED rd_profile
    /\ LET f == TopFrame IN
       IF f.nlevels > 0 THEN DefineBody(f, l)
       ELSE IF l.k = "recipe" /\ (f.no_targets \/ f.waiting # 0) THEN RecipeLine(f, l)
       ELSE IF l.k \in {"assign", "define"} THEN AssignmentLine(f, l)
       ELSE IF f.in_ignored_define THEN IgnoredDefineBody(f, l)
       ELSE IF l.k \in {"ifdef", "ifndef", "else", "endif"} THEN ConditionalLine(f, l)
       ELSE IF f.ignoring \/ l.k = "recipe" THEN RecipeLine(f, l)
       ELSE IF l.k \in {"export", "vpath"} THEN DirectiveLine(f, l)
       ELSE IF l.k = "include" THEN IncludeLine(f, l)
       ELSE IF l.k = "eval" THEN EvalLine(f, l)
       ELSE IF l.k = "rule" THEN RuleLine(f, l)
       ELSE Exit

\* The end of the file, or of the string given to eval.
EndOfFile ==
    /\ frames # << >> /\ ~rd_fatal
    /\ UNCHANGED <<rd_profile, rd_lines>>
    /\ IF TopFrame.nlevels > 0 \/ TopFrame.conds # << >> \/ Waiting(TopFrame).fatal THEN Exit
       ELSE /\ record_waiting_files(TopFrame)
            /\ frames' = Front(frames)
            /\ NoFileChange /\ UNCHANGED <<defined, default_goal, rules>>

ReadNext ==
    \/ read_all_makefiles
    \/ \E l \in RdProfiles[rd_profile].lines : Line(l)
    \/ EndOfFile

-----------------------------------------------------------------------------
(* Properties *)

\* Type invariant.
ReadTypeOK ==
    /\ \A i \in DOMAIN frames : frames[i].waiting \in 0..Len(rules) /\ frames[i].nlevels \in Nat
    /\ recorded \subseteq DOMAIN rules
    /\ \A t \in DOMAIN filedb : \A i \in DOMAIN filedb[t] : filedb[t][i].cmds \in 0..Len(rules)

\* Whether line i of a frame is to be read: in each conditional around it, it
\* is in the first branch whose condition holds.
IsIf(l) == l.k \in {"ifdef", "ifndef"}
Depth(ls, i) == Cardinality({j \in 1..(i - 1) : IsIf(ls[j])})
                - Cardinality({j \in 1..(i - 1) : ls[j].k = "endif"})
ConditionsHold(ls, i) ==
    \A d \in 0..(Depth(ls, i) - 1) :
        LET open == Max({j \in 1..(i - 1) : IsIf(ls[j]) /\ Depth(ls, j) = d})
            heads == {open} \cup {j \in (open + 1)..(i - 1) : ls[j].k = "else" /\ Depth(ls, j) = d + 1}
        IN ls[Max(heads)].truth /\ \A j \in heads \ {Max(heads)} : ~ls[j].truth

\* Of the branches of a conditional, the lines of the first one whose condition
\* holds are read and no others (conditional_line's levels).  Frames with a
\* define, or a conditional with bad syntax after an else, are left out: the
\* code's own nesting goes wrong there.
Plain(ls) == \A i \in DOMAIN ls : ls[i].k \notin {"define", "endef"} /\ ~ls[i].odd
ConditionalsExact ==
    \A n \in DOMAIN frames : LET ls == frames[n].lines IN
        Plain(ls) =>
            \A i \in DOMAIN ls : ls[i].k \in {"assign", "rule", "export"} => (ls[i].live = ConditionsHold(ls, i))

\* A recipe belongs to the rule it was written under, and of several for one
\* target the last one read is used, whatever files the rules came from.
LastRecipeWins ==
    \A t \in DOMAIN filedb : LET e == Head(filedb[t]) IN
        (e.is_target /\ ~e.double) =>
            e.cmds = LET own == {i \in recorded : t \in ToSet(rules[i].targets) /\ rules[i].cmds}
                     IN IF own = {} THEN 0 ELSE Max(own)

\* $< of a recipe is the first prerequisite of the rule it was written under.
FirstPrerequisite ==
    \A t \in DOMAIN filedb : \A i \in DOMAIN filedb[t] : LET e == filedb[t][i] IN
        (e.cmds # 0 /\ rules[e.cmds].deps # << >> /\ ~rules[e.cmds].static) =>
            Head(e.deps) = Head(rules[e.cmds].deps)

\* Without an error every rule that was read is in the data base at the end.
ReadingEnds == (frames = << >> /\ rd_queue = << >> /\ ~rd_fatal) => recorded = DOMAIN rules

\* The default goal is the first target read that may be it, in whatever file;
\* the targets of a rule from the first pattern on may not.
GoalIsFirst ==
    LET fit == {<<i, j>> \in (1..Len(rules)) \X (1..2) :
                   /\ j \in DOMAIN rules[i].targets /\ rules[i].set_default /\ ~IsDotted(rules[i].targets[j])
                   /\ \A n \in 1..j : ~IsPattern(rules[i].targets[n])}
        first == CHOOSE p \in fit : \A q \in fit : p[1] < q[1] \/ (p[1] = q[1] /\ p[2] <= q[2])
    IN default_goal = IF fit = {} THEN NONE ELSE rules[first[1]].targets[first[2]]

\* Reading makefiles as a whole.
ReadingCorrect ==
    /\ ReadTypeOK /\ ConditionalsExact /\ LastRecipeWins /\ FirstPrerequisite /\ ReadingEnds
    /\ GoalIsFirst
====
