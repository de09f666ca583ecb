---- MODULE Recipes ----
(***************************************************************************)
(* How GNU make turns a line of a recipe into the arguments of a process   *)
(* (construct_command_argv, job.c).  A simple line is split by make; for   *)
(* any other, "SHELL FLAGS line" is written with the line quoted, and that *)
(* is split again.  A line is a sequence of characters: "b" a backslash,   *)
(* "n" a newline, "_" a blank, "q" a single quote, "$" any character that  *)
(* only a shell understands, ":" a command that is built into shells, and  *)
(* "=", "@" and letters.                                                   *)
(***************************************************************************)
EXTENDS Integers, Sequences, SequencesExt, FiniteSets

CONSTANT JobLines        \* the lines of recipes: sequences of these characters

VARIABLES job_line, job_shell, oneshell

argvVars == <<job_line, job_shell, oneshell>>

NextChar(s, i) == IF i \in DOMAIN s THEN s[i] ELSE "end"
\* The first place from i on that holds no blank.
NotBlank(s, i) == CHOOSE j \in i .. Len(s) + 1 : NextChar(s, j) # "_" /\ \A k \in i .. j - 1 : s[k] = "_"
PastBlanks(s) == SubSeq(s, NotBlank(s, 1), Len(s))

SLOW == [slow |-> TRUE, argv |-> << >>, rest |-> 0]
Builtin(word) == word = <<":">>
\* "s" is the default shell and a Bourne shell; any other stands for a shell that is neither.
is_bourne_compatible_shell(shell) == shell = <<"s">>

-----------------------------------------------------------------------------
(* Splitting without a shell *)

Begun == [argv |-> << >>, word |-> << >>, instring |-> FALSE, seen_nonequals |-> FALSE, word_has_equals |-> FALSE,
          last_empty |-> FALSE, next |-> 1, how |-> "on", rest |-> 0]

InString(st, s, p, restp) ==
    CASE s[p] = "q" -> [st EXCEPT !.instring = FALSE, !.last_empty = @ \/ st.word = << >>]
      [] s[p] = "b" /\ NextChar(s, p + 1) = "n" -> [st EXCEPT !.word = @ \o <<"b", "n">>, !.next = p + 2]
      [] s[p] = "n" /\ restp -> [st EXCEPT !.how = "end", !.rest = p]
      [] OTHER -> [st EXCEPT !.word = Append(@, s[p])]

\* A backslash and newline are dropped, with the blanks after them when no
\* character of an argument was seen; any other character is taken as it is.
Backslash(st, s, p) ==
    CASE NextChar(s, p + 1) = "n" -> [st EXCEPT !.next = IF st.word = << >> THEN NotBlank(s, p + 2) ELSE p + 2]
      [] NextChar(s, p + 1) = "end" -> st
      [] OTHER -> [st EXCEPT !.word = Append(@, s[p + 1]), !.next = p + 2]

EndOfArgument(st, s, p) ==
    IF st.argv = << >> /\ Builtin(st.word) THEN [st EXCEPT !.how = "slow"]
    ELSE [st EXCEPT !.argv = Append(@, st.word), !.word = << >>, !.last_empty = FALSE,
                    !.seen_nonequals = @ \/ ~st.word_has_equals, !.word_has_equals = FALSE, !.next = NotBlank(s, p + 1)]

OneCharacter(st, s, p, restp) ==
    IF st.how # "on" \/ p < st.next THEN st
    ELSE IF st.instring THEN InString(st, s, p, restp)
    ELSE CASE s[p] = "$" \/ (oneshell /\ s[p] = "n") \/ (s[p] = "=" /\ ~st.seen_nonequals) -> [st EXCEPT !.how = "slow"]
           [] s[p] = "=" -> [st EXCEPT !.word = Append(@, "="), !.word_has_equals = TRUE]
           [] s[p] = "b" -> Backslash(st, s, p)
           [] s[p] = "q" -> [st EXCEPT !.instring = TRUE]
           [] s[p] = "n" /\ restp -> [st EXCEPT !.how = "end", !.rest = p]
           [] s[p] = "_" -> EndOfArgument(st, s, p)
           [] OTHER -> [st EXCEPT !.word = Append(@, s[p])]

\* The arguments, or SLOW: also for a quote that does not end.
Arguments(st) ==
    LET argv == IF st.word # << >> \/ st.last_empty THEN Append(st.argv, st.word) ELSE st.argv
    IN IF st.how = "slow" \/ st.instring \/ (Len(argv) = 1 /\ Builtin(argv[1])) THEN SLOW
       ELSE [slow |-> FALSE, argv |-> argv, rest |-> st.rest]

fast_path(s, restp) ==
    LET scan[p \in 0 .. Len(s)] == IF p = 0 THEN Begun ELSE OneCharacter(scan[p - 1], s, p, restp)
    IN Arguments(scan[Len(s)])

-----------------------------------------------------------------------------
(* Leaving it to the shell *)

\* The first newline that no backslash is before; 0 if there is none.
EndOfLine(s) ==
    LET ends == {p \in DOMAIN s : s[p] = "n" /\ NextChar(s, p - 1) # "b"}
    IN IF ends = {} THEN 0 ELSE CHOOSE p \in ends : \A q \in ends : p <= q
LineOf(s) == IF EndOfLine(s) = 0 THEN s ELSE SubSeq(s, 1, EndOfLine(s) - 1)

\* Every character that make's own splitting treats specially gets a backslash; a
\* newline that was continued stands as it is after its two.
Quoted(s) ==
    FlattenSeq([p \in DOMAIN s |->
        IF s[p] = "n" THEN <<"n">> ELSE IF s[p] \in {"b", "q", "_", "$"} THEN <<"b", s[p]>> ELSE <<s[p]>>])

\* The start of every line of the recipe loses its prefix characters.
StripPrefixes(s) ==
    LET prefix == {"_", "@"}
        \* a line starts after a newline with an even number of backslashes before it
        Escaped(p) == LET run[k \in 0 .. p - 1] == IF k = 0 THEN FALSE ELSE s[k] = "b" /\ ~run[k - 1] IN run[p - 1]
        Starts(p) == p = 1 \/ (s[p - 1] = "n" /\ ~Escaped(p - 1))
        start(p) == CHOOSE q \in 1 .. p : Starts(q) /\ \A r \in q + 1 .. p : ~Starts(r)
        kept == {p \in DOMAIN s : \E q \in start(p) .. p : s[q] \notin prefix}
    IN FoldLeft(LAMBDA t, p : IF p \in kept THEN Append(t, s[p]) ELSE t, << >>, [p \in DOMAIN s |-> p])

slow_path(s, shell, restp) ==
    IF oneshell THEN [slow |-> TRUE, argv |-> <<shell, <<"c">>, IF is_bourne_compatible_shell(shell) THEN StripPrefixes(s) ELSE s>>, rest |-> 0]
    ELSE LET line == IF restp THEN LineOf(s) ELSE s
         IN IF line = << >> THEN [slow |-> TRUE, argv |-> << >>, rest |-> EndOfLine(s)]
            ELSE [fast_path(shell \o <<"_", "c", "_">> \o Quoted(line), FALSE) EXCEPT !.slow = TRUE, !.rest = IF restp THEN EndOfLine(s) ELSE 0]

\* A shell that is not the default is always asked.
FastOrSlow(s, shell, fast) ==
    IF s = << >> THEN [slow |-> FALSE, argv |-> << >>, rest |-> 0]
    ELSE IF shell # <<"s">> \/ fast.slow THEN slow_path(s, shell, TRUE) ELSE fast

construct_command_argv_internal(s, shell) == FastOrSlow(s, shell, fast_path(s, TRUE))

construct_command_argv(s, shell) == construct_command_argv_internal(PastBlanks(s), shell)

ArgvInit ==
    /\ job_line \in JobLines
    /\ job_shell \in {<<"s">>, <<"z">>}
    /\ oneshell \in BOOLEAN

-----------------------------------------------------------------------------
(* Properties *)

\* The words a shell makes of a command without special characters.
Outside == [words |-> << >>, word |-> << >>, any |-> FALSE, quote |-> FALSE, escape |-> FALSE, done |-> FALSE]
ShellCharacter(st, c) ==
    IF st.done THEN st
    ELSE IF st.quote THEN IF c = "q" THEN [st EXCEPT !.quote = FALSE] ELSE [st EXCEPT !.word = Append(@, c)]
    ELSE IF st.escape THEN IF c = "n" THEN [st EXCEPT !.escape = FALSE]
                           ELSE [st EXCEPT !.escape = FALSE, !.any = TRUE, !.word = Append(@, c)]
    ELSE CASE c = "q" -> [st EXCEPT !.quote = TRUE, !.any = TRUE]
           [] c = "b" -> [st EXCEPT !.escape = TRUE]
           [] c \in {"_", "n"} -> [st EXCEPT !.words = IF st.any THEN Append(@, st.word) ELSE @, !.word = << >>, !.any = FALSE,
                                             !.done = c = "n"]
           [] OTHER -> [st EXCEPT !.any = TRUE, !.word = Append(@, c)]
ShellWords(s) == FoldLeft(ShellCharacter, Outside, Append(s, "n")).words

\* What make splits itself is what a shell would have made of it.
\* Two lines are not: one whose last character is a backslash, which make
\* drops, and one with an empty quoted word just before a continued line.
FastAsShell ==
    LET s == PastBlanks(job_line)
        r == construct_command_argv(job_line, job_shell)
        odd == \/ s # << >> /\ Last(s) = "b"
               \/ \E p \in 1 .. Len(s) - 3 : SubSeq(s, p, p + 3) = <<"q", "q", "b", "n">>
    IN ~r.slow /\ ~odd => r.argv = ShellWords(IF r.rest = 0 THEN s ELSE SubSeq(s, 1, r.rest - 1))

\* What is left to a shell comes to it whole, as one argument, after quoting and
\* splitting it again.
SlowWhole ==
    LET s == PastBlanks(job_line)
        r == construct_command_argv(job_line, job_shell)
    IN (r.slow /\ ~oneshell /\ LineOf(s) # << >>) => r.argv = <<job_shell, <<"c">>, LineOf(s)>>

\* A line that runs nothing has nothing to run, and no line is run twice: what is
\* left for the next command begins after the newline that ended this one.
NothingSkipped ==
    LET s == PastBlanks(job_line)
        r == construct_command_argv(job_line, job_shell)
    IN /\ r.argv = << >> => \A i \in DOMAIN s : r.rest = 0 \/ i < r.rest => s[i] \in {"_", "b", "n"}
       /\ r.rest # 0 => s[r.rest] = "n"
       /\ (r.rest = 0 /\ ~oneshell) => \A i \in DOMAIN s : s[i] = "n" => \E j \in 1 .. i - 1 : s[j] \in {"b", "q"}

\* In one shell the recipe keeps every character but the prefixes, and a shell
\* that may give them a meaning has them too.
OneShellWhole ==
    oneshell => LET s == PastBlanks(job_line)
                    r == construct_command_argv(job_line, job_shell)
                    bare(t) == SelectSeq(t, LAMBDA c : c \notin {"_", "@"})
                IN (r.slow /\ s # << >>) => Len(r.argv) = 3 /\ bare(r.argv[3]) = bare(s) /\ (job_shell = <<"z">> => r.argv[3] = s)

\* The arguments as a whole.
ArgvCorrect == FastAsShell /\ SlowWhole /\ NothingSkipped /\ OneShellWhole

-----------------------------------------------------------------------------
(***************************************************************************)
(* The recipe of a target of GNU make: how it is chopped into lines with   *)
(* their flags (commands.c), what becomes of each line under -n, -q and -t *)
(* (start_job_command, job.c), and the automatic variables it may name.    *)
(***************************************************************************)

CONSTANTS
    RecipeTexts,           \* recipes, in the characters of JobLines; "@" and "+" are prefixes, "_" the recipe prefix
    ReferenceTexts,        \* recipes with references, "$", "(" and ")"
    DepNames,              \* [lib, member]: lib is "" for a file that is not in an archive
    MaxDeps

VARIABLES
    recipe, mode,          \* the text; which of -n, -q and -t was given
    prereqs                \* the prerequisites as the makefile lists them

recipeVars == <<recipe, mode, prereqs>>

-----------------------------------------------------------------------------
(* chop_commands *)

\* A newline ends a line unless an odd number of backslashes is just before it.
OddBackslashes(s, first, p) ==
    LET run[k \in first .. p] == IF k = first THEN FALSE ELSE s[k - 1] = "b" /\ ~run[k - 1] IN run[p]
EndFrom(s, first) ==
    LET ends == {p \in first .. Len(s) : s[p] = "n" /\ ~OddBackslashes(s, first, p)}
    IN IF ends = {} THEN Len(s) + 1 ELSE CHOOSE p \in ends : \A q \in ends : p <= q
Chopped(s) ==
    LET from[k \in 0 .. Len(s)] ==
          IF k = 0 THEN [lines |-> << >>, first |-> 1]
          ELSE LET b == from[k - 1] e == EndFrom(s, b.first)
               IN IF b.first > Len(s) THEN b
                  ELSE [lines |-> Append(b.lines, SubSeq(s, b.first, e - 1)), first |-> e + 1]
    IN from[Len(s)].lines
OneLine(s) == <<IF s # << >> /\ Last(s) = "n" THEN Front(s) ELSE s>>
command_lines(s) == IF oneshell THEN OneLine(s) ELSE Chopped(s)

\* The prefix characters of a line; "M" stands for $(MAKE).
PrefixLength(s) == (CHOOSE j \in 1 .. Len(s) + 1 : NextChar(s, j) \notin {"_", "@", "+"} /\ \A k \in 1 .. j - 1 : s[k] \in {"_", "@", "+"}) - 1
RecurseFlag(s) == (\E k \in 1 .. PrefixLength(s) : s[k] = "+") \/ (\E k \in DOMAIN s : s[k] = "M")

-----------------------------------------------------------------------------
(* new_job *)

\* Before a line is expanded, a backslash and newline inside a reference $(...) become
\* one blank together with the blanks around them, unless the backslash is quoted.
\* count is how many parentheses are open in the reference; what was written before
\* outref is not its text.
Untouched == [out |-> << >>, next |-> 1, count |-> 0, ref |-> 0, outref |-> 0]
TrimmedTo(out, outref) == SubSeq(out, 1, CHOOSE k \in outref .. Len(out) : (k = outref \/ out[k] # "_") /\ \A j \in k + 1 .. Len(out) : out[j] = "_")
Collapse(st, s, p) ==
    LET copied == [st EXCEPT !.out = Append(@, s[p]), !.next = p + 1]
    IN CASE p < st.next -> st
         [] st.count = 0 -> IF s[p] = "(" /\ NextChar(s, p - 1) = "$"
                            THEN [copied EXCEPT !.count = 1, !.ref = p, !.outref = Len(copied.out)] ELSE copied
         [] s[p] = "b" /\ NextChar(s, p + 1) = "n" /\ OddBackslashes(s, st.ref + 1, p + 1) ->
                [st EXCEPT !.out = Append(TrimmedTo(@, st.outref), "_"), !.next = NotBlank(s, p + 2)]
         [] OTHER -> [copied EXCEPT !.count = IF s[p] = "(" THEN @ + 1 ELSE IF s[p] = ")" THEN @ - 1 ELSE @]
CollapsedInReferences(s) == FoldLeft(LAMBDA st, p : Collapse(st, s, p), Untouched, [p \in DOMAIN s |-> p]).out

-----------------------------------------------------------------------------
(* start_job_command *)

\* The line without its prefixes, and without the recipe prefix that stands at the
\* start of a continued line.
WithoutPrefix(s) ==
    FlattenSeq([p \in DOMAIN s |-> IF s[p] = "_" /\ NextChar(s, p - 1) = "n" THEN << >> ELSE <<s[p]>>])
CommandText(s) == WithoutPrefix(SubSeq(s, PrefixLength(s) + 1, Len(s)))

\* What becomes of a line: an empty one and ":" start nothing; -q ends the recipe,
\* -t and -n start only what is marked to be run.
WhatBecomes(s) ==
    LET c == construct_command_argv(CommandText(s), job_shell)
        recurse == RecurseFlag(s)
    IN CASE c.argv = << >> -> "nothing"
         [] mode = "question" /\ ~recurse -> "question"
         [] mode = "touch" /\ ~recurse -> "nothing"
         [] is_bourne_compatible_shell(job_shell) /\ c.argv = <<job_shell, <<"c">>, <<":">>>> -> "nothing"
         [] mode = "dry" /\ ~recurse -> "printed"
         [] OTHER -> "run"

\* The lines that are started until the recipe ends or -q has its answer.
UpToQuestion(all) ==
    LET asked == {i \in DOMAIN all : all[i] = "question"}
    IN IF asked = {} THEN all ELSE SubSeq(all, 1, CHOOSE i \in asked : \A j \in asked : i <= j)
Outcomes(s) == LET lines == command_lines(s) IN UpToQuestion([i \in DOMAIN lines |-> WhatBecomes(lines[i])])

-----------------------------------------------------------------------------
(* set_file_variables *)

Automatic(ds) == SelectSeq(ds, LAMBDA d : d.automatic)
Names(ds) == [i \in DOMAIN ds |-> ds[i].name]
FirstIn(ds, i) == \A j \in 1 .. i - 1 : ds[j].name # ds[i].name
First(ds) == LET keep == {i \in DOMAIN ds : FirstIn(ds, i)}
             IN FoldLeft(LAMBDA t, k : IF k \in keep THEN Append(t, ds[k]) ELSE t, << >>, [k \in DOMAIN ds |-> k])

\* $< and $+ take the prerequisites as they are listed.
dollar_less(ds) ==
    LET normal == SelectSeq(Automatic(ds), LAMBDA d : ~d.ignore_mtime) IN IF normal = << >> THEN << >> ELSE <<Head(normal).name>>
dollar_plus(ds) == Names(SelectSeq(Automatic(ds), LAMBDA d : ~d.ignore_mtime))

\* One that is listed both ways is no longer order-only; $^, $? and $| name each
\* once, where it came first.
Upgraded(ds) ==
    [i \in DOMAIN ds |-> [ds[i] EXCEPT !.ignore_mtime = @ /\ \A j \in DOMAIN ds : ds[j].name = ds[i].name => ds[j].ignore_mtime]]
dollar_caret(ds) == Names(SelectSeq(First(Upgraded(Automatic(ds))), LAMBDA d : ~d.ignore_mtime))
dollar_question(ds) == Names(SelectSeq(First(Upgraded(Automatic(ds))), LAMBDA d : ~d.ignore_mtime /\ d.changed))
dollar_bar(ds) == Names(SelectSeq(First(Upgraded(Automatic(ds))), LAMBDA d : d.ignore_mtime))

\* The bytes reserved for $+ (and then $^), $? and $|, every name counting as one
\* and its separator as another; the lists end in place of the last separator.
PlusRoom(ds) == LET n == 2 * Len(dollar_plus(ds)) IN IF n = 0 THEN 1 ELSE n
QuestionRoom(ds) == PlusRoom(ds) + 1 - 2 * Len(SelectSeq(Automatic(ds), LAMBDA d : ~d.ignore_mtime /\ ~d.changed))
BarRoom(ds) == LET n == 2 * Len(SelectSeq(Automatic(ds), LAMBDA d : d.ignore_mtime)) IN IF n = 0 THEN 1 ELSE n
Fits(list, room) == (IF list = << >> THEN 1 ELSE 2 * Len(list)) <= room

RecipeInit ==
    /\ mode \in {"none", "dry", "question", "touch"}
    /\ job_shell \in {<<"s">>, <<"z">>} /\ oneshell \in BOOLEAN /\ job_line = << >>
    /\ \/ recipe \in RecipeTexts /\ prereqs = << >>
       \/ recipe \in ReferenceTexts /\ prereqs = << >> /\ mode = "none" /\ job_shell = <<"s">>
       \/ /\ recipe = << >> /\ mode = "none" /\ job_shell = <<"s">> /\ ~oneshell
          \* the same file has changed or not, however often it is listed
          /\ \E flags \in [DepNames -> BOOLEAN], n \in 0 .. MaxDeps :
                \E names \in [1 .. n -> DepNames], order, auto \in [1 .. n -> BOOLEAN] :
                   prereqs = [i \in 1 .. n |-> [name |-> names[i], ignore_mtime |-> order[i], automatic |-> auto[i], changed |-> flags[names[i]]]]

-----------------------------------------------------------------------------
(* Properties *)

\* No character of a recipe is lost between its lines, and a line is one command:
\* what job.c splits off its end is never a second one.
ChoppedWhole ==
    ~oneshell =>
        LET lines == command_lines(recipe)
            joined == FlattenSeq([i \in DOMAIN lines |-> Append(lines[i], "n")])
        IN /\ joined = recipe \/ joined = Append(recipe, "n")
           /\ \A i \in DOMAIN lines : construct_command_argv(CommandText(lines[i]), job_shell).rest = 0

\* What a line says is the same before and after its references are made one line:
\* its words are, joining continued lines as its shell would do.  Doing it again changes
\* nothing, nor does it change a line without reference; and no continuation is left in
\* a reference that goes to the end of the line.
LinesJoined(s) ==
    FlattenSeq([p \in DOMAIN s |->
        CASE s[p] = "n" /\ OddBackslashes(s, 1, p) -> <<"_">>
          [] s[p] = "b" /\ NextChar(s, p + 1) = "n" /\ OddBackslashes(s, 1, p + 1) -> << >>
          [] OTHER -> <<s[p]>>])
Squeezed(s) == FlattenSeq([p \in DOMAIN s |-> IF s[p] = "_" /\ NextChar(s, p + 1) = "_" THEN << >> ELSE <<s[p]>>])
ReferencesJoined ==
    recipe \in ReferenceTexts =>
        \A line \in Range(command_lines(recipe)) :
            LET out == CollapsedInReferences(line)
            IN /\ Squeezed(LinesJoined(out)) = Squeezed(LinesJoined(line)) /\ CollapsedInReferences(out) = out
               /\ (\A p \in DOMAIN line : line[p] = "(" => NextChar(line, p - 1) # "$") => out = line
               /\ (IsPrefix(<<"$", "(">>, line) /\ ")" \notin Range(line)) => LinesJoined(out) = out

\* Under -n, -q and -t only what is marked is run, and -q ends with "nothing to
\* do" only when every line that has a command was.
DryRunsNothing ==
    LET lines == command_lines(recipe) out == Outcomes(recipe)
    IN /\ mode # "none" => \A i \in DOMAIN out : out[i] = "run" => RecurseFlag(lines[i])
       /\ (mode = "question" /\ \A i \in DOMAIN out : out[i] # "question")
             => \A i \in DOMAIN lines : RecurseFlag(lines[i]) \/ construct_command_argv(CommandText(lines[i]), job_shell).argv = << >>

\* $^ and $| share no name and name each prerequisite once, $? is of $^, every name
\* of $+ is in $^, and $< is one of them; the lists fit the room reserved for them.
AutomaticVariables ==
    LET plus == dollar_plus(prereqs) caret == dollar_caret(prereqs) question == dollar_question(prereqs) bar == dollar_bar(prereqs)
    IN /\ IsInjective(caret) /\ IsInjective(bar) /\ Range(caret) \cap Range(bar) = {}
       /\ Range(plus) = Range(caret) /\ Range(question) \subseteq Range(caret)
       /\ Range(caret) \cup Range(bar) = {d.name : d \in Range(Automatic(prereqs))}
       /\ Range(dollar_less(prereqs)) \subseteq Range(caret) /\ (dollar_less(prereqs) = << >>) = (caret = << >>)
       /\ \A d \in Range(Automatic(prereqs)) : d.changed /\ d.name \in Range(caret) => d.name \in Range(question)
       /\ Fits(plus, PlusRoom(prereqs)) /\ Fits(caret, PlusRoom(prereqs)) /\ Fits(question, QuestionRoom(prereqs)) /\ Fits(bar, BarRoom(prereqs))

\* Recipes as a whole.
RecipesCorrect == ChoppedWhole /\ ReferencesJoined /\ DryRunsNothing /\ AutomaticVariables
====
