---- MODULE MCMakeParts ----
(***************************************************************************)
(* The parts of GNU make around the update of targets, in one state space: *)
(* part says which of them a behaviour is about; the others stay as they   *)
(* start.  The definitions below are the inputs each part is given.        *)
(***************************************************************************)
EXTENDS Variables, Implicit, ReadMakefile, MakeText, DirCache, FileDb, CommandLine,
        MakeFunctions, Recipes, FileNames, Archives, Warnings, RemakeMakefiles, TLC

VARIABLE part

TextsOver(chars, n) == UNION {[1 .. k -> chars] : k \in 0 .. n}

-----------------------------------------------------------------------------
(* Variables: assignments to x, whose value may name y or x itself *)

VarAssignment(kind, flavor, value, override) ==
    [kind |-> kind, name |-> "x", value |-> value, flavor |-> flavor, conditional |-> FALSE,
     override |-> override, private |-> FALSE, export |-> "default", foreach |-> FALSE,
     length |-> 1, matches |-> Targets]
ValueLit == << <<"lit", "a">> >>
ValueRefY == << <<"ref", "y">> >>
ValueEscY == << <<"esc", "y">> >>
ValueRefX == << <<"ref", "x">> >>
Settable == {"global", "prog", "pattern"}
VarLineSet ==
    {VarAssignment(k, f, ValueLit, o) : k \in Settable \cup {"obj"}, f \in {"simple", "append"}, o \in BOOLEAN}
    \cup {VarAssignment(k, "recursive", ValueRefY, FALSE) : k \in {"global", "obj", "pattern"}}
    \cup {[VarAssignment("pattern", f, ValueLit, FALSE) EXCEPT !.length = 2, !.matches = {"obj"}] : f \in {"simple", "append"}}
    \cup {[VarAssignment(k, "simple", ValueLit, FALSE) EXCEPT !.private = TRUE] : k \in Settable}
    \cup {[VarAssignment(k, "simple", ValueLit, FALSE) EXCEPT !.export = "export"] : k \in Settable}
    \cup {[VarAssignment(k, "recursive", ValueLit, FALSE) EXCEPT !.conditional = TRUE] : k \in Settable}
    \cup {[VarAssignment("global", f, ValueLit, FALSE) EXCEPT !.foreach = TRUE] : f \in {"append", "simple"}}
    \cup {VarAssignment("global", f, ValueEscY, FALSE) : f \in {"simple", "recursive", "expand", "shell"}}
    \cup {VarAssignment("global", f, ValueRefX, FALSE) : f \in {"recursive", "append"}}
    \cup {VarAssignment("undefine", "simple", ValueLit, o) : o \in BOOLEAN}
    \cup {[VarAssignment("MAKEFLAGS", "simple", ValueLit, e) EXCEPT !.name = "MAKEFLAGS"] : e \in BOOLEAN}
EnvironmentY == [value |-> << <<"lit", "ey">> >>, origin |-> o_env]
VarStartSet ==
    {[y |-> EnvironmentY]} \cup {[y |-> EnvironmentY, x |-> [value |-> ValueRefY, origin |-> o]] : o \in {o_env, o_command}}

-----------------------------------------------------------------------------
(* Implicit: files f.o and f.x, rules that lead to them from f.c or f.y *)

NameOf(base) == [dir |-> "", base |-> base]
PatternRule(targets, rests) ==
    [targets |-> targets, deps |-> [i \in DOMAIN rests |-> [percent |-> TRUE, rest |-> rests[i]]],
     cmds |-> TRUE, terminal |-> FALSE]
ImpRuleSet ==
    {PatternRule(<< <<"o">> >>, << <<"c">> >>), PatternRule(<< <<"c">> >>, << <<"y">> >>),
     PatternRule(<< <<"c">> >>, << <<"g", "o">> >>), PatternRule(<< << >> >>, << <<"c">> >>),
     PatternRule(<< <<"x">> >>, << <<"g", "o">> >>), PatternRule(<< <<"o">>, <<"y">> >>, << <<"c">> >>),
     [PatternRule(<< << >> >>, << <<"y">> >>) EXCEPT !.terminal = TRUE],
     [PatternRule(<< <<"c">> >>, << <<"y">> >>) EXCEPT !.cmds = FALSE],
     SuffixKnown(<<"c">>)}
ImpBuiltinSet ==
    {PatternRule(<< <<"o">> >>, << <<"c">> >>), PatternRule(<< <<"c">> >>, << <<"y">> >>), PatternRule(<< << >> >>, << <<"c">> >>)}
ImpGoalSet == {NameOf(<<"f", "o">>), NameOf(<<"f", "x">>)}
ImpDiskSet == {{NameOf(<<"f", "c">>)}, {NameOf(<<"f", "y">>)}, {NameOf(<<"f", "g", "c">>)}}
ImpMentionedSet == {{}, {NameOf(<<"f", "c">>)}}
ImpExtraSet == {<< >>, <<[percent |-> FALSE, rest |-> <<"f", "y">>]>>}

-----------------------------------------------------------------------------
(* ReadMakefile: lines of makefiles that read each other *)

RdKind(k) == [k |-> k, var |-> "x"]
RdIf(k) == [k |-> k, var |-> "x", bad |-> FALSE]
RdBadIf == [RdIf("ifdef") EXCEPT !.bad = TRUE]
RdElse(cond) == [k |-> "else", cond |-> cond]
RdRule(targets, prerequisites) ==
    [k |-> "rule", targets |-> targets, deps |-> prerequisites, double |-> FALSE, group |-> FALSE,
     static |-> FALSE, matching |-> {}, recipe |-> FALSE]
RdInclude(name, noerror) == [k |-> "include", name |-> name, noerror |-> noerror]
RdCondLines ==
    {RdIf("ifdef"), RdIf("ifndef"), RdElse(<< >>), RdElse(<<RdIf("ifdef")>>), RdElse(<<RdIf("ifndef")>>),
     RdKind("endif"), RdKind("assign")}
RdBadLines ==
    {RdIf("ifdef"), RdBadIf, RdElse(<< >>), RdElse(<<RdBadIf>>), RdElse(<<[k |-> "text", var |-> "x", bad |-> FALSE]>>),
     RdKind("endif"), RdKind("define"), RdKind("endef"), RdKind("assign")}
RdRuleLines ==
    {RdRule(<<"a">>, <<"x">>), [RdRule(<<"a">>, <<"y">>) EXCEPT !.recipe = TRUE],
     [RdRule(<<"a", "b">>, << >>) EXCEPT !.group = TRUE], [RdRule(<<"b">>, <<"x">>) EXCEPT !.double = TRUE],
     RdRule(<<"%">>, <<"x">>), RdRule(<<".c", "b">>, <<"a">>), RdRule(<< >>, <<"x">>),
     [RdRule(<<"a", "b">>, <<"z">>) EXCEPT !.static = TRUE, !.matching = {"a"}],
     RdKind("recipe"), RdInclude("m2", FALSE), RdKind("eval"), RdKind("vpath")}
RdFileLines ==
    {RdRule(<<"a">>, <<"x">>), [RdRule(<<"b">>, <<"y">>) EXCEPT !.recipe = TRUE], RdInclude("m2", FALSE),
     RdInclude("no", TRUE), RdKind("recipe"), RdKind("export"), RdIf("ifdef"), RdKind("endif")}
RdQueued(name, set_default, dontcare) == [name |-> name, set_default |-> set_default, dontcare |-> dontcare]
RdOneFile == <<RdQueued("m1", TRUE, FALSE)>>
RdThreeFiles == <<RdQueued("m2", FALSE, TRUE), RdQueued("no", TRUE, FALSE), RdQueued("m1", TRUE, FALSE)>>
RdProfileMap ==
    [conds |-> [lines |-> RdCondLines, queue |-> RdOneFile, bound |-> 5],
     bad |-> [lines |-> RdBadLines, queue |-> RdOneFile, bound |-> 4],
     rules |-> [lines |-> RdRuleLines, queue |-> RdOneFile, bound |-> 4],
     files |-> [lines |-> RdFileLines, queue |-> RdThreeFiles, bound |-> 4]]

-----------------------------------------------------------------------------
(* MakeText, DirCache *)

TextAlphabetMap ==
    [quoting |-> {"b", "%", ":", "x", "$", "(", ")"}, lines |-> {"b", "n", "w", "x", "$", "r"},
     words |-> {"x", ":", "&", "w", "$", "b"}, assigns |-> {"x", "w", "?", "=", ":", "+", "$", "#"}]

\* b is another name of the current directory.
PathSet == {<<"f">>, <<"b", "/", "f">>, <<"/", "f">>}
InodeMap == (<<".">> :> "i1") @@ (<<"b">> :> "i1") @@ (<<"/">> :> "i2")

-----------------------------------------------------------------------------
(* FileDb: makefiles about x, v/x, w/x and y *)

FdNameSet == {<<"", "x">>, <<"v", "x">>, <<"w", "x">>, <<"", "y">>}
FdNone == [s \in {".PRECIOUS", ".PHONY", ".NOTINTERMEDIATE", ".INTERMEDIATE", ".SECONDARY"} |-> {}]
FdRuleLine(target, double, prerequisites, cmds) ==
    [kind |-> "rule", t |-> target, dc |-> double, deps |-> prerequisites, cmds |-> cmds, text |-> << >>]
FdVpath(pat, dirs) == [kind |-> "vpath", pat |-> pat, dirs |-> dirs]
FdClear(pat) == [kind |-> "clear", pat |-> pat]
FdX == <<"", "x">>
FdY == <<"", "y">>
FdVX == <<"v", "x">>
FdBase ==
    [rules |-> <<FdRuleLine(FdX, FALSE, <<FdY>>, TRUE), FdRuleLine(FdVX, FALSE, <<FdY>>, FALSE),
                 FdVpath("x", <<"v", "", "w">>), FdVpath("%", <<"w">>)>>,
     special |-> FdNone, whatif |-> {}, goals |-> {}, gpath |-> {}, general |-> <<"w", "v">>,
     second |-> FALSE, extra |-> << >>, own |-> << >>]
\* "$$(@:x=y)" and the like: names that follow from the target's.
FdText(target, names) == [n \in FdNameSet |-> IF n = target THEN names ELSE << >>]
FdSecond ==
    [FdBase EXCEPT !.second = TRUE,
       !.rules = <<[FdRuleLine(FdX, FALSE, << >>, TRUE) EXCEPT !.text = FdText(FdX, <<FdY, FdX>>)],
                   [FdRuleLine(FdVX, FALSE, << >>, FALSE) EXCEPT !.text = FdText(FdVX, <<FdY, FdVX>>)],
                   FdRuleLine(FdX, FALSE, <<FdVX>>, FALSE), FdVpath("x", <<"v", "w">>)>>]
FdIntermediate == [FdBase EXCEPT !.special[".INTERMEDIATE"] = {FdX, FdY}]
FdMakefileSet ==
    {FdBase, FdIntermediate,
     [FdBase EXCEPT !.special[".PHONY"] = {FdY},
        !.rules = <<FdRuleLine(FdX, TRUE, <<FdY>>, TRUE), FdRuleLine(FdX, TRUE, << >>, TRUE),
                    FdRuleLine(FdVX, TRUE, <<FdY>>, TRUE), FdVpath("%", <<"v">>)>>],
     [FdBase EXCEPT !.special[".PRECIOUS"] = {FdX}, !.special[".INTERMEDIATE"] = {FdY, FdVX},
        !.rules = <<FdRuleLine(FdX, TRUE, <<FdVX>>, TRUE), FdRuleLine(FdY, FALSE, <<FdX>>, TRUE), FdVpath("%", <<"v">>)>>],
     [FdIntermediate EXCEPT !.gpath = {"v"}],
     [FdIntermediate EXCEPT !.whatif = {FdY, FdVX}, !.goals = {FdX}],
     [FdBase EXCEPT !.special[".SECONDARY"] = {FdX, FdY}, !.special[".PRECIOUS"] = {FdY}],
     [FdBase EXCEPT !.special[".SECONDARY"] = {AllFiles}, !.special[".NOTINTERMEDIATE"] = {FdY}],
     [FdBase EXCEPT !.special[".NOTINTERMEDIATE"] = {AllFiles}, !.special[".INTERMEDIATE"] = {FdY}],
     [FdBase EXCEPT !.special[".NOTINTERMEDIATE"] = {AllFiles}, !.special[".SECONDARY"] = {AllFiles}],
     FdSecond, [FdSecond EXCEPT !.own = (FdX :> <<FdY, <<"w", "x">> >>)],
     [FdSecond EXCEPT !.extra = <<FdY>>, !.own = (FdX :> <<FdX>>), !.special[".SECONDARY"] = {AllFiles}],
     [FdBase EXCEPT !.extra = <<FdY, FdVX>>], [FdBase EXCEPT !.extra = << <<"w", "x">> >>, !.own = (FdVX :> <<FdY>>)],
     [FdBase EXCEPT !.rules = @ \o <<FdClear("x")>>],
     [FdBase EXCEPT !.rules = @ \o <<FdClear("")>>]}

-----------------------------------------------------------------------------
(* CommandLine: -x is a word of the characters "-" and "x" *)

ClShortMap ==
    [k |-> "none", n |-> "none", s |-> "none", S |-> "none", f |-> "required", I |-> "required",
     j |-> "optional", O |-> "optional", W |-> "required"]
ClLongList ==
    <<[name |-> <<"keep-going">>, arg |-> "none", val |-> "k"], [name |-> <<"no-", "keep-going">>, arg |-> "none", val |-> "S"],
      [name |-> <<"file">>, arg |-> "required", val |-> "f"], [name |-> <<"debug">>, arg |-> "optional", val |-> "debug"],
      [name |-> <<"auth">>, arg |-> "required", val |-> "auth"], [name |-> <<"no-", "silent">>, arg |-> "none", val |-> "nosilent"],
      [name |-> <<"tempstdin">>, arg |-> "required", val |-> "tempstdin"], [name |-> <<"warn">>, arg |-> "optional", val |-> "warn"]>>
ClWordSet ==
    {<<"-", "k">>, <<"-", "S">>, <<"-", "s", "n">>, <<"-", "j">>, <<"-", "j", "2">>, <<"2">>, <<"-", "f">>, <<"-", "k", "f", "x">>,
     <<"-">>, <<"x">>, <<"-", "-", "no-">>, <<"-", "-", "no-", "silent">>, <<"-", "-", "debug", "=", "v">>, <<"-", "O">>,
     <<"-", "I", "x">>, <<"-", "-">>, <<"-", "-", "file">>, <<"V", "=", "a">>, <<"-", "-", "warn">>, <<"-", "W", "f">>}
ClFirstWords ==
    {<<"-", "k">>, <<"-", "S">>, <<"-", "j">>, <<"-", "k", "f", "x">>, <<"x">>, <<"-", "f">>, <<"V", "=", "a">>, <<"-", "W", "f">>,
     <<"-", "-">>}
ClBeforeLast == {<<"x">>, <<"-", "j">>, <<"-", "I", "x">>, <<"-", "f">>, <<"-">>, <<"2">>}
ClLineSet ==
    {w \in TextsOver(ClWordSet, 2) : w = << >> \/ w[1] \in ClFirstWords}
    \cup {<<v, w, <<"-", "k">> >> : v, w \in ClBeforeLast}
ClMakefileSet == {<< >>, << <<"-", "k">> >>, << <<"-", "j", "3">> >>, << <<"-", "-", "no-", "silent">>, <<"-", "O", "line">> >>, << <<"-", "-", "debug", "=", "n">>, <<"-", "-", "debug">> >>,
                   << <<"-", "O", "x">> >>}
ClSubSet == {<< >>, << <<"-", "S">> >>, << <<"-", "j", "3">>, <<"-", "O", "x">> >>, << <<"-", "j", "3">> >>}
ClNumberMap == (<<"1">> :> 1) @@ (<<"2">> :> 2) @@ (<<"3">> :> 3)

-----------------------------------------------------------------------------
(* MakeFunctions *)

FnAlphabetMap ==
    [words |-> <<{"x", "y", "w"}>>, subst |-> <<{"x", "y"}, {"x", "y", "w"}>>,
     patsubst |-> <<{"x", "%"}, {"y", "%"}, {"x", "y", "w"}>>, filter |-> <<{"x", "%", "w"}, {"x", "y", "w"}>>,
     names |-> <<{"x", ".", "/"}>>, abspath |-> <<{"x", ".", "/"}>>,
     paths |-> <<{"x", ".", "/", "w"}>>,
     numbers |-> <<{"0", "1", "2", "-", "w"}, {"0", "1", "+", "-", "w"}>>, fold |-> <<{"x", "r", "n"}>>]
FnLengthMap ==
    [words |-> <<6>>, subst |-> <<2, 5>>, patsubst |-> <<3, 2, 3>>, filter |-> <<4, 4>>, names |-> <<6>>, abspath |-> <<7>>, paths |-> <<5>>,
     numbers |-> <<3, 3>>, fold |-> <<6>>]
McTextMap == [split |-> {"(", ")", ",", "x"}, cond |-> {"blank", "empty", "t"}, call |-> {}, shell |-> {}, file |-> {"x", "n", "r"}]
McLengthMap == [split |-> 6, cond |-> 5, call |-> 0, shell |-> 0, file |-> 3]

-----------------------------------------------------------------------------
(* Recipes, FileNames, Archives *)

JobLineSet ==
    TextsOver({"a", "b", "n", "_", "q", "=", "$", ":", "@"}, 4) \cup TextsOver({"a", "b", "n", "_", "q"}, 5)
RecipeTextSet == TextsOver({"a", "b", "n", "_", "q", "+"}, 4)
ReferenceTextSet == {<<"$", "(">> \o t : t \in TextsOver({"$", "(", ")", "b", "n", "_"}, 4)}
DepNameSet == {[lib |-> "", member |-> "x"], [lib |-> "l", member |-> "x"]}
NameTexts ==
    TextsOver({"a", "_", "(", ")"}, 6) \cup TextsOver({"a", "_", "(", ")", "*"}, 4)
    \cup TextsOver({"a", "(", ")", "*"}, 5)
    \cup TextsOver({"a", "_", ".", "/", "W", "|"}, 4)
OnDiskSet == {<<"a">>, <<"a", "a">>, <<"/", "a">>}
InArchiveSet == {<<"a">>, <<"a", "a">>}
MemberNameSet == {<<"x">>, <<"x", "y", "a">>}
SoughtNames == {<<"x", "y", "a">>, <<"x", "y", "b">>, <<"d", "/", "x">>}

-----------------------------------------------------------------------------
(* Warnings: options for one type, for all and for none that there is *)

WarnDefaults == [t \in WarnTypes |-> IF t = "undefined-var" THEN "ignore" ELSE "warn"]
WarnOptionSet ==
    {<< >>, << <<"", "error">> >>, << <<"undefined-var", "">> >>, << <<"undefined-var", "ignore">> >>,
     << <<"circular-dep", "ignore">>, <<"", "warn">> >>, << <<"undefined-var", "error">>, <<"x", "">> >>}

-----------------------------------------------------------------------------
(* Makefiles included, missing and remade; "m" is read by default *)

RmA == <<"", "A">>
RmH == <<"/h", "A">>
RmUsr == <<"/usr", "">>
RmFileSet == {<< <<"", "">>, n >> : n \in {"m", "n"}} \cup {<<d, "i">> : d \in {<<"", "">>, RmA, RmH, RmUsr}}
RmInclude(dontcare) == [k |-> "file", dir |-> <<"", "">>, name |-> "i", included |-> TRUE, dontcare |-> dontcare]
RmLineMap == [m |-> <<RmInclude(FALSE), [k |-> "MAKEFLAGS", dir |-> RmA], RmInclude(TRUE)>>,
              n |-> <<RmInclude(TRUE), [k |-> "HOME", root |-> "/h"], [k |-> "MAKEFLAGS", dir |-> <<"~u", "A">>], RmInclude(FALSE)>>,
              i |-> << >>]
RmRules(near, far) == [f \in RmFileSet |-> IF f[2] # "i" THEN "none" ELSE IF f[1] = <<"", "">> THEN near ELSE far]
RmBegun(dirs, makefiles, keep_going, rule) ==
    [include_dirs |-> dirs, first |-> << >>, makefiles |-> makefiles, keep_going |-> keep_going,
     dirs |-> {RmA, RmH, RmUsr}, home |-> [variable |-> "", env |-> "/h", login |-> "", u |-> ""],
     locked |-> {}, rule |-> rule]
RmStandard == <<RmUsr>>
RmDefaults == <<"m", "n">>
RmIdle == RmBegun(<< >>, << >>, FALSE, RmRules("none", "none"))
RmKinds == {"none", "makes", "dummy", "breaks", "fails", "force", "phony", "double_colon"}
RmStartSet ==
    {RmIdle} \cup {RmBegun(<< <<"~", "A">> >>, mk, k, RmRules(near, "none")) : mk \in {<<"m">>, <<"n">>}, k \in BOOLEAN, near \in RmKinds}
    \cup {RmBegun(dirs, << >>, TRUE, RmRules("none", far)) :
             dirs \in {<< >>, <<RmH, <<"-", "">> >>, <<RmA, <<"-", "">>, <<"~", "A">> >>}, far \in {"none", "makes", "phony"}}
    \cup {[RmBegun(<<RmA>>, << >>, k, RmRules("makes", rule)) EXCEPT !.locked = {<<RmA, "i">>}] : k \in BOOLEAN, rule \in {"none", "makes"}}
    \cup {RmBegun(<< >>, << >>, FALSE, [RmRules("makes", "none") EXCEPT ![<< <<"", "">>, "m">>] = "makes"])}
    \cup {[RmBegun(<< >>, << >>, FALSE, RmRules("none", "none")) EXCEPT !.first = << <<"~u", "A">>, <<"", "">> >>, !.home.u = u,
             !.dirs = {RmH}] : u \in {"", "/h"}}

-----------------------------------------------------------------------------
MakeParts == {"variables", "implicit", "read", "text", "dirs", "files", "options", "functions", "calls",
          "argv", "recipes", "names", "archives", "libraries", "warnings", "remake"}

makeVars == <<varVars, impVars, readVars, textVars, dirVars, fdVars, clVars, fnVars, callVars,
              argvVars, recipeVars, namesVars, arVars, libVars, warnVars, rmVars>>
partsVars == <<part, makeVars>>

\* What is chosen for one part is fixed for the others; the parts with the most to
\* choose from come last.
PartsInit ==
    /\ part \in MakeParts
    /\ (part # "variables" => env_overrides = FALSE) /\ VarInit
    /\ (part # "variables" => vsets["global"]["x"] = NoVar)
    /\ (part # "implicit" => imp_disk = {NameOf(<<"f", "c">>)}) /\ ImpInit
    /\ (part # "implicit" => imp_files = [n \in ImpGoals |-> NewFile(FALSE)] /\ imp_extra = << >>)
    /\ (part # "read" => rd_profile = "conds") /\ ReadInit
    /\ (part # "text" => family = "lines") /\ TextInit
    /\ (part # "dirs" => on_disk = [i \in InodeSet |-> {}]) /\ DirInit
    /\ (part # "files" => fd_mk = FdBase /\ fd_disk = [n \in FdNames |-> "no"]) /\ FdInit
    /\ (part # "options" => given = << >> /\ clphase = "env") /\ ClInit
    /\ (part # "functions" => fn = "words") /\ FnInit
    /\ (part # "calls" => mc = "split") /\ CallInit
    /\ WarnInit
    /\ (part # "remake" => rm = RmIdle /\ rm_time = [f \in RmFiles |-> 0]) /\ RmInit
    /\ \A f \in RmFiles : f[2] # "i" /\ rm.makefiles # << >> /\ f[2] \notin Range(rm.makefiles) => rm_time[f] = 0
    /\ (part \notin {"argv", "recipes"} => job_line = << >> /\ job_shell = <<"s">> /\ oneshell = FALSE)
    /\ (part # "recipes" => recipe = << >> /\ prereqs = << >> /\ mode = "none")
    /\ (part # "archives" => members = << >> /\ namemap = FALSE /\ ar_size = 0) /\ ArInit
    /\ (part # "libraries" => percent = [p \in 1 .. LibPatterns |-> TRUE]
                              /\ selected = [p \in 1 .. LibPatterns |-> {}] /\ lib_at = [p \in 1 .. LibPatterns |-> {}])
    /\ LibInit /\ (\A p \in 1 .. LibPatterns : percent[p] \/ lib_at[p] = Places)
    /\ (part # "names" => list_text = << >> /\ usage = CHOOSE u \in Usages : TRUE)
    /\ (part = "recipes" => RecipeInit)
    /\ (part = "argv" => ArgvInit)
    /\ (part = "names" => NamesInit)

PartsNext ==
    \/ part = "variables" /\ VarNext
       /\ UNCHANGED <<part, impVars, readVars, textVars, dirVars, fdVars, clVars, fnVars, callVars, argvVars, recipeVars, namesVars, arVars, libVars, warnVars, rmVars>>
    \/ part = "implicit" /\ ImpNext
       /\ UNCHANGED <<part, varVars, readVars, textVars, dirVars, fdVars, clVars, fnVars, callVars, argvVars, recipeVars, namesVars, arVars, libVars, warnVars, rmVars>>
    \/ part = "read" /\ ReadNext
       /\ UNCHANGED <<part, varVars, impVars, textVars, dirVars, fdVars, clVars, fnVars, callVars, argvVars, recipeVars, namesVars, arVars, libVars, warnVars, rmVars>>
    \/ part = "text" /\ TextNext
       /\ UNCHANGED <<part, varVars, impVars, readVars, dirVars, fdVars, clVars, fnVars, callVars, argvVars, recipeVars, namesVars, arVars, libVars, warnVars, rmVars>>
    \/ part = "dirs" /\ DirNext
       /\ UNCHANGED <<part, varVars, impVars, readVars, textVars, fdVars, clVars, fnVars, callVars, argvVars, recipeVars, namesVars, arVars, libVars, warnVars, rmVars>>
    \/ part = "files" /\ FdNext
       /\ UNCHANGED <<part, varVars, impVars, readVars, textVars, dirVars, clVars, fnVars, callVars, argvVars, recipeVars, namesVars, arVars, libVars, warnVars, rmVars>>
    \/ part = "options" /\ ClNext
       /\ UNCHANGED <<part, varVars, impVars, readVars, textVars, dirVars, fdVars, fnVars, callVars, argvVars, recipeVars, namesVars, arVars, libVars, warnVars, rmVars>>
    \/ part = "functions" /\ FnNext
       /\ UNCHANGED <<part, varVars, impVars, readVars, textVars, dirVars, fdVars, clVars, callVars, argvVars, recipeVars, namesVars, arVars, libVars, warnVars, rmVars>>
    \/ part = "calls" /\ CallNext
       /\ UNCHANGED <<part, varVars, impVars, readVars, textVars, dirVars, fdVars, clVars, fnVars, argvVars, recipeVars, namesVars, arVars, libVars, warnVars, rmVars>>
    \/ part = "archives" /\ ArNext
       /\ UNCHANGED <<part, varVars, impVars, readVars, textVars, dirVars, fdVars, clVars, fnVars, callVars, argvVars, recipeVars, namesVars, libVars, warnVars, rmVars>>
    \/ part = "warnings" /\ WarnNext
       /\ UNCHANGED <<part, varVars, impVars, readVars, textVars, dirVars, fdVars, clVars, fnVars, callVars, argvVars, recipeVars, namesVars, arVars, libVars, rmVars>>
    \/ part = "remake" /\ RmNext
       /\ UNCHANGED <<part, varVars, impVars, readVars, textVars, dirVars, fdVars, clVars, fnVars, callVars, argvVars, recipeVars, namesVars, arVars, libVars, warnVars>>

PartsSpec == PartsInit /\ [][PartsNext]_partsVars

-----------------------------------------------------------------------------
(* The properties of the parts, by the phase of make they are about; each  *)
(* is stated and explained in its module.                                  *)

\* What is read from makefiles: lines and words (MakeText), conditionals, includes
\* and rules (ReadMakefile), where makefiles are found (RemakeMakefiles), names
\* (FileNames) and variables (Variables).
MakefilesUnderstood ==
    CASE part = "text" -> TextCorrect
      [] part = "read" -> ReadingCorrect
      [] part = "names" -> FileNamesCorrect
      [] part = "remake" -> MakefilesFound
      [] part = "variables" -> VariablesCorrect
      [] OTHER -> TRUE


\* The functions that makefiles call (MakeFunctions).
FunctionsExpand ==
    CASE part = "functions" -> FunctionsCorrect
      [] part = "calls" -> CallsCorrect
      [] OTHER -> TRUE

====
