---- MODULE Variables ----
(***************************************************************************)
(* GNU make's variables: definitions of every origin and flavor in the     *)
(* global set, in targets and in patterns, how they are looked up and      *)
(* expanded for a target, and the environment of its recipe (variable.c,   *)
(* expand.c, record_target_var and the assignments of eval in read.c).     *)
(*                                                                         *)
(* A value is a sequence of words: "lit" is text, "ref" the text $(n) and  *)
(* "esc" the text $$(n).  Two targets: prog, and obj, whose parent is prog.*)
(* Of the special variables there is MAKEFLAGS, which turns -e on and off. *)
(***************************************************************************)
EXTENDS Integers, Sequences, FiniteSets, SequencesExt, FiniteSetsExt

CONSTANTS
    VarNames,        \* names of variables
    VarStarts,       \* what the environment and the command line define
    VarLines,        \* the lines a makefile may have
    MaxVarLines      \* bound: lines of a makefile

VARIABLES
    vsets,           \* the variable sets
    pattern_vars,    \* pattern-specific variables, shortest pattern first
    env_overrides,   \* -e
    var_phase,       \* "reading", "updating", "running" or "fatal"
    var_read,        \* the lines read (history)
    environ          \* the environments made for the recipes

varVars == <<vsets, pattern_vars, env_overrides, var_phase, var_read, environ>>

(* Origins, in the order of enum variable_origin. *)
o_default == 0
o_env == 1
o_file == 2
o_env_override == 3
o_command == 4
o_override == 5
o_automatic == 6
o_invalid == 7

Targets == {"prog", "obj"}
PatSet == [prog |-> "prog.pat", obj |-> "obj.pat"]
SetIds == {"global", "scope", "prog", "obj", "prog.pat", "obj.pat"}

Var(value, origin, recursive) ==
    [value |-> value, origin |-> origin, recursive |-> recursive,
     append |-> FALSE, export |-> "default", private_var |-> FALSE]
NoVar == Var(<< >>, o_invalid, FALSE)
Defined(v) == v.origin # o_invalid

Fatal == <<"lit", "fatal">>

(* A list of sets: pairs of a set and its next_is_parent. *)
GlobalList(ss) ==
    IF \E n \in VarNames : Defined(ss["scope"][n])
    THEN << <<"scope", FALSE>>, <<"global", FALSE>> >> ELSE << <<"global", FALSE>> >>

-----------------------------------------------------------------------------
(* Definitions *)

\* An origin from before -e was seen counts as if it came after.
Effective(origin) == IF env_overrides /\ origin = o_env THEN o_env_override ELSE origin

define_variable_in_set(ss, set, n, value, origin, recursive) ==
    LET old == ss[set][n] IN
    [ss EXCEPT ![set][n] =
        IF ~Defined(old) THEN Var(value, Effective(origin), recursive)
        ELSE IF Effective(origin) >= Effective(old.origin)
        THEN [old EXCEPT !.value = value, !.origin = Effective(origin), !.recursive = recursive]
        ELSE [old EXCEPT !.origin = Effective(old.origin)]]

undefine_variable_in_set(ss, set, n, origin) ==
    LET old == ss[set][n] IN
    [ss EXCEPT ![set][n] =
        IF Effective(origin) >= Effective(old.origin) THEN NoVar
        ELSE [old EXCEPT !.origin = Effective(old.origin)]]

\* The set that holds the variable a reference to n means, or "none".
lookup_variable(ss, list, n) ==
    LET visible == {i \in DOMAIN list :
            /\ Defined(ss[list[i][1]][n])
            /\ ss[list[i][1]][n].private_var => \A j \in 1 .. i - 1 : ~list[j][2]}
    IN IF visible = {} THEN "none" ELSE list[Min(visible)][1]

-----------------------------------------------------------------------------
(* Expansion; busy are the variables being expanded. *)

RECURSIVE expand_string(_, _, _, _), variable_append(_, _, _, _, _, _)

\* A definition marked override elsewhere in the list, when this one appends.
OverridingParents(ss, list, set, n) ==
    IF ~ss[set][n].append THEN {}
    ELSE {i \in DOMAIN list : list[i][1] # set /\ ss[list[i][1]][n].origin = o_override}

recursively_expand_for_file(ss, list, set, n, busy) ==
    LET v == ss[set][n]
        parents == OverridingParents(ss, list, set, n)
        now == busy \cup {<<set, n>>}
        appended == variable_append(ss, list, n, 1, TRUE, now)
    IN IF <<set, n>> \in busy THEN <<Fatal>>
       ELSE IF parents # {}
       THEN IF v.origin = o_override THEN appended ELSE ss[list[Min(parents)][1]][n].value
       ELSE IF v.append /\ v.origin \notin {o_command, o_env_override} THEN appended
       ELSE expand_string(ss, list, v.value, now)

expand_variable_output(ss, list, n, busy) ==
    LET set == lookup_variable(ss, list, n) IN
    IF set = "none" THEN << >>
    ELSE IF ss[set][n].value = << >> /\ ~ss[set][n].append THEN << >>
    ELSE IF ss[set][n].recursive THEN recursively_expand_for_file(ss, list, set, n, busy)
    ELSE ss[set][n].value

expand_string(ss, list, value, busy) ==
    IF value = << >> THEN << >>
    ELSE LET w == Head(value) IN
         (CASE w[1] = "lit" -> <<w>>
            [] w[1] = "esc" -> << <<"ref", w[2]>> >>
            [] w[1] = "ref" -> expand_variable_output(ss, list, w[2], busy))
         \o expand_string(ss, list, Tail(value), busy)

variable_append(ss, list, n, i, local, busy) ==
    IF i > Len(list) THEN << >>
    ELSE LET v == ss[list[i][1]][n]
             above == variable_append(ss, list, n, i + 1, local /\ ~list[i][2], busy)
         IN IF ~Defined(v) \/ (~local /\ v.private_var) THEN above
            ELSE (IF v.append THEN above ELSE << >>)
                 \o (IF v.recursive THEN expand_string(ss, list, v.value, busy) ELSE v.value)

-----------------------------------------------------------------------------
(* Assignments *)

\* The command of != is echo: its output is what it was given.
shell_result(words) == words

\* ":::=" protects every $ of the expanded value.
Protected(words) == [i \in DOMAIN words |-> IF words[i][1] = "ref" THEN <<"esc", words[i][2]>> ELSE words[i]]

\* The variable += adds to: any visible one, or the one of this very set.
Appended(ss, list, n, scope) ==
    IF scope = "global" THEN lookup_variable(ss, list, n)
    ELSE IF Defined(ss[list[1][1]][n]) THEN list[1][1] ELSE "none"

\* do_variable_definition: the sets afterwards, and the set of the variable it
\* returns.
do_variable_definition(ss, list, l, origin, scope) ==
    LET n == l.name
        here == IF scope = "global" THEN "global" ELSE list[1][1]
        found == lookup_variable(ss, list, n)
        expanded == expand_string(ss, list, l.value, {})
        define(value, recursive, append) ==
            [ss |-> [define_variable_in_set(ss, here, n, value, origin, recursive)
                        EXCEPT ![here][n].append = append],
             set |-> here]
        at == Appended(ss, list, n, scope)
        old == ss[at][n]
        over == scope = "pattern" /\ old.origin \in {o_env_override, o_command}
        new == IF old.recursive THEN l.value ELSE expanded
    IN CASE l.conditional /\ found # "none" -> [ss |-> ss, set |-> found]
         [] l.flavor = "simple" -> define(expanded, FALSE, FALSE)
         [] l.flavor = "expand" -> define(Protected(expanded), TRUE, FALSE)
         [] l.flavor = "shell" -> define(shell_result(expanded), TRUE, FALSE)
         [] l.flavor = "recursive" -> define(l.value, TRUE, FALSE)
         [] l.flavor = "append" ->
                IF at = "none" THEN define(l.value, TRUE, scope # "global")
                ELSE IF over THEN define(l.value, TRUE, TRUE)
                ELSE IF new = << >> THEN [ss |-> ss, set |-> at]
                ELSE define(old.value \o new, old.recursive, scope # "global" /\ old.append)

\* The modifiers of the line, on the variable that was returned.
Modified(ss, set, n, private, export) ==
    [ss EXCEPT ![set][n].private_var = private,
               ![set][n].export = IF export = "default" THEN @ ELSE export]

\* A definition of the command line or of -e that makefiles cannot change.
Fixed(ss, n) ==
    LET set == lookup_variable(ss, GlobalList(ss), n) IN
    set # "none" /\ ss[set][n].origin \in {o_env_override, o_command}

\* record_target_var for a target of its own.
record_target_var(ss, t, l) ==
    LET list == << <<t, TRUE>> >> \o GlobalList(ss)
        origin == IF l.override THEN o_override ELSE o_file
        r == do_variable_definition(ss, list, l, origin, "target")
        marked == Modified(r.ss, r.set, l.name, l.private, l.export)
        global == lookup_variable(marked, GlobalList(marked), l.name)
    IN IF /\ marked[r.set][l.name].origin # o_override
          /\ Fixed(marked, l.name) /\ global # r.set
       THEN [marked EXCEPT ![r.set][l.name] =
                LET gv == marked[global][l.name] IN
                [@ EXCEPT !.value = gv.value, !.origin = gv.origin,
                          !.recursive = gv.recursive, !.append = FALSE]]
       ELSE marked

\* record_target_var for a pattern, and where create_pattern_var puts it.
pattern_var(ss, l) ==
    LET fixed == ~l.override /\ Fixed(ss, l.name)
        gv == ss[lookup_variable(ss, GlobalList(ss), l.name)][l.name]
        value == IF l.flavor = "simple" THEN expand_string(ss, GlobalList(ss), l.value, {}) ELSE l.value
    IN [l EXCEPT !.value = IF fixed THEN gv.value ELSE value]
       @@ [origin |-> IF fixed THEN gv.origin ELSE IF l.override THEN o_override ELSE o_file]

create_pattern_var(p) ==
    LET shorter == SelectSeq(pattern_vars, LAMBDA q : q.length <= p.length)
        longer == SelectSeq(pattern_vars, LAMBDA q : q.length > p.length)
    IN shorter \o <<p>> \o longer

-----------------------------------------------------------------------------
(* Reading *)

NoVars == [n \in VarNames |-> NoVar]

\* After the switches were decoded: what came from the environment counts with or
\* without -e, however it did before.
set_env_override(v, on) ==
    [v EXCEPT !.origin = IF on /\ @ = o_env THEN o_env_override ELSE IF ~on /\ @ = o_env_override THEN o_env ELSE @]
reset_env_override(ss, on) == [ss EXCEPT !["global"] = [n \in VarNames |-> set_env_override(@[n], on)]]

VarInit ==
    /\ env_overrides \in BOOLEAN
    /\ \E start \in VarStarts :
          vsets = reset_env_override(
                      [s \in SetIds |-> [n \in VarNames |->
                          IF s = "global" /\ n \in DOMAIN start
                          THEN [Var(start[n].value, start[n].origin, TRUE) EXCEPT
                                   !.export = IF start[n].origin = o_env THEN "export" ELSE "default"]
                          ELSE NoVar]], env_overrides)
    /\ pattern_vars = << >>
    /\ var_phase = "reading"
    /\ var_read = << >>
    /\ environ = << >>

\* push_new_variable_scope and the variable of $(foreach x,each,$(eval ...)).
push_new_variable_scope(l) ==
    IF l.foreach THEN [vsets EXCEPT !["scope"][l.name] = Var(<< <<"lit", "each">> >>, o_automatic, FALSE)]
    ELSE vsets
pop_variable_scope(ss) == [ss EXCEPT !["scope"] = NoVars]

\* eval, for a line that assigns or undefines a global variable.
eval_assignment(ss, l) ==
    LET origin == IF l.override THEN o_override ELSE o_file
        r == do_variable_definition(ss, GlobalList(ss), l, origin, "global")
        private == r.ss[r.set][l.name].private_var \/ l.private
    IN IF l.kind = "undefine" THEN undefine_variable_in_set(ss, "global", l.name, origin)
       ELSE Modified(r.ss, r.set, l.name, private, l.export)

HasFatal(ss, ps) ==
    \/ \E s \in SetIds, n \in VarNames : Fatal \in ToSet(ss[s][n].value)
    \/ \E i \in DOMAIN ps : Fatal \in ToSet(ps[i].value)

\* set_special_var for a line that gives MAKEFLAGS a value with or without -e.
reset_makeflags_e(l) ==
    /\ var_phase = "reading" /\ Len(var_read) < MaxVarLines /\ l.kind = "MAKEFLAGS"
    /\ env_overrides' = l.override
    /\ vsets' = reset_env_override(vsets, l.override)
    /\ var_read' = Append(var_read, l)
    /\ UNCHANGED <<pattern_vars, var_phase, environ>>

ReadVarLine(l) ==
    /\ var_phase = "reading" /\ Len(var_read) < MaxVarLines /\ l.kind # "MAKEFLAGS"
    /\ LET ss == push_new_variable_scope(l) IN
       /\ vsets' = pop_variable_scope(
                       CASE l.kind \in Targets -> record_target_var(ss, l.kind, l)
                         [] l.kind = "pattern" -> ss
                         [] OTHER -> eval_assignment(ss, l))
       /\ pattern_vars' = IF l.kind = "pattern" THEN create_pattern_var(pattern_var(ss, l)) ELSE pattern_vars
    /\ var_read' = Append(var_read, l)
    /\ var_phase' = IF HasFatal(vsets', pattern_vars') THEN "fatal" ELSE "reading"
    /\ UNCHANGED <<env_overrides, environ>>

-----------------------------------------------------------------------------
(* Updating *)

lookup_pattern_var(t) == SelectSeq(pattern_vars, LAMBDA p : t \in p.matches)

\* One pattern-specific variable goes into the set made for the target.
ApplyPattern(t, ss, p) ==
    LET set == PatSet[t]
        r == IF p.flavor = "simple"
             THEN [ss |-> define_variable_in_set(ss, set, p.name, p.value, p.origin, FALSE), set |-> set]
             ELSE do_variable_definition(ss, << <<set, FALSE>> >> \o GlobalList(ss), p, p.origin, "pattern")
    IN [r.ss EXCEPT ![r.set][p.name].export = p.export, ![r.set][p.name].private_var = p.private]

PatternVariables(ss, t) ==
    FoldLeft(LAMBDA x, p : ApplyPattern(t, x, p), ss, lookup_pattern_var(t))

\* The parent comes first.
initialize_file_variables ==
    /\ var_phase = "reading"
    /\ vsets' = PatternVariables(PatternVariables(vsets, "prog"), "obj")
    /\ var_phase' = IF HasFatal(vsets', pattern_vars) THEN "fatal" ELSE "updating"
    /\ UNCHANGED <<pattern_vars, env_overrides, var_read, environ>>

OwnSets(t) == IF lookup_pattern_var(t) = << >> THEN << <<t, TRUE>> >>
              ELSE << <<t, FALSE>>, <<PatSet[t], TRUE>> >>
FileList(t) ==
    OwnSets(t) \o (IF t = "obj" THEN OwnSets("prog") ELSE << >>) \o << <<"global", FALSE>> >>

should_export(v) ==
    CASE v.export = "export" -> TRUE
      [] v.export = "noexport" -> FALSE
      [] v.export = "default" -> v.origin \in {o_command, o_env, o_env_override}

\* The definitions target_environment meets, the keeper first.
Keepers(t, n) ==
    SelectSeq([i \in DOMAIN FileList(t) |-> <<FileList(t)[i][1], i = 1>>],
              LAMBDA p : Defined(vsets[p[1]][n]) /\ (p[2] \/ ~vsets[p[1]][n].private_var))

\* The first status that is not v_default, if any.
SettledExport(t, n) ==
    LET set == SelectSeq(Keepers(t, n), LAMBDA p : vsets[p[1]][n].export # "default") IN
    IF set = << >> THEN "default" ELSE vsets[set[1][1]][n].export

EnvValue(t, set, n) ==
    LET v == vsets[set][n] IN
    IF v.recursive /\ v.origin \notin {o_env, o_env_override}
    THEN recursively_expand_for_file(vsets, FileList(t), set, n, {})
    ELSE v.value

target_environment(t) ==
    LET known == {n \in VarNames : Keepers(t, n) # << >>}
        keeper(n) == Keepers(t, n)[1][1]
        settled == [s \in SetIds |-> [n \in VarNames |->
                      IF n \in known /\ s = keeper(n)
                      THEN [vsets[s][n] EXCEPT !.export = SettledExport(t, n)] ELSE vsets[s][n]]]
    IN /\ vsets' = settled
       /\ environ' = Append(environ, [n \in {n \in known : should_export(settled[keeper(n)][n])} |->
                                         EnvValue(t, keeper(n), n)])

\* obj is made before prog.
RunRecipe ==
    /\ var_phase = "updating" /\ Len(environ) < 2
    /\ target_environment(IF environ = << >> THEN "obj" ELSE "prog")
    /\ var_phase' = IF \E n \in DOMAIN Last(environ') : Fatal \in ToSet(Last(environ')[n])
                    THEN "fatal" ELSE "updating"
    /\ UNCHANGED <<pattern_vars, env_overrides, var_read>>

VarNext == (\E l \in VarLines : ReadVarLine(l) \/ reset_makeflags_e(l)) \/ initialize_file_variables \/ RunRecipe

-----------------------------------------------------------------------------
(* What a makefile can ask about a variable, with a list of sets *)

func_origin(ss, list, n) ==
    LET set == lookup_variable(ss, list, n)
        names == (o_default :> "default" @@ o_env :> "environment" @@ o_file :> "file"
                  @@ o_env_override :> "environment override" @@ o_command :> "command line"
                  @@ o_override :> "override" @@ o_automatic :> "automatic")
    IN IF set = "none" THEN "undefined" ELSE names[ss[set][n].origin]

func_flavor(ss, list, n) ==
    LET set == lookup_variable(ss, list, n)
    IN IF set = "none" THEN "undefined" ELSE IF ss[set][n].recursive THEN "recursive" ELSE "simple"

func_value(ss, list, n) ==
    LET set == lookup_variable(ss, list, n) IN IF set = "none" THEN << >> ELSE ss[set][n].value

-----------------------------------------------------------------------------
(* Properties *)

\* Type invariant.
VarTypeOK ==
    /\ \A s \in SetIds, n \in VarNames :
          /\ vsets[s][n].origin \in 0..7
          /\ vsets[s][n].export \in {"default", "export", "noexport"}
    /\ \A n \in VarNames : ~Defined(vsets["scope"][n])

\* What $(n) is in the recipe of t.
Expansion(t, n) == expand_variable_output(vsets, FileList(t), n, {})

\* A line read of n with the property P.
SomeLine(n, P(_)) == \E i \in DOMAIN var_read : var_read[i].name = n /\ P(var_read[i])

\* A variable the command line defines has that value in every recipe, unless
\* the makefile says override or private.  After a pattern-specific := its
\* text comes out unexpanded.
CommandLineWins ==
    var_phase = "updating" =>
        \A t \in Targets, n \in VarNames :
            LET gv == vsets["global"][n] IN
            gv.origin = o_command /\ ~SomeLine(n, LAMBDA l : l.override \/ l.private) =>
                \/ Expansion(t, n) = expand_string(vsets, FileList(t), gv.value, {})
                \/ /\ SomeLine(n, LAMBDA l : l.kind = "pattern" /\ l.flavor = "simple")
                   /\ Expansion(t, n) = gv.value

\* An exported variable that did not come from the environment has the same
\* value in the environment of a recipe as in its text.  A private variable of
\* a pattern is seen in the recipe only.
RecipeOf(k) == IF k = 1 THEN "obj" ELSE "prog"
EnvironmentAgrees ==
    \A k \in DOMAIN environ : \A n \in DOMAIN environ[k] :
        LET t == RecipeOf(k)
            set == lookup_variable(vsets, FileList(t), n)
        IN \/ environ[k][n] = Expansion(t, n)
           \/ vsets[Keepers(t, n)[1][1]][n].origin \in {o_env, o_env_override}
           \/ set = PatSet[t] /\ vsets[set][n].private_var

\* What the makefile exports reaches every recipe, unless a later line undefines
\* it or makes it private; and unless a pattern-specific ?= finds it defined:
\* the pattern's own export status is then put on the global variable.
ExportHonoured ==
    \A k \in DOMAIN environ, n \in VarNames :
        /\ SomeLine(n, LAMBDA l : l.kind = "global" /\ l.export = "export")
        /\ ~SomeLine(n, LAMBDA l : l.kind = "undefine" \/ l.private)
        => n \in DOMAIN environ[k] \/ SomeLine(n, LAMBDA l : l.kind = "pattern" /\ l.conditional)

\* What $(origin) says of a variable in a recipe is what happened: the makefile
\* has a line for it, with override or without; -e is on or off as it says, but
\* for the copy a target took when that was otherwise; and what is undefined has no
\* value anywhere.  A simple variable is its value, unless
\* += found it overridden from elsewhere.
OriginsTold ==
    var_phase = "updating" =>
        \A t \in Targets, n \in VarNames :
            LET list == FileList(t)
                origin == func_origin(vsets, list, n)
                line(override) == SomeLine(n, LAMBDA l : l.kind # "undefine" /\ l.override = override)
            IN /\ origin = "undefined" => /\ Expansion(t, n) = << >>
                                          /\ \A k \in DOMAIN environ : RecipeOf(k) = t => n \notin DOMAIN environ[k]
               /\ origin = "file" => line(FALSE)
               /\ origin = "override" => line(TRUE)
               /\ (lookup_variable(vsets, list, n) = "global" \/ ~SomeLine("MAKEFLAGS", LAMBDA l : TRUE)) =>
                      /\ origin = "environment" => ~env_overrides
                      /\ origin = "environment override" => env_overrides
               /\ origin \notin {"default", "automatic"}
               /\ func_flavor(vsets, list, n) = "simple" => Expansion(t, n) = func_value(vsets, list, n)

\* Variables as a whole: who defined a variable decides its value, in recipes
\* and in their environments alike.
VariablesCorrect == VarTypeOK /\ CommandLineWins /\ EnvironmentAgrees /\ ExportHonoured /\ OriginsTold
====
