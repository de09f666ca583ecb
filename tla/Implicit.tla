---- MODULE Implicit ----
(***************************************************************************)
(* GNU make's implicit rules: the chain of pattern rules (rule.c) and the  *)
(* search for a rule to make a file without a recipe, by way of            *)
(* intermediate files if need be (implicit.c, try_implicit_rule as         *)
(* update_file_1 calls it).                                                *)
(*                                                                         *)
(* A name is a directory and a sequence of components; f.g.o is            *)
(* <<"f","g","o">>.  A pattern %.o is the sequence <<"o">> that follows    *)
(* the %, and % itself the empty one.  Archives, VPATH and second          *)
(* expansion are left out.                                                 *)
(***************************************************************************)
EXTENDS Integers, Sequences, FiniteSets, SequencesExt, FiniteSetsExt

CONSTANTS
    ImpRules,        \* the pattern rules a makefile may have
    ImpBuiltins,     \* the rules that may be built in
    ImpDisks,        \* the sets of files that may exist
    ImpMentioned,    \* the sets of files other rules may mention
    ImpGoals,        \* the files asked for
    ImpExtras,       \* what .EXTRA_PREREQS may be, as prerequisites of a rule
    MaxImpRules      \* bound: rules of a makefile

VARIABLES
    pattern_rules,   \* the chain of rules
    imp_disk,        \* the files that exist
    imp_files,       \* make's data base of files
    impossible,      \* the files file_impossible was called for
    imp_phase,       \* "reading", "snapping" or "updating"
    imp_extra,       \* .EXTRA_PREREQS
    room,            \* what snap_implicit_rules counts: pattern_search allocates by it
    no_rule          \* the files a search found no rule for (history)

impVars == <<pattern_rules, imp_disk, imp_files, impossible, imp_phase, imp_extra, room, no_rule>>

NewFile(mentioned) ==
    [is_target |-> FALSE, is_explicit |-> mentioned, intermediate |-> FALSE,
     tried_implicit |-> FALSE, cmds |-> FALSE, deps |-> << >>]
EnterImplicit(files, n) == IF n \in DOMAIN files THEN files ELSE files @@ (n :> NewFile(FALSE))

-----------------------------------------------------------------------------
(* The chain of rules *)

\* A target of the new rule is the only target of the old one, and the
\* prerequisites are the same.
Identical(rule, r) ==
    /\ \E i \in DOMAIN rule.targets : \A j \in DOMAIN r.targets : rule.targets[i] = r.targets[j]
    /\ rule.deps = r.deps

\* A rule of the makefile replaces an identical one, at the end of the chain;
\* a built-in rule gives way to it.
new_pattern_rule(rule, override) ==
    LET same == {k \in DOMAIN pattern_rules : Identical(rule, pattern_rules[k])} IN
    IF same = {} THEN Append(pattern_rules, rule)
    ELSE IF override THEN Append(RemoveAt(pattern_rules, Min(same)), rule)
    ELSE pattern_rules

\* convert_suffix_rule: the rule that only disqualifies match-anything rules.
SuffixKnown(suffix) == [targets |-> <<suffix>>, deps |-> << >>, cmds |-> FALSE, terminal |-> FALSE]

-----------------------------------------------------------------------------
(* The search *)

Matches(target, n) == Len(n.base) > Len(target) /\ IsSuffix(target, n.base)
Stem(target, n) == SubSeq(n.base, 1, Len(n.base) - Len(target))

\* A prerequisite for a stem; the directory is put before a % only.
DepName(d, target, n) ==
    IF d.percent THEN [dir |-> n.dir, base |-> Stem(target, n) \o d.rest]
    ELSE [dir |-> "", base |-> d.rest]

Cancelled(r) == r.deps # << >> /\ ~r.cmds

\* The rules and targets that match n; rules in use further up are avoided, and
\* match-anything rules that are not terminal make no intermediate files.
Matching(n, recursions, in_use) ==
    {p \in UNION {{k} \X DOMAIN pattern_rules[k].targets : k \in DOMAIN pattern_rules} :
        LET r == pattern_rules[p[1]] IN
        /\ ~Cancelled(r) /\ p[1] \notin in_use
        /\ ~(recursions > 0 /\ r.targets[p[2]] = << >> /\ ~r.terminal)
        /\ Matches(r.targets[p[2]], n)}

MatchesAnything(r) == \E j \in DOMAIN r.targets : r.targets[j] = << >>

\* TRYRULES: the shortest stem first, then the order of definition; without the
\* rules for any file if a more specific one matches.
tryrules(n, recursions, in_use) ==
    LET all == Matching(n, recursions, in_use)
        target(p) == pattern_rules[p[1]].targets[p[2]]
        specific == \E p \in all : target(p) # << >>
        kept == {p \in all : LET r == pattern_rules[p[1]] IN
                    /\ ~(r.deps = << >> /\ ~r.cmds)
                    /\ ~(specific /\ ~r.terminal /\ MatchesAnything(r))}
        before(p, q) == \/ Len(target(p)) > Len(target(q))
                        \/ /\ Len(target(p)) = Len(target(q))
                           /\ p[1] < q[1] \/ (p[1] = q[1] /\ p[2] < q[2])
    IN SetToSortSeq(kept, before)

\* The state of one search: the data base, and what it has found out so far.
Fresh(files, imps) ==
    [files |-> files, impossible |-> imps, rejected |-> {}, compat |-> FALSE,
     list |-> << >>, failed |-> FALSE, found |-> <<0, 0>>]

RECURSIVE pattern_search(_, _, _, _, _, _, _)

\* A prerequisite that is neither there nor mentioned may be made by rules; if it
\* cannot, it is impossible, unless the data base has it.
TryToMake(s, item, inner) ==
    LET after == [s EXCEPT !.files = inner.files, !.impossible = inner.impossible]
    IN IF inner.found # <<0, 0>>
       THEN [after EXCEPT !.list = Append(@, [item EXCEPT !.sub = <<[list |-> inner.list,
                                                                    terminal |-> pattern_rules[inner.found[1]].terminal]>>])]
       ELSE [after EXCEPT !.failed = TRUE, !.impossible = IF item.name \in DOMAIN s.files THEN @ ELSE @ \cup {item.name}]

\* One prerequisite of the rule p that is tried.
Prerequisite(s, p, item, deps, percent, intermed_ok, recursions, in_use, compat) ==
    LET name == item.name
        df == name \in DOMAIN s.files
        marked == [s EXCEPT !.files = IF df /\ ~s.files[name].is_explicit /\ percent
                                      THEN [@ EXCEPT ![name].intermediate = TRUE] ELSE @]
        ought == (df /\ s.files[name].is_target) \/ name \in ToSet(deps)
    IN IF name \in s.impossible
       THEN [s EXCEPT !.failed = TRUE, !.rejected = @ \cup {p}]
       ELSE IF ought \/ name \in imp_disk \/ (df /\ compat)
       THEN [marked EXCEPT !.list = Append(@, item)]
       ELSE IF ~intermed_ok THEN [marked EXCEPT !.compat = @ \/ df, !.failed = TRUE]
       ELSE TryToMake([marked EXCEPT !.compat = @ \/ df], item,
                      pattern_search(marked.files, s.impossible, name, << >>, recursions + 1, in_use \cup {p[1]}, compat))

TryPrerequisite(s, p, n, deps, d, intermed_ok, recursions, in_use, compat) ==
    LET name == DepName(d, pattern_rules[p[1]].targets[p[2]], n)
        explicit == ~d.percent \/ (name \in DOMAIN s.files /\ s.files[name].is_explicit)
    IN IF s.failed THEN s
       ELSE Prerequisite(s, p, [name |-> name, is_explicit |-> explicit, sub |-> << >>], deps, d.percent,
                         intermed_ok, recursions, in_use, compat)

\* One rule: it applies if every prerequisite exists, ought to or can be made.
Tried(s, p) == IF s.failed THEN s ELSE [s EXCEPT !.found = p]

TryRule(s, p, n, deps, intermed_ok, recursions, in_use, compat) ==
    IF s.found # <<0, 0>> \/ p \in s.rejected \/ (intermed_ok /\ pattern_rules[p[1]].terminal) THEN s
    ELSE Tried(FoldLeft(LAMBDA x, d : TryPrerequisite(x, p, n, deps, d, intermed_ok, recursions, in_use, compat),
                        [s EXCEPT !.list = << >>, !.failed = FALSE], pattern_rules[p[1]].deps), p)

\* Every rule without intermediate files, then every rule with them.
TryRules(s, n, deps, recursions, in_use, compat) ==
    LET rules == tryrules(n, recursions, in_use)
    IN FoldLeft(LAMBDA x, k : TryRule(x, k[2], n, deps, k[1], recursions, in_use, compat), s,
                [i \in DOMAIN rules |-> <<FALSE, rules[i]>>] \o [i \in DOMAIN rules |-> <<TRUE, rules[i]>>])

\* A prerequisite is entered; no rule is sought for one that a terminal rule found.
EnterPrerequisite(files, item, terminal) ==
    [EnterImplicit(files, item.name) EXCEPT ![item.name].tried_implicit = @ \/ (terminal /\ item.sub = << >>)]

\* An intermediate file becomes a target, and its prerequisites are entered.
EnterIntermediate(files, item) ==
    LET f == EnterImplicit(files, item.name)
        names == [i \in DOMAIN item.sub[1].list |-> item.sub[1].list[i].name]
        explicit == f[item.name].is_explicit \/ item.is_explicit
        g == [f EXCEPT ![item.name].deps = names, ![item.name].cmds = TRUE,
                       ![item.name].is_target = TRUE, ![item.name].tried_implicit = TRUE,
                       ![item.name].is_explicit = explicit,
                       ![item.name].intermediate = @ \/ ~explicit]
    IN FoldLeft(LAMBDA h, sub : EnterPrerequisite(h, sub, item.sub[1].terminal), g, item.sub[1].list)

\* The other targets of the rule that was found.
EnterAlsoMake(files, p, n) ==
    LET r == pattern_rules[p[1]]
        other(j) == [dir |-> n.dir, base |-> Stem(r.targets[p[2]], n) \o r.targets[j]]
        add(f, j) == IF j = p[2] THEN f
                     ELSE [EnterImplicit(f, other(j)) EXCEPT ![other(j)].is_target = TRUE]
    IN FoldLeft(add, files, [j \in DOMAIN r.targets |-> j])

\* The files of a search that found a rule.
EnterFound(s, n, recursions) ==
    LET withSubs == FoldLeft(LAMBDA f, item : IF item.sub = << >> THEN f ELSE EnterIntermediate(f, item),
                             s.files, Reverse(s.list))
    IN EnterAlsoMake(IF recursions > 0 THEN withSubs
                     ELSE FoldLeft(LAMBDA f, item : EnterPrerequisite(f, item, pattern_rules[s.found[1]].terminal),
                                   withSubs, Reverse(s.list)),
                     s.found, n)

\* A search without success is done again if a file of the data base was left out.
Concluded(s, n, deps, recursions, in_use, compat) ==
    IF s.found # <<0, 0>> THEN [s EXCEPT !.files = EnterFound(s, n, recursions)]
    ELSE IF s.compat /\ ~compat
    THEN pattern_search(s.files, s.impossible, n, deps, recursions, in_use, TRUE)
    ELSE s

pattern_search(files, imps, n, deps, recursions, in_use, compat) ==
    Concluded(TryRules(Fresh(files, imps), n, deps, recursions, in_use, compat), n, deps, recursions, in_use, compat)

-----------------------------------------------------------------------------
(* Actions *)

NoRoom == [rules |-> 0, targets |-> 0, deps |-> 0]

ImpInit ==
    /\ pattern_rules = << >>
    /\ imp_disk \in ImpDisks
    /\ \E mentioned \in ImpMentioned :
          imp_files = [n \in ImpGoals \cup mentioned |-> NewFile(n \in mentioned)]
    /\ imp_extra \in ImpExtras
    /\ room = NoRoom
    /\ impossible = {}
    /\ imp_phase = "reading"
    /\ no_rule = {}

\* A pattern rule of the makefile, or one for a suffix of .SUFFIXES.
ReadRule(r) ==
    /\ imp_phase = "reading" /\ Len(pattern_rules) < MaxImpRules
    /\ pattern_rules' = new_pattern_rule(r, TRUE)
    /\ UNCHANGED <<imp_disk, imp_files, impossible, imp_phase, imp_extra, room, no_rule>>

\* convert_to_pattern and the built-in rules come after the makefiles.
InstallBuiltin(r) ==
    /\ imp_phase = "reading"
    /\ pattern_rules' = new_pattern_rule(r, FALSE)
    /\ imp_phase' = "snapping"
    /\ UNCHANGED <<imp_disk, imp_files, impossible, imp_extra, room, no_rule>>

\* The files of .EXTRA_PREREQS are entered, and every rule gets them at its end; a
\* rule without prerequisites or recipe is one that counts as cancelled from then on.
snap_implicit_rules ==
    /\ imp_phase = "snapping"
    /\ pattern_rules' = [k \in DOMAIN pattern_rules |-> [pattern_rules[k] EXCEPT !.deps = @ \o imp_extra]]
    /\ imp_files' = FoldLeft(LAMBDA f, d : EnterImplicit(f, [dir |-> "", base |-> d.rest]), imp_files, imp_extra)
    /\ room' = [rules |-> Len(pattern_rules),
                targets |-> Max({0} \cup {Len(pattern_rules[k].targets) : k \in DOMAIN pattern_rules}),
                deps |-> Max({0} \cup {Len(pattern_rules[k].deps) + Len(imp_extra) : k \in DOMAIN pattern_rules})]
    /\ imp_phase' = "updating"
    /\ UNCHANGED <<imp_disk, impossible, imp_extra, no_rule>>

\* The search s for a rule for n is over.
Searched(n, s, found) ==
    /\ imp_files' = [s.files EXCEPT
          ![n].tried_implicit = TRUE,
          ![n].cmds = found /\ pattern_rules[s.found[1]].cmds,
          ![n].is_target = @ \/ found,
          ![n].deps = IF found THEN [i \in DOMAIN s.list |-> s.list[i].name] \o @ ELSE @]
    /\ impossible' = s.impossible
    /\ no_rule' = IF found THEN no_rule ELSE no_rule \cup {n}

\* update_file_1 looks for a rule once for a file without a recipe.
try_implicit_rule(n) ==
    /\ imp_phase = "updating"
    /\ n \in DOMAIN imp_files /\ ~imp_files[n].tried_implicit /\ ~imp_files[n].cmds
    /\ \E s \in {pattern_search(imp_files, impossible, n, imp_files[n].deps, 0, {}, FALSE)} :
          Searched(n, s, s.found # <<0, 0>>)
    /\ UNCHANGED <<pattern_rules, imp_disk, imp_phase, imp_extra, room>>

ImpNext ==
    \/ \E r \in ImpRules : ReadRule(r)
    \/ \E r \in ImpBuiltins : InstallBuiltin(r)
    \/ snap_implicit_rules
    \/ \E n \in DOMAIN imp_files : try_implicit_rule(n)

-----------------------------------------------------------------------------
(* Properties *)

\* Type invariant.
ImpTypeOK ==
    /\ \A k \in DOMAIN pattern_rules : \E r \in ImpRules \cup ImpBuiltins :
          pattern_rules[k] = [r EXCEPT !.deps = IF imp_phase = "updating" THEN @ \o imp_extra ELSE @]
    /\ ImpGoals \subseteq DOMAIN imp_files
    /\ no_rule \subseteq DOMAIN imp_files

\* A recipe found by implicit rules can run: what it is made from exists, has
\* or will have a recipe, or is mentioned in the makefile, if only in
\* .EXTRA_PREREQS, or asked for.
ChainsEnd ==
    \A n \in DOMAIN imp_files : \A i \in DOMAIN imp_files[n].deps :
        LET d == imp_files[n].deps[i] IN
        \/ d \in imp_disk \/ imp_files[d].cmds \/ imp_files[d].is_target
        \/ imp_files[d].is_explicit \/ d \in ImpGoals \/ (\E e \in Range(imp_extra) : d = [dir |-> "", base |-> e.rest])

\* A rule of the chain was not there when a later one that replaces it was read.
NoDuplicateRules ==
    \A j, k \in DOMAIN pattern_rules : j < k => ~Identical(pattern_rules[k], pattern_rules[j])

\* make says there is no rule for n only if no rule applies to the files that
\* exist: neither the rules in use nor what was found impossible hides one.
DirectRuleFound ==
    \A n \in no_rule : \A p \in ToSet(tryrules(n, 0, {})) :
        \E i \in DOMAIN pattern_rules[p[1]].deps :
            DepName(pattern_rules[p[1]].deps[i], pattern_rules[p[1]].targets[p[2]], n) \notin imp_disk

\* The rules a search collects and the prerequisites of each fit where pattern_search
\* keeps them, and a rule that was found has put .EXTRA_PREREQS behind its own.
SearchFits ==
    imp_phase = "updating" =>
        /\ \A n \in DOMAIN imp_files : Cardinality(Matching(n, 0, {})) <= room.rules * room.targets
        /\ \A k \in DOMAIN pattern_rules : Len(pattern_rules[k].deps) <= room.deps
        /\ \A n \in DOMAIN imp_files :
              (imp_files[n].cmds /\ imp_files[n].tried_implicit) =>
                  \A d \in Range(imp_extra) : [dir |-> "", base |-> d.rest] \in Range(imp_files[n].deps)

\* The implicit rules as a whole.
ImplicitCorrect == ImpTypeOK /\ ChainsEnd /\ NoDuplicateRules /\ DirectRuleFound /\ SearchFits
====
