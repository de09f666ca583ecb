---- MODULE Warnings ----
(***************************************************************************)
(* Which of its warnings make shows, and as what (gnu-make warning.c):     *)
(* --warn, which sub-makes inherit in MAKEFLAGS, and .WARNINGS, which they *)
(* do not.  A warning control option names a type, an action, or both.     *)
(***************************************************************************)
EXTENDS Integers, Sequences, FiniteSets, SequencesExt

CONSTANTS
    WarnTypes,
    warn_default,        \* the actions of warn_default
    WarnOptions,         \* lists of options to try, each <<type or "", action or "">>
    MaxWarnSteps         \* bound: options given and assignments

WarnActions == {"ignore", "warn", "error"}
w_unset == ""

ASSUME WarnAssumption ==
    /\ warn_default \in [WarnTypes -> WarnActions] /\ MaxWarnSteps \in Nat
    /\ w_unset \notin WarnTypes /\ "undefined-var" \in WarnTypes
    /\ \A list \in WarnOptions : \A i \in DOMAIN list : list[i][2] \in WarnActions \cup {w_unset}

VARIABLES
    warn_flags,          \* the arguments of --warn, in the order they were read
    warn_flag, warn_variable,
    warnings,            \* the action for each type
    warn_dead,           \* make stopped with an error
    flags_read, set_since,   \* history: options read; values of .WARNINGS since it was empty
    warn_steps

warnVars == <<warn_flags, warn_flag, warn_variable, warnings, warn_dead, flags_read, set_since,
              warn_steps>>

NoWarnings == [global |-> w_unset, actions |-> [t \in WarnTypes |-> w_unset]]

\* The first of several actions that is set.
FirstSet(actions) == SelectSeq(actions, LAMBDA a : a # w_unset)[1]

set_warnings(flag, variable) ==
    [t \in WarnTypes |-> FirstSet(<<flag.actions[t], flag.global, variable.actions[t],
                                    variable.global, warn_default[t]>>)]

\* One option; a type alone means "warn".
decode_option(data, option) ==
    IF option[1] = w_unset THEN [data EXCEPT !.global = option[2]]
    ELSE IF option[1] \in WarnTypes
    THEN [data EXCEPT !.actions[option[1]] = IF option[2] = w_unset THEN "warn" ELSE option[2]]
    ELSE data

decode_warn_actions(data, options) == FoldLeft(decode_option, data, options)

Unknown(options) == \E i \in DOMAIN options : options[i][1] \notin WarnTypes \cup {w_unset}

WarnInit ==
    /\ warn_flags = << >> /\ warn_flag = NoWarnings /\ warn_variable = NoWarnings
    /\ warnings = set_warnings(NoWarnings, NoWarnings)
    /\ warn_dead = FALSE /\ flags_read = << >> /\ set_since = << >> /\ warn_steps = 0

\* decode_switches, from the command line or MAKEFLAGS: --warn adds to the list,
\* of which all is decoded again; --warn-undefined-variables comes before it.
decode_switches_warn(options, undefined_too) ==
    LET list == warn_flags \o options
        old_style == IF undefined_too THEN << <<"undefined-var", w_unset>> >> ELSE << >>
        data == decode_warn_actions(warn_flag, old_style \o list) IN
    /\ warn_flags' = list
    /\ IF Unknown(options)
       THEN warn_dead' = TRUE /\ UNCHANGED <<warn_flag, warnings, flags_read>>
       ELSE /\ warn_flag' = data
            /\ warnings' = set_warnings(data, warn_variable)
            /\ flags_read' = old_style \o flags_read \o options
            /\ UNCHANGED warn_dead
    /\ UNCHANGED <<warn_variable, set_since>>

\* set_special_var for .WARNINGS with that value; an unknown type or action is
\* told and left out.
set_warnings_variable(value) ==
    LET data == IF value = << >> THEN NoWarnings ELSE decode_warn_actions(warn_variable, value) IN
    /\ warn_variable' = data
    /\ warnings' = set_warnings(warn_flag, data)
    /\ set_since' = IF value = << >> THEN << >> ELSE Append(set_since, value)
    /\ UNCHANGED <<warn_flags, warn_flag, warn_dead, flags_read>>

----------------------------------------------------------------------------
\* What MAKEFLAGS says of warnings: the global action, then each type that has
\* one of its own; "warn" goes without saying.
encode_warn_flag ==
    LET own == {t \in WarnTypes : warn_flag.actions[t] # w_unset} IN
    (IF warn_flag.global = w_unset THEN << >> ELSE << <<w_unset, warn_flag.global>> >>)
    \o SetToSeq({<<t, IF warn_flag.actions[t] = "warn" THEN w_unset ELSE warn_flag.actions[t]>> : t \in own})

\* A sub-make starts with the switches of MAKEFLAGS and without .WARNINGS.
SubMakeStarts ==
    LET data == decode_warn_actions(NoWarnings, encode_warn_flag) IN
    /\ warn_flags' = encode_warn_flag /\ flags_read' = encode_warn_flag
    /\ warn_flag' = data /\ warn_variable' = NoWarnings
    /\ warnings' = set_warnings(data, NoWarnings)
    /\ set_since' = << >>
    /\ UNCHANGED warn_dead

WarnNext ==
    /\ ~warn_dead /\ warn_steps < MaxWarnSteps
    /\ warn_steps' = warn_steps + 1
    /\ \/ \E options \in WarnOptions, old \in BOOLEAN : decode_switches_warn(options, old)
       \/ \E value \in WarnOptions : set_warnings_variable(value)
       \/ SubMakeStarts

WarnSpec == WarnInit /\ [][WarnNext]_warnVars

----------------------------------------------------------------------------
WarnData == [global : WarnActions \cup {w_unset}, actions : [WarnTypes -> WarnActions \cup {w_unset}]]
WarnTypeOK ==
    /\ warn_flag \in WarnData /\ warn_variable \in WarnData
    /\ warnings \in [WarnTypes -> WarnActions] /\ warn_dead \in BOOLEAN

\* The action the last option for the type gives, or what is left to the others.
LastFor(options, t) ==
    LET at == {i \in DOMAIN options : options[i][1] = t}
        last == options[CHOOSE i \in at : \A j \in at : j <= i][2] IN
    IF at = {} THEN w_unset ELSE IF t # w_unset /\ last = w_unset THEN "warn" ELSE last

\* What .WARNINGS asks for a type: what its last value says of it.  Of a type that
\* the last value does not name, it says something here only if that value is the
\* only one since .WARNINGS was empty.
Assigned == IF set_since = << >> THEN << >> ELSE Last(set_since)
VariableSays(t) == LastFor(Assigned, t) # w_unset \/ Len(set_since) <= 1

\* "If multiple control options provide actions for the same warning type, the
\* last action specified will be used", an action for the type before one for
\* all, --warn before .WARNINGS, and a later .WARNINGS before an earlier one.
LastOptionWins ==
    \A t \in WarnTypes :
        LET flags == <<LastFor(flags_read, t), LastFor(flags_read, w_unset)>>
            given == Range(flags) # {w_unset}
        IN given \/ VariableSays(t) =>
              warnings[t] = FirstSet(flags \o <<LastFor(Assigned, t), LastFor(Assigned, w_unset), warn_default[t]>>)

\* A sub-make shows the warnings its parent's --warn asked for, however many
\* options that was (encode_warn_flag, decode_warn_actions).
SubMakeWarnsAlike == decode_warn_actions(NoWarnings, encode_warn_flag) = warn_flag

\* make warns as it was told last.
WarningsCorrect == WarnTypeOK /\ LastOptionWins /\ SubMakeWarnsAlike
====
