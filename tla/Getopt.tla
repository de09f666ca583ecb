---- MODULE Getopt ----
(***************************************************************************)
(* getopt.c of GNU make: splitting a command line into options, their      *)
(* arguments and the rest.  A word is a sequence of characters; a piece of *)
(* a long option's name counts as one character.  argv has no program      *)
(* name: the first word is argv[1] and argc is one past the last.          *)
(***************************************************************************)
EXTENDS Integers, Sequences, FiniteSets, SequencesExt, FiniteSetsExt

CONSTANTS
    ShortOpts,             \* letter -> "none", "required" or "optional" argument
    LongOpts               \* sequence of [name, arg, val]

NoArg == <<"no argument">>

getopt_initialize(words, order) ==
    [argv |-> words, optind |-> 1, first_nonopt |-> 1, last_nonopt |-> 1, nextchar |-> << >>, ordering |-> order]

argc(g) == Len(g.argv) + 1
NONOPTION_P(w) == w = << >> \/ w[1] # "-" \/ Len(w) = 1

-----------------------------------------------------------------------------
(* Moving options before the words that are none *)

\* len words from i on change places with those from j on.
Swap(v, i, j, len) ==
    [k \in DOMAIN v |-> IF k \in i..(i + len - 1) THEN v[k - i + j]
                        ELSE IF k \in j..(j + len - 1) THEN v[k - j + i] ELSE v[k]]


\* One round of exchange's loop: the shorter segment changes places with the
\* far end of the longer one.
ExchangeStep(x) ==
    IF ~(x.top > x.middle /\ x.middle > x.bottom) THEN x
    ELSE IF x.top - x.middle > x.middle - x.bottom
    THEN LET len == x.middle - x.bottom
         IN [x EXCEPT !.argv = Swap(@, x.bottom, x.top - len, len), !.top = @ - len]
    ELSE LET len == x.top - x.middle
         IN [x EXCEPT !.argv = Swap(@, x.bottom, x.middle, len), !.bottom = @ + len]

Exchanged(g, x) ==
    [g EXCEPT !.argv = x.argv, !.first_nonopt = @ + (g.optind - g.last_nonopt), !.last_nonopt = g.optind]

exchange(g) ==
    Exchanged(g, FoldLeft(LAMBDA y, k : ExchangeStep(y),
                          [argv |-> g.argv, bottom |-> g.first_nonopt, middle |-> g.last_nonopt, top |-> g.optind],
                          g.argv))

\* The options just read go before the words that are none.
MustExchange(g) == g.first_nonopt # g.last_nonopt /\ g.last_nonopt # g.optind

\* optind goes to the next option, past what is none.
NextOption(g) ==
    LET to == Min({i \in g.optind..argc(g) : i = argc(g) \/ ~NONOPTION_P(g.argv[i])})
    IN [g EXCEPT !.optind = to, !.last_nonopt = to]

PermutedFrom(g) ==
    NextOption(IF MustExchange(g) THEN exchange(g)
               ELSE IF g.last_nonopt # g.optind THEN [g EXCEPT !.first_nonopt = g.optind] ELSE g)

Clamped(g) == [g EXCEPT !.last_nonopt = Min({@, g.optind}), !.first_nonopt = Min({@, g.optind})]

\* Going to the next word: in PERMUTE mode past what is no option.
Permuted(g) == IF g.ordering = "PERMUTE" THEN PermutedFrom(Clamped(g)) ELSE Clamped(g)

\* "--" ends the options.
AfterDashes(g) ==
    [IF MustExchange(g) THEN exchange(g)
     ELSE IF g.first_nonopt = g.last_nonopt THEN [g EXCEPT !.first_nonopt = g.optind] ELSE g
     EXCEPT !.last_nonopt = argc(g), !.optind = argc(g)]

DoubleDash(g) ==
    IF g.optind # argc(g) /\ g.argv[g.optind] = <<"-", "-">> THEN AfterDashes([g EXCEPT !.optind = @ + 1]) ELSE g

-----------------------------------------------------------------------------
(* One call of getopt_long: [g, ret, arg] *)

Result(g, ret, arg) == [g |-> g, ret |-> ret, arg |-> arg]

\* The option o of a word; its argument is what follows =, or the next word.
LongArgument(g, o, eq) ==
    IF eq # {}
    THEN IF o.arg = "none" THEN Result(g, "?", NoArg)
         ELSE Result(g, o.val, SubSeq(g.nextchar, Min(eq) + 1, Len(g.nextchar)))
    ELSE IF o.arg # "required" THEN Result(g, o.val, NoArg)
    ELSE IF g.optind < argc(g) THEN Result([g EXCEPT !.optind = @ + 1], o.val, g.argv[g.optind])
    ELSE Result(g, "?", NoArg)

\* A long option: exact, or an abbreviation that fits only one.
LongChosen(g, name, fits, eq) ==
    LET exact == {i \in fits : LongOpts[i].name = name}
    IN IF fits = {} \/ (exact = {} /\ Cardinality(fits) > 1) THEN Result(g, "?", NoArg)
       ELSE LongArgument(g, LongOpts[Min(IF exact # {} THEN exact ELSE fits)], eq)

LongNamed(g, name, eq) == LongChosen(g, name, {i \in DOMAIN LongOpts : IsPrefix(name, LongOpts[i].name)}, eq)

LongOption(g) ==
    LET w == g.nextchar
        eq == {i \in DOMAIN w : w[i] = "="}
        r == LongNamed([g EXCEPT !.optind = @ + 1], IF eq = {} THEN w ELSE SubSeq(w, 1, Min(eq) - 1), eq)
    IN [r EXCEPT !.g.nextchar = << >>]

\* A letter of a word of short options; the rest of the word may be its argument.
ShortOption(g) ==
    LET c == Head(g.nextchar)
        left == Tail(g.nextchar)
        h == [g EXCEPT !.nextchar = left, !.optind = IF left = << >> THEN @ + 1 ELSE @]
        taken == [h EXCEPT !.nextchar = << >>, !.optind = @ + 1]
    IN IF c \notin DOMAIN ShortOpts THEN Result(h, "?", NoArg)
       ELSE CASE ShortOpts[c] = "none" -> Result(h, c, NoArg)
              [] ShortOpts[c] = "optional" -> IF left # << >> THEN Result(taken, c, left) ELSE Result(h, c, NoArg)
              [] ShortOpts[c] = "required" ->
                   IF left # << >> THEN Result(taken, c, left)
                   ELSE IF h.optind = argc(g) THEN Result(h, "?", NoArg)
                   ELSE Result(taken, c, g.argv[h.optind])

Decode(g) == IF g.argv[g.optind][2] = "-" THEN LongOption(g) ELSE ShortOption(g)

\* A new word; "EOF" at the end; "1" for a word that is no option.
NewWord(g) ==
    LET w == g.argv[g.optind]
    IN IF g.optind = argc(g)
       THEN Result(IF g.first_nonopt # g.last_nonopt THEN [g EXCEPT !.optind = g.first_nonopt] ELSE g, "EOF", NoArg)
       ELSE IF NONOPTION_P(w)
       THEN IF g.ordering = "REQUIRE_ORDER" THEN Result(g, "EOF", NoArg)
            ELSE Result([g EXCEPT !.optind = @ + 1], "1", w)
       ELSE Decode([g EXCEPT !.nextchar = SubSeq(w, IF w[2] = "-" THEN 3 ELSE 2, Len(w))])

getopt_internal(g) == IF g.nextchar # << >> THEN Decode(g) ELSE NewWord(DoubleDash(Permuted(g)))
====
