---- MODULE MakeFunctions ----
(***************************************************************************)
(* The functions of GNU make on lists of words and on file names           *)
(* (function.c), as they scan their arguments, compared with what the      *)
(* manual's definition of each comes to.                                   *)
(*                                                                         *)
(* A text is a sequence of characters: w is a blank, n a newline, r a      *)
(* carriage return, x and y any other; the rest stand for themselves.  The *)
(* arguments are built up one character at a time.  An output ends where   *)
(* the buffer's end pointer o is left, so that --o drops its last one.     *)
(***************************************************************************)
EXTENDS Integers, Sequences, FiniteSets, SequencesExt, FiniteSetsExt

CONSTANTS
    FnAlphabets,     \* function -> the characters of each of its arguments
    FnLengths,       \* function -> the bound on the length of each
    HashFrom         \* filter hashes its words from this many comparisons on

VARIABLES fn, args

fnVars == <<fn, args>>

-----------------------------------------------------------------------------
(* Words *)

CharAt(s, i) == IF i <= Len(s) THEN s[i] ELSE "nul"
From(s, i) == SubSeq(s, i, Len(s))
Concat(ss) == FlattenSeq(ss)

\* next_token and end_of_token: positions in s, Len(s) + 1 is its NUL.
next_token(s, p) == CHOOSE q \in p..(Len(s) + 1) : CharAt(s, q) # "w" /\ \A k \in p..(q - 1) : s[k] = "w"
end_of_token(s, p) == CHOOSE q \in p..(Len(s) + 1) : CharAt(s, q) \in {"w", "nul"} /\ \A k \in p..(q - 1) : s[k] # "w"

\* What a loop over find_next_token sees: each word with where it starts and ends.
RECURSIVE TokensFrom(_, _)
TokensFrom(s, p) ==
    LET q == next_token(s, p)
        e == end_of_token(s, q)
    IN IF q > Len(s) THEN << >> ELSE <<[word |-> SubSeq(s, q, e - 1), start |-> q, end |-> e]>> \o TokensFrom(s, e)
Tokens(s) == TokensFrom(s, 1)
Spelled(toks) == [k \in DOMAIN toks |-> toks[k].word]

WordsIn(s) == Spelled(Tokens(s))

\* What a function does that puts a value for each word and a blank out, and drops
\* the last blank.
EachWord(values) ==
    LET out == Concat([k \in DOMAIN values |-> values[k] \o <<"w">>])
    IN IF out = << >> THEN << >> ELSE Front(out)

strip(s) == EachWord(WordsIn(s))
addprefix(fix, s) == EachWord([k \in DOMAIN WordsIn(s) |-> fix \o WordsIn(s)[k]])
addsuffix(fix, s) == EachWord([k \in DOMAIN WordsIn(s) |-> WordsIn(s)[k] \o fix])
words(s) == Len(Tokens(s))
firstword(s) == IF Tokens(s) = << >> THEN << >> ELSE Head(Tokens(s)).word
lastword(s) == IF Tokens(s) = << >> THEN << >> ELSE Last(Tokens(s)).word
func_word(i, s) == IF i < 1 THEN "fatal" ELSE IF i > words(s) THEN << >> ELSE Tokens(s)[i].word

\* What lies between the start of one word and the end of another, as it is.
wordlist(start, stop, s) ==
    LET toks == Tokens(s)
        count == stop - start + 1
    IN IF start < 1 \/ stop < 0 THEN "fatal"
       ELSE IF count <= 0 \/ start > Len(toks) THEN << >>
       ELSE SubSeq(s, toks[start].start, toks[Min({start + count - 1, Len(toks)})].end - 1)

join(s, t) ==
    LET at(u, k) == IF k <= words(u) THEN Tokens(u)[k].word ELSE << >>
        out == Concat([k \in 1..Max({words(s), words(t)}) |-> at(s, k) \o at(t, k) \o <<"w">>])
    IN IF out = << >> THEN << >> ELSE Front(out)

Occurs(from, t, p) == p + Len(from) - 1 <= Len(t) /\ SubSeq(t, p, p + Len(from) - 1) = from
strstr(from, t, p) == {q \in p..(Len(t) + 1) : Occurs(from, t, q)}
findstring(from, t) == IF strstr(from, t, 1) # {} THEN from ELSE << >>

-----------------------------------------------------------------------------
(* Substitution *)

\* subst_expand, from position t of text on.
RECURSIVE SubstFrom(_, _, _, _, _)
SubstFrom(text, t, from, to, by_word) ==
    LET hits == strstr(from, text, t)
        p == IF from = << >> THEN end_of_token(text, next_token(text, t)) ELSE Min(hits)
        after == p + Len(from)
        whole == /\ p > 1 => text[p - 1] = "w"
                 /\ CharAt(text, after) \in {"w", "nul"}
        out == SubSeq(text, t, p - 1) \o (IF by_word /\ ~whole THEN from ELSE to)
    IN IF from # << >> /\ hits = {} THEN From(text, t)
       ELSE IF after > Len(text) THEN out
       ELSE out \o SubstFrom(text, after, from, to, by_word)
subst_expand(from, to, text, by_word) ==
    IF from = << >> /\ ~by_word THEN text \o to ELSE SubstFrom(text, 1, from, to, by_word)

find_percent(s) == SelectInSeq(s, LAMBDA c : c = "%")
BeforePercent(s) == SubSeq(s, 1, find_percent(s) - 1)
AfterPercent(s) == From(s, find_percent(s) + 1)

\* pattern_matches, and the tests of patsubst_expand_pat: long enough for both
\* ends, and both are there.
pattern_matches(pattern, word) ==
    IF find_percent(pattern) = 0 THEN pattern = word
    ELSE /\ Len(word) >= Len(pattern) - 1
         /\ IsPrefix(BeforePercent(pattern), word) /\ IsSuffix(AfterPercent(pattern), word)

\* patsubst: no blank follows a word whose replacement is empty and has no %.
patsubst_expand(pattern, replace, text) ==
    LET stem(word) == SubSeq(word, Len(BeforePercent(pattern)) + 1, Len(word) - Len(AfterPercent(pattern)))
        value(word) ==
            IF ~pattern_matches(pattern, word) THEN word \o <<"w">>
            ELSE IF find_percent(replace) # 0 THEN BeforePercent(replace) \o stem(word) \o AfterPercent(replace) \o <<"w">>
            ELSE IF replace # << >> THEN replace \o <<"w">> ELSE << >>
        out == Concat([k \in DOMAIN Tokens(text) |-> value(Tokens(text)[k].word)])
    IN IF find_percent(pattern) = 0 THEN subst_expand(pattern, replace, text, TRUE)
       ELSE IF out = << >> THEN << >> ELSE Front(out)

\* filter and filter-out: the patterns without a % are looked up in a table of
\* the words when that pays; equal words hang on one another in it.
filter(patterns, text, is_filter) ==
    LET toks == Spelled(Tokens(text))
        pats == Spelled(Tokens(patterns))
        literals == {k \in DOMAIN pats : find_percent(pats[k]) = 0}
        hashing == Cardinality(literals) > 1 /\ Cardinality(literals) * Len(toks) >= HashFrom
        found(p) == {k \in DOMAIN toks : toks[k] = p /\ \A j \in (k + 1)..Len(toks) : toks[j] # p}
        chain(k) == {j \in 1..(k - 1) : toks[j] = toks[k]}
        hit(p) == IF find_percent(p) # 0 THEN {k \in DOMAIN toks : pattern_matches(p, toks[k])}
                  ELSE IF hashing THEN found(p) \cup UNION {chain(k) : k \in found(p)}
                  ELSE {k \in DOMAIN toks : toks[k] = p}
        matched == UNION {hit(pats[k]) : k \in DOMAIN pats}
        out == Concat([k \in DOMAIN toks |-> IF (k \in matched) = is_filter THEN toks[k] \o <<"w">> ELSE << >>])
    IN IF out = << >> THEN << >> ELSE Front(out)

\* sort: qsort puts the words in order; all but the last of equal ones are left out.
Rank(c) == CASE c = "x" -> 1 [] c = "y" -> 2 [] OTHER -> 0
Less(u, v) == \/ u # v /\ IsPrefix(u, v)
              \/ \E k \in 1..Min({Len(u), Len(v)}) : Rank(u[k]) < Rank(v[k]) /\ SubSeq(u, 1, k - 1) = SubSeq(v, 1, k - 1)
func_sort(s) ==
    LET sorted == SortSeq(Spelled(Tokens(s)), Less)
        out == Concat([k \in DOMAIN sorted |->
                   IF k < Len(sorted) /\ sorted[k + 1] = sorted[k] THEN << >> ELSE sorted[k] \o <<"w">>])
    IN IF out = << >> THEN << >> ELSE Front(out)

-----------------------------------------------------------------------------
(* File names *)

\* The last position of the word at which one of stops is, or 0.
LastStop(word, stops) == Max({0} \cup {k \in DOMAIN word : word[k] \in stops})

notdir(s) == EachWord([k \in DOMAIN WordsIn(s) |-> From(WordsIn(s)[k], LastStop(WordsIn(s)[k], {"/"}) + 1)])
Suffix(word) == LET p == LastStop(word, {"/", "."}) IN IF CharAt(word, p) = "." THEN From(word, p) \o <<"w">> ELSE << >>
suffix(s) ==
    LET out == Concat([k \in DOMAIN WordsIn(s) |-> IF LastStop(WordsIn(s)[k], {"/", "."}) = 0 THEN << >> ELSE Suffix(WordsIn(s)[k])])
    IN IF out = << >> THEN << >> ELSE Front(out)
Directory(word) == LET p == LastStop(word, {"/"}) IN IF p = 0 THEN <<".", "/">> ELSE SubSeq(word, 1, p)
dir(s) == EachWord([k \in DOMAIN WordsIn(s) |-> Directory(WordsIn(s)[k])])
WithoutSuffix(word) ==
    LET p == LastStop(word, {"/", "."}) IN IF p > 0 /\ word[p] = "." THEN SubSeq(word, 1, p - 1) ELSE word
basename(s) == EachWord([k \in DOMAIN WordsIn(s) |-> WithoutSuffix(WordsIn(s)[k])])

starting_directory == <<"/", "x">>

\* The components of a name, from position p on, appended to dest one by one.
RECURSIVE AbsFrom(_, _, _)
AbsFrom(dest, name, p) ==
    LET start == CHOOSE q \in p..(Len(name) + 1) : CharAt(name, q) # "/" /\ \A k \in p..(q - 1) : name[k] = "/"
        end == CHOOSE q \in start..(Len(name) + 1) : CharAt(name, q) \in {"/", "nul"} /\ \A k \in start..(q - 1) : name[k] # "/"
        part == SubSeq(name, start, end - 1)
        up == SubSeq(dest, 1, Max({k \in 1..(Len(dest) - 1) : dest[k] = "/"}))
        slash == IF Last(dest) # "/" THEN <<"/">> ELSE << >>
    IN IF part = << >> THEN dest
       ELSE IF part = <<".">> THEN AbsFrom(dest, name, end)
       ELSE IF part = <<".", ".">> THEN AbsFrom(IF Len(dest) > 1 THEN up ELSE dest, name, end)
       ELSE AbsFrom(dest \o slash \o part, name, end)
abspath(name) ==
    LET absolute == name[1] = "/"
        dest == AbsFrom(IF absolute THEN <<"/">> ELSE starting_directory, name, IF absolute THEN 2 ELSE 1)
    IN IF Len(dest) > 1 /\ Last(dest) = "/" THEN Front(dest) ELSE dest
func_abspath(s) == EachWord([k \in DOMAIN WordsIn(s) |-> abspath(WordsIn(s)[k])])

\* The disk, without symbolic links: directories and files as the components of
\* their names.
Directories == {<< >>, << <<"x">> >>}
PlainFiles == {<< <<"x">>, <<"x">> >>}

\* realpath of the C library: every component but the last is a directory that is
\* there, . and .. included, and the name is one that stat finds.
NoPath == << <<"none">> >>
Components(name) == WordsIn([k \in DOMAIN name |-> IF name[k] = "/" THEN "w" ELSE name[k]])
Walk(path, part) ==
    IF path \notin Directories THEN NoPath
    ELSE IF part = <<".">> THEN path
    ELSE IF part = <<".", ".">> THEN (IF path = << >> THEN path ELSE Front(path))
    ELSE Append(path, part)
realpath(name) ==
    LET begun == IF name[1] = "/" THEN << >> ELSE Components(starting_directory)
        path == FoldLeft(Walk, begun, Components(name) \o IF Last(name) = "/" THEN << <<".">> >> ELSE << >>)
    IN IF path = << >> THEN <<"/">> ELSE Concat([k \in DOMAIN path |-> <<"/">> \o path[k]])

\* Words that name nothing on the disk leave nothing behind.
func_realpath(s) ==
    LET real == [k \in DOMAIN WordsIn(s) |-> realpath(WordsIn(s)[k])]
    IN EachWord(SelectSeq(real, LAMBDA out : Components(out) \in Directories \cup PlainFiles))

-----------------------------------------------------------------------------
(* Numbers and the output of a command *)

Digit == [c \in {"0", "1", "2"} |-> CASE c = "0" -> 0 [] c = "1" -> 1 [] OTHER -> 2]
RECURSIVE Value(_)
Value(digits) == IF digits = << >> THEN 0 ELSE 10 * Value(Front(digits)) + Digit[Last(digits)]
AllDigits(s) == \A k \in DOMAIN s : s[k] \in DOMAIN Digit
NoNumber == [ok |-> FALSE]
Signed(s) == s # << >> /\ s[1] \in {"+", "-"}

\* parse_numeric, for word and wordlist: strtoll takes all of the stripped text.
strip_whitespace(s) == IF Tokens(s) = << >> THEN << >> ELSE SubSeq(s, Head(Tokens(s)).start, Last(Tokens(s)).end - 1)
parse_numeric(s) ==
    LET text == strip_whitespace(s)
        number == IF Signed(text) THEN Tail(text) ELSE text
    IN IF number = << >> \/ ~AllDigits(number) THEN NoNumber
       ELSE [ok |-> TRUE, value |-> IF Signed(text) /\ text[1] = "-" THEN -Value(number) ELSE Value(number)]

\* parse_textint, for intcmp: the sign and the digits from the first that is not 0.
parse_textint(s) ==
    LET p == next_token(s, 1)
        after_sign == IF CharAt(s, p) \in {"+", "-"} THEN p + 1 ELSE p
        endOf(q, chars) == CHOOSE e \in q..(Len(s) + 1) : /\ \A k \in q..(e - 1) : s[k] \in chars
                                                         /\ (e > Len(s) \/ s[e] \notin chars)
        numstart == endOf(after_sign, {"0"})
        after_number == endOf(numstart, DOMAIN Digit)
    IN IF after_number = after_sign \/ next_token(s, after_number) <= Len(s) THEN NoNumber
       ELSE [ok |-> TRUE, digits |-> SubSeq(s, numstart, after_number - 1),
             sign |-> IF numstart = after_number THEN 0 ELSE IF CharAt(s, p) = "-" THEN -1 ELSE 1]

\* The comparison of intcmp: signs, then lengths, then digits.
CompareDigits(u, v) ==
    IF u = v THEN 0 ELSE LET k == Min({j \in DOMAIN u : u[j] # v[j]}) IN Digit[u[k]] - Digit[v[k]]
Compare(l, r) ==
    LET size == IF Len(l.digits) # Len(r.digits) THEN Len(l.digits) - Len(r.digits) ELSE CompareDigits(l.digits, r.digits)
    IN IF l.sign # r.sign THEN l.sign - r.sign ELSE IF l.sign < 0 THEN -size ELSE size
\* What intcmp puts out for two equal numbers; it is 0 that comes before numstart.
EqualNumber(l) == (IF l.sign < 0 THEN <<"-">> ELSE << >>) \o (IF l.sign = 0 THEN <<"0">> ELSE l.digits)

\* fold_newlines: of the newlines at the end all go, or with != the last one only.
fold_newlines(s, trim) ==
    LET kept == Concat([k \in DOMAIN s |-> IF s[k] = "r" /\ CharAt(s, k + 1) = "n" THEN << >> ELSE <<s[k]>>])
        last_nonnl == Max({0} \cup {k \in DOMAIN kept : kept[k] # "n"})
        last == IF ~trim /\ last_nonnl < Len(kept) - 1 THEN Len(kept) - 1 ELSE last_nonnl
    IN [k \in 1..last |-> IF kept[k] = "n" THEN "w" ELSE kept[k]]

-----------------------------------------------------------------------------
(* Behaviours *)

FnInit == fn \in DOMAIN FnAlphabets /\ args = [k \in DOMAIN FnAlphabets[fn] |-> << >>]

FnNext ==
    \E k \in DOMAIN args :
        /\ Len(args[k]) < FnLengths[fn][k]
        /\ \A j \in (k + 1)..Len(args) : args[j] = << >>
        /\ \E c \in FnAlphabets[fn][k] : args' = [args EXCEPT ![k] = Append(@, c)]
        /\ UNCHANGED fn

-----------------------------------------------------------------------------
(* Properties *)

\* The words of a text, as the maximal runs of what is not blank.
WordsOf(s) ==
    LET starts == {k \in DOMAIN s : s[k] # "w" /\ (k = 1 \/ s[k - 1] = "w")}
        run(k) == SubSeq(s, k, CHOOSE e \in k..Len(s) : CharAt(s, e + 1) \in {"w", "nul"} /\ \A j \in k..e : s[j] # "w")
        seq == SetToSortSeq(starts, <)
    IN [k \in DOMAIN seq |-> run(seq[k])]
Joined(ws) == IF ws = << >> THEN << >> ELSE Front(Concat([k \in DOMAIN ws |-> ws[k] \o <<"w">>]))
Full(ws) == SelectSeq(ws, LAMBDA word : word # << >>)

\* word, wordlist, words, firstword, lastword, strip and join agree about which
\* words a text has and in which order.
WordListsAgree ==
    LET ws == WordsOf(args[1])
    IN fn = "words" =>
       /\ words(args[1]) = Len(ws) /\ strip(args[1]) = Joined(ws)
       /\ \A i \in 1..(Len(ws) + 1) :
             /\ func_word(i, args[1]) = IF i > Len(ws) THEN << >> ELSE ws[i]
             /\ \A j \in 0..(Len(ws) + 1) : WordsOf(wordlist(i, j, args[1])) = SubSeq(ws, i, Min({j, Len(ws)}))
       /\ ws # << >> => /\ firstword(args[1]) = ws[1] /\ lastword(args[1]) = Last(ws)
                        /\ join(firstword(args[1]), args[1]) = Joined([ws EXCEPT ![1] = @ \o @])
       /\ LET sorted == WordsOf(func_sort(args[1]))
          IN Range(sorted) = Range(ws) /\ \A k \in 1..(Len(sorted) - 1) : Less(sorted[k], sorted[k + 1])

\* subst takes out every occurrence, and putting it back gives the text again;
\* by words, it changes the equal words and no other character.
SubstExact ==
    LET from == args[1] text == args[2]
        out == subst_expand(from, <<"z">>, text, FALSE)
        pos == [k \in DOMAIN Tokens(text) |-> Tokens(text)[k]]
        byword == subst_expand(from, <<"z">>, text, TRUE)
    IN (fn = "subst" /\ from # << >>) =>
       /\ subst_expand(<<"z">>, from, out, FALSE) = text
       /\ (Len(from) = 1 => findstring(from, out) = << >>)
       /\ ~Contains(from, "w") =>
             /\ WordsOf(byword) = [k \in DOMAIN pos |-> IF pos[k].word = from THEN <<"z">> ELSE pos[k].word]
             /\ SelectSeq(byword, LAMBDA c : c = "w") = SelectSeq(text, LAMBDA c : c = "w")

\* The word is the pattern with something in place of its %.
MatchesWith(pattern, word, stem) == word = BeforePercent(pattern) \o stem \o AfterPercent(pattern)
Stems(pattern, word) ==
    {stem \in {SubSeq(word, i, j) : i \in 1..(Len(word) + 1), j \in 0..Len(word)} : MatchesWith(pattern, word, stem)}
RefMatches(pattern, word) == IF find_percent(pattern) = 0 THEN word = pattern ELSE Stems(pattern, word) # {}

\* patsubst changes each word the pattern matches, and keeps the others.
PatsubstByWord ==
    LET pattern == args[1] replace == args[2] ws == WordsOf(args[3])
        value(word) ==
            IF ~RefMatches(pattern, word) THEN word
            ELSE IF find_percent(pattern) = 0 \/ find_percent(replace) = 0 THEN replace
            ELSE BeforePercent(replace) \o (CHOOSE stem \in Stems(pattern, word) : TRUE) \o AfterPercent(replace)
    IN (fn = "patsubst" /\ pattern # << >>) =>
          WordsOf(patsubst_expand(pattern, replace, args[3])) = Full([k \in DOMAIN ws |-> value(ws[k])])

\* filter keeps the words some pattern matches and filter-out the others, in
\* order and as often as they occur, with the table of words or without.
FilterSplits ==
    LET ws == WordsOf(args[2]) pats == Range(WordsOf(args[1]))
        keep(want) == Joined(SelectSeq(ws, LAMBDA word : (\E p \in pats : RefMatches(p, word)) = want))
    IN fn = "filter" => filter(args[1], args[2], TRUE) = keep(TRUE) /\ filter(args[1], args[2], FALSE) = keep(FALSE)

\* dir and notdir, basename and suffix take a name apart without loss.
NamesTakenApart ==
    LET word == args[1]
    IN (fn = "names" /\ word # << >> /\ ~Contains(word, "w")) =>
       /\ dir(word) \o notdir(word) \in {word, <<".", "/">> \o word}
       /\ basename(word) \o suffix(word) = word
       /\ ~Contains(suffix(word), "/") /\ ~Contains(notdir(word), "/")

\* abspath has no empty part, no . and no .., means the same file, and is its
\* own absolute name.
Parts(name) == LET cut == [k \in DOMAIN name |-> IF name[k] = "/" THEN "w" ELSE name[k]] IN WordsOf(cut)
Step(path, part) ==
    IF part = <<".">> THEN path
    ELSE IF part = <<".", ".">> THEN (IF path = << >> THEN path ELSE Front(path))
    ELSE Append(path, part)
AbspathCanonical ==
    LET name == args[1]
        result == abspath(name)
        meant == FoldLeft(Step, IF name[1] = "/" THEN << >> ELSE Parts(starting_directory), Parts(name))
    IN (fn = "abspath" /\ name # << >> /\ ~Contains(name, "w")) =>
       /\ Parts(result) = meant /\ result[1] = "/" /\ (Len(result) > 1 => Last(result) # "/")
       /\ \A k \in 2..Len(result) : ~(result[k] = "/" /\ result[k - 1] = "/")
       /\ abspath(result) = result

\* abspath has a name for every word; realpath has one for some of the files that are
\* there, in the order of the words, the same as abspath's, and it is its own.
NamesResolved ==
    LET ws == WordsOf(args[1])
        real(word) == WordsOf(func_realpath(word))
        there(word) == Parts(abspath(word)) \in Directories \cup PlainFiles
    IN fn \in {"abspath", "paths"} =>
       /\ WordsOf(func_abspath(args[1])) = [k \in DOMAIN ws |-> abspath(ws[k])]
       /\ WordsOf(func_realpath(args[1])) = Concat([k \in DOMAIN ws |-> real(ws[k])])
       /\ \A word \in Range(ws) : real(word) # << >> => there(word) /\ real(word) = <<abspath(word)>>
       /\ func_realpath(func_realpath(args[1])) = func_realpath(args[1])

\* Both parsers take the same texts for numbers, and intcmp orders them by value.
NumbersCompared ==
    fn = "numbers" =>
        LET l == parse_textint(args[1]) r == parse_textint(args[2])
            x == parse_numeric(args[1]) y == parse_numeric(args[2])
        IN /\ l.ok = x.ok /\ r.ok = y.ok
           /\ (l.ok /\ r.ok) =>
                 /\ (Compare(l, r) < 0) = (x.value < y.value) /\ (Compare(l, r) = 0) = (x.value = y.value)
                 /\ parse_numeric(EqualNumber(l)) = x

\* The output of a command becomes one line with the same words, and all the
\* newlines at its end are gone, or one of them.
FoldedLine ==
    LET s == args[1]
        blanks(t) == [k \in DOMAIN t |-> IF t[k] = "n" \/ (t[k] = "r" /\ CharAt(t, k + 1) = "n") THEN "w" ELSE t[k]]
    IN fn = "fold" =>
       /\ \A trim \in BOOLEAN : WordsOf(fold_newlines(s, trim)) = WordsOf(blanks(s)) /\ ~Contains(fold_newlines(s, trim), "n")
       /\ fold_newlines(Append(s, "n"), TRUE) = fold_newlines(Append(Append(s, "n"), "n"), TRUE)
       /\ Len(fold_newlines(Append(Append(s, "n"), "n"), FALSE)) = Len(fold_newlines(Append(s, "n"), FALSE)) + 1

\* The functions as a whole.
FunctionsCorrect ==
    /\ WordListsAgree /\ SubstExact /\ PatsubstByWord /\ FilterSplits
    /\ NamesTakenApart /\ AbspathCanonical /\ NamesResolved /\ NumbersCompared /\ FoldedLine

-----------------------------------------------------------------------------
(***************************************************************************)
(* How GNU make calls a function (function.c): where its arguments end,    *)
(* which of them if, or, and and intcmp expand, what $(1) means inside     *)
(* nested calls, $(shell) with the other children of make, and $(file).    *)
(*                                                                         *)
(* mc says which of these a behaviour is about.  A text is a sequence of   *)
(* characters: n is a newline, r a carriage return, x any other.           *)
(***************************************************************************)

CONSTANTS
    McTexts,         \* kind of behaviour -> the characters of its texts
    McLengths,       \* bound: characters or arguments of the text of each
    MaxNesting,      \* bound: scopes inside one another
    MaxCallArgs,     \* bound: arguments of a call
    EXP_COUNT_MAX

VARIABLES
    mc, mc_text,
    scopes,          \* the scopes of variables, the innermost last
    max_args, expanding, exp_count, call_returned,
    sh,              \* $(shell): the command, the pipe and make
    jobs_dead,       \* other children of make that ended and are not reaped
    jobs_reaped,
    content          \* the file of $(file), <<"none">> when there is none

callVars == <<mc, mc_text, scopes, max_args, expanding, exp_count, call_returned, sh, jobs_dead, jobs_reaped, content>>

-----------------------------------------------------------------------------
(* The arguments of a call *)

Count(s, i, j, c) == Cardinality({k \in i..j : s[k] = c})

\* find_next_argument: the first comma from ptr on that is not in parentheses.
Nested(s, i, j) == Count(s, i, j, "(") - Count(s, i, j, ")")
find_next_argument(s, ptr, end) ==
    LET open == {k \in ptr..(end - 1) : \A j \in ptr..k : Nested(s, ptr, j) >= 0}
        hits == {k \in open : s[k] = "," /\ Nested(s, ptr, k) = 0}
    IN IF hits = {} THEN end ELSE Min(hits)

RECURSIVE ChopArguments(_, _, _, _, _)
ChopArguments(s, p, end, nargs, most) ==
    LET next == IF nargs = most THEN end ELSE find_next_argument(s, p, end)
    IN IF p > end THEN << >>
       ELSE <<SubSeq(s, p, next - 1)>> \o ChopArguments(s, next + 1, end, nargs + 1, most)

\* handle_function, for the text after the name: where the call ends and its
\* arguments, the last of which takes what is more than the function takes.
handle_function(s, most) ==
    LET ends == {k \in DOMAIN s : s[k] = ")" /\ Nested(s, 1, k) < 0}
    IN IF ends = {} THEN [args |-> << >>, end |-> 0]
       ELSE [args |-> ChopArguments(s, 1, Min(ends), 1, most), end |-> Min(ends)]

\* function_table_init: how many arguments a function takes at most; 0 is without
\* a bound.
OneList == {"abspath", "basename", "dir", "error", "eval", "firstword", "flavor", "info", "lastword", "notdir", "origin",
            "realpath", "shell", "sort", "strip", "suffix", "value", "warning", "wildcard", "words"}
TwoLists == {"addprefix", "addsuffix", "file", "filter", "filter-out", "findstring", "join", "word"}
ThreeLists == {"foreach", "if", "let", "patsubst", "subst", "wordlist"}
FunctionNames == OneList \cup TwoLists \cup ThreeLists \cup {"and", "call", "intcmp", "or"}
maximum_args(name) ==
    CASE name \in OneList -> 1 [] name \in TwoLists -> 2 [] name \in ThreeLists -> 3
      [] name = "intcmp" -> 5 [] OTHER -> 0

\* The least a function takes.
minimum_args(name) ==
    CASE name \in OneList -> 0
      [] name \in {"and", "call", "file", "or"} -> 1
      [] name \in ThreeLists \ {"if"} -> 3
      [] OTHER -> 2

\* expand_builtin_function with what is in argv: too few arguments end make, and none
\* at all make nothing; a function looks at as many as it knows of.
expand_builtin_function(name, argv) ==
    IF Len(argv) < minimum_args(name) THEN <<"fatal">>
    ELSE IF argv = << >> \/ maximum_args(name) = 0 \/ Len(argv) <= maximum_args(name) THEN argv
    ELSE SubSeq(argv, 1, maximum_args(name))

\* $(name text) by handle_function, and $(call name,text) by func_call, which has
\* already taken the text apart at every comma.
BuiltinRun(name, s) == expand_builtin_function(name, handle_function(s, maximum_args(name)).args)
BuiltinCalled(name, s) == expand_builtin_function(name, handle_function(s, 0).args)

-----------------------------------------------------------------------------
(* Conditions.  An argument is blank, expands to nothing, or has a value     *)
(* (t); the result says which were expanded, in order, and which is put out. *)

True(a) == a = "t"
Expanded(argv, k) == IF argv[k] = "blank" THEN << >> ELSE <<k>>

func_if(argv) ==
    LET k == IF True(argv[1]) THEN 2 ELSE 3
    IN [expanded |-> Expanded(argv, 1) \o (IF k <= Len(argv) THEN <<k>> ELSE << >>),
        out |-> IF k <= Len(argv) THEN k ELSE 0]

\* func_or goes on while nothing comes out, func_and while something does.
RECURSIVE OrFrom(_, _), AndFrom(_, _)
OrFrom(argv, k) ==
    IF k > Len(argv) THEN [expanded |-> << >>, out |-> 0]
    ELSE IF True(argv[k]) THEN [expanded |-> <<k>>, out |-> k]
    ELSE LET r == OrFrom(argv, k + 1) IN [r EXCEPT !.expanded = Expanded(argv, k) \o @]
AndFrom(argv, k) ==
    IF ~True(argv[k]) THEN [expanded |-> Expanded(argv, k), out |-> 0]
    ELSE IF k = Len(argv) THEN [expanded |-> <<k>>, out |-> k]
    ELSE LET r == AndFrom(argv, k + 1) IN [r EXCEPT !.expanded = <<k>> \o @]

\* func_intcmp: the part it expands when the numbers compare as cmp, of argc arguments.
IntcmpPart(argc, cmp) ==
    LET part == IF argc = 2 \/ cmp < 0 THEN 3 ELSE IF cmp > 0 /\ argc >= 5 THEN 5 ELSE 4
    IN IF part <= argc THEN part ELSE 0

-----------------------------------------------------------------------------
(* Calls of a variable *)

Unset == <<-1, 0>>
Scope(k) == scopes[k].vars
\* lookup_variable of $(n): the innermost scope that has it, or the global set.
Lookup(n) ==
    LET having == {k \in DOMAIN scopes : n \in DOMAIN Scope(k)}
    IN IF having = {} THEN <<0, n>> ELSE Scope(Max(having))[n]

\* Mutant: the scope holds this call's arguments and nothing else.
func_call_open(n) ==
    /\ mc = "call" /\ Len(scopes) < MaxNesting
    /\ scopes' = Append(scopes, [kind |-> "call", n |-> n, saved |-> max_args, vars |-> [k \in 0..n |-> <<Len(scopes) + 1, k>>]])
    /\ max_args' = Max({n + 1, max_args}) /\ exp_count' = IF expanding THEN EXP_COUNT_MAX - 1 ELSE EXP_COUNT_MAX
    /\ expanding' = TRUE
    /\ UNCHANGED <<mc, mc_text, call_returned, sh, jobs_dead, jobs_reaped, content>>

\* $(call f,...) with n arguments, up to the expansion of f: what a call around it
\* has more is hidden behind empty values.
func_call(n) ==
    /\ mc = "call" /\ Len(scopes) < MaxNesting
    /\ LET i == Max({n + 1, max_args})
           vars == [k \in 0..(i - 1) |-> IF k <= n THEN <<Len(scopes) + 1, k>> ELSE Unset]
       IN /\ scopes' = Append(scopes, [kind |-> "call", n |-> n, saved |-> max_args, vars |-> vars])
          /\ max_args' = i
    /\ exp_count' = IF expanding THEN EXP_COUNT_MAX - 1 ELSE EXP_COUNT_MAX
    /\ expanding' = TRUE
    /\ UNCHANGED <<mc, mc_text, call_returned, sh, jobs_dead, jobs_reaped, content>>

\* $(f) without call; nothing after an error.
Reference ==
    /\ mc = "call" /\ Len(scopes) < MaxNesting
    /\ expanding => exp_count > 0
    /\ exp_count' = IF expanding THEN exp_count - 1 ELSE exp_count
    /\ expanding' = TRUE
    /\ scopes' = Append(scopes, [kind |-> "reference", n |-> 0, saved |-> max_args, vars |-> << >>])
    /\ UNCHANGED <<mc, mc_text, max_args, call_returned, sh, jobs_dead, jobs_reaped, content>>

\* foreach and let: a scope with the variable; its name may be a number.
func_foreach(n) ==
    /\ mc = "call" /\ Len(scopes) < MaxNesting
    /\ scopes' = Append(scopes, [kind |-> "loop", n |-> n, saved |-> max_args, vars |-> (n :> <<Len(scopes) + 1, n>>)])
    /\ UNCHANGED <<mc, mc_text, max_args, expanding, exp_count, call_returned, sh, jobs_dead, jobs_reaped, content>>

\* The innermost of them is done.
end_scope ==
    /\ mc = "call" /\ scopes # << >>
    /\ LET top == Last(scopes)
       IN /\ scopes' = Front(scopes)
          /\ max_args' = top.saved
          /\ expanding' = IF top.kind = "loop" THEN expanding ELSE FALSE
          /\ exp_count' = IF top.kind = "call" THEN 0 ELSE exp_count
          /\ call_returned' = (call_returned \/ top.kind = "call")
    /\ UNCHANGED <<mc, mc_text, sh, jobs_dead, jobs_reaped, content>>

\* func_let: the words of list for all names but the last, which gets the rest.
func_let(names, list) ==
    [k \in 1..names |-> IF k < names THEN (IF k <= Len(list) THEN <<list[k]>> ELSE << >>)
                        ELSE SubSeq(list, names, Len(list))]

-----------------------------------------------------------------------------
(* $(shell): the command, which may leave a process behind that holds the    *)
(* pipe, and make, which reads to the end of file and then reaps children    *)
(* until it has this one.                                                    *)

NoShell == [phase |-> "idle", how |-> "none", alive |-> FALSE, writers |-> 0, written |-> 0, read |-> 0,
            exit |-> -1, status |-> -1]
ShellVars == <<mc, mc_text, scopes, max_args, expanding, exp_count, call_returned, content>>

\* func_shell_base: no words in the command, no pipe, no process, or a running one.
\* .SHELLSTATUS is 127 if no process can be made, but as it was if no pipe can.
func_shell_base(how) ==
    /\ mc = "shell" /\ sh.phase = "idle"
    /\ sh' = IF how = "runs" THEN [sh EXCEPT !.phase = "reading", !.how = how, !.alive = TRUE, !.writers = 1]
             ELSE [sh EXCEPT !.phase = "done", !.how = how, !.status = IF how = "no process" THEN 127 ELSE @]
    /\ UNCHANGED <<jobs_dead, jobs_reaped>> /\ UNCHANGED ShellVars

CommandWrites == /\ sh.writers > 0 /\ sh.written < 2 /\ sh' = [sh EXCEPT !.written = @ + 1]
                 /\ UNCHANGED <<jobs_dead, jobs_reaped>> /\ UNCHANGED ShellVars
CommandExits(code, behind) ==
    /\ sh.alive
    /\ sh' = [sh EXCEPT !.alive = FALSE, !.exit = code, !.writers = behind]
    /\ UNCHANGED <<jobs_dead, jobs_reaped>> /\ UNCHANGED ShellVars
BackgroundEnds == /\ ~sh.alive /\ sh.writers = 1 /\ sh' = [sh EXCEPT !.writers = 0]
                  /\ UNCHANGED <<jobs_dead, jobs_reaped>> /\ UNCHANGED ShellVars
JobEnds == /\ mc = "shell" /\ jobs_dead + jobs_reaped < 2 /\ jobs_dead' = jobs_dead + 1
           /\ UNCHANGED <<sh, jobs_reaped>> /\ UNCHANGED ShellVars

ReadPipe ==
    /\ sh.phase = "reading" /\ (sh.read < sh.written \/ sh.writers = 0)
    /\ sh' = IF sh.read < sh.written THEN [sh EXCEPT !.read = sh.written] ELSE [sh EXCEPT !.phase = "waiting"]
    /\ UNCHANGED <<jobs_dead, jobs_reaped>> /\ UNCHANGED ShellVars

\* reap_children(1, 0) with one dead child; for the command's it calls
\* shell_completed, which keeps 128 and the number of the signal.
shell_reaped ==
    /\ sh.phase = "waiting"
    /\ \/ /\ ~sh.alive /\ sh' = [sh EXCEPT !.phase = "done", !.status = sh.exit]
          /\ UNCHANGED <<jobs_dead, jobs_reaped>>
       \/ /\ jobs_dead > 0 /\ jobs_dead' = jobs_dead - 1 /\ jobs_reaped' = jobs_reaped + 1
          /\ UNCHANGED sh
    /\ UNCHANGED ShellVars

-----------------------------------------------------------------------------
(* $(file) *)

\* $(file >f,text) and $(file >>f,text): a newline follows a text without one.
WithNewline(s) == IF s # << >> /\ Last(s) = "n" THEN s ELSE Append(s, "n")
func_file(append) ==
    /\ mc = "file" /\ Len(content) <= McLengths[mc]
    /\ content' = (IF append /\ content # <<"none">> THEN content ELSE << >>) \o WithNewline(mc_text)
    /\ mc_text' = << >>
    /\ UNCHANGED <<mc, scopes, max_args, expanding, exp_count, call_returned, sh, jobs_dead, jobs_reaped>>

\* $(file <f): without the newline at the end, nor a carriage return before it.
file_read(s) ==
    IF s = <<"none">> \/ s = << >> THEN << >>
    ELSE IF Last(s) # "n" THEN s
    ELSE IF Len(s) > 1 /\ s[Len(s) - 1] = "r" THEN SubSeq(s, 1, Len(s) - 2) ELSE Front(s)

-----------------------------------------------------------------------------
(* Behaviours *)

CallInit ==
    /\ mc \in DOMAIN McTexts /\ mc_text = << >>
    /\ scopes = << >> /\ max_args = 0 /\ expanding = FALSE /\ exp_count = 0 /\ call_returned = FALSE
    /\ sh = NoShell /\ jobs_dead = 0 /\ jobs_reaped = 0 /\ content = <<"none">>

\* The text or the arguments of a call grow by one.
AddToText ==
    /\ Len(mc_text) < McLengths[mc]
    /\ \E c \in McTexts[mc] : mc_text' = Append(mc_text, c)
    /\ UNCHANGED <<mc, scopes, max_args, expanding, exp_count, call_returned, sh, jobs_dead, jobs_reaped, content>>

CallNext ==
    \/ AddToText
    \/ \E n \in 0..MaxCallArgs : func_call(n)
    \/ \E n \in 1..MaxCallArgs : func_foreach(n)
    \/ Reference \/ end_scope
    \/ \E how \in {"empty", "no pipe", "no process", "runs"} : func_shell_base(how)
    \/ CommandWrites \/ BackgroundEnds \/ JobEnds \/ ReadPipe \/ shell_reaped
    \/ \E code \in {0, 2, 130}, behind \in {0, 1} : CommandExits(code, behind)
    \/ \E append \in BOOLEAN : func_file(append)

-----------------------------------------------------------------------------
(* Properties *)

\* The arguments of a call, with commas between them, are its text again; no
\* argument has a comma outside parentheses, but for the last of a full list;
\* none has parentheses that do not match.
ArgumentsWhole ==
    mc = "split" => \A most \in {maximum_args(name) : name \in FunctionNames} :
        LET r == handle_function(mc_text, most)
            joined == FoldRight(LAMBDA a, rest : <<",">> \o a \o rest, r.args, << >>)
            flat(a) == \A k \in DOMAIN a : a[k] = "," => Nested(a, 1, k) > 0
            matched(a) == Nested(a, 1, Len(a)) = 0 /\ \A k \in DOMAIN a : Nested(a, 1, k) >= 0
        IN r.end > 0 =>
           /\ Tail(joined) = SubSeq(mc_text, 1, r.end - 1)
           /\ most > 0 => Len(r.args) <= most
           /\ \A k \in DOMAIN r.args : matched(r.args[k]) /\ (k # most => flat(r.args[k]))

\* A function gets the same arguments whether it is run or called, and is refused in
\* both cases for too few, unless the text has more commas than it knows of: its last
\* argument has them when it is run, and loses what follows them when it is called.
CalledAlike ==
    mc = "split" => \A name \in FunctionNames :
        LET run == BuiltinRun(name, mc_text)
            called == BuiltinCalled(name, mc_text)
        IN handle_function(mc_text, 0).end > 0 =>
           /\ (run = <<"fatal">>) = (called = <<"fatal">>)
           /\ Len(run) = Len(called)
           /\ (run # called => /\ Len(run) = maximum_args(name) /\ Front(run) = Front(called)
                               /\ IsPrefix(Append(Last(called), ","), Last(run)))

\* Arguments are expanded from the left, each at most once, and none after the
\* result is known; or and and put out what the two truth tables say.
ConditionsLazy ==
    (mc = "cond" /\ mc_text # << >>) =>
        LET o == OrFrom(mc_text, 1) a == AndFrom(mc_text, 1) i == func_if(mc_text)
            first == SelectInSeq(mc_text, LAMBDA c : c = "t")
            fails == SelectInSeq(mc_text, LAMBDA c : c # "t")
            upTo(k) == SelectSeq([j \in 1..k |-> j], LAMBDA j : mc_text[j] # "blank")
        IN /\ o = [expanded |-> upTo(IF first = 0 THEN Len(mc_text) ELSE first), out |-> first]
           /\ a = [expanded |-> upTo(IF fails = 0 THEN Len(mc_text) ELSE fails), out |-> IF fails = 0 THEN Len(mc_text) ELSE 0]
           /\ {2, 3} \cap Range(i.expanded) = IF i.out = 0 THEN {} ELSE {i.out}
           /\ \A cmp \in {-1, 0, 1}, argc \in 2..5 :
                 IntcmpPart(argc, cmp) = CASE argc = 2 -> 0 [] cmp < 0 -> 3 [] argc = 3 -> 0
                                           [] cmp > 0 /\ argc = 5 -> 5 [] OTHER -> 4

\* Inside a call $(n) is never an argument of a call around it: it is the call's
\* own, empty, a variable of a loop, or a global one.
NoArgumentLeaks ==
    LET calls == {k \in DOMAIN scopes : scopes[k].kind = "call"}
        top == Max(calls)
        loops(n) == {k \in DOMAIN scopes : scopes[k].kind = "loop" /\ scopes[k].n = n}
    IN (mc = "call" /\ calls # {}) => \A n \in 0..(MaxCallArgs + 1) :
          IF \E k \in loops(n) : k > top THEN Lookup(n) = <<Max(loops(n)), n>>
          ELSE IF n <= scopes[top].n THEN Lookup(n) = <<top, n>>
          ELSE Lookup(n) \in {Unset, <<0, n>>} \cup {<<k, n>> : k \in loops(n)}

\* A variable that refers to itself is an error, unless a call of it is around
\* the reference or, which make does not see, has returned inside it.
SelfReferenceSeen ==
    LET calls == {k \in DOMAIN scopes : scopes[k].kind = "call"}
        plain == {k \in DOMAIN scopes : scopes[k].kind = "reference"}
    IN /\ (calls = {} /\ ~call_returned) => Cardinality(plain) <= 1
       /\ scopes = << >> => max_args = 0 /\ ~expanding

\* let gives every word to one name, and the last name has all that is left.
LetComplete ==
    mc = "cond" => \A names \in 1..3 : FlattenSeq(func_let(names, mc_text)) = mc_text

\* $(shell) puts out all that was written to the pipe, also after the command's
\* end, and .SHELLSTATUS is its exit status; no other child is lost meanwhile.
ShellTold ==
    (sh.phase = "done" /\ sh.how = "runs") => sh.read = sh.written /\ sh.status = sh.exit /\ ~sh.alive

\* What $(file) reads is what it wrote: writing it back gives the same file, but
\* for a carriage return or another newline before the last newline.
FileReadBack ==
    (mc = "file" /\ content # <<"none">>) =>
        \/ WithNewline(file_read(content)) = content
        \/ Len(content) > 1 /\ content[Len(content) - 1] \in {"r", "n"}

\* The calls as a whole.
CallsCorrect ==
    /\ ArgumentsWhole /\ CalledAlike /\ ConditionsLazy /\ NoArgumentLeaks /\ SelfReferenceSeen
    /\ LetComplete /\ ShellTold /\ FileReadBack
====
