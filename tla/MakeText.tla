---- MODULE MakeText ----
(***************************************************************************)
(* The scanners GNU make reads makefile text with: what is quoted by a     *)
(* backslash, where a logical line ends, what word comes next and whether  *)
(* a line is an assignment (read.c, misc.c, variable.c).  They work in     *)
(* place on a buffer that ends with a NUL.                                 *)
(*                                                                         *)
(* A text is a sequence of characters: b is a backslash, n a newline, r a  *)
(* carriage return, w a blank, x any other; the rest stand for themselves. *)
(* The texts are built up one character at a time, so that TLC compares    *)
(* the scanners with their references on every text up to a bound.         *)
(***************************************************************************)
EXTENDS Integers, Sequences, FiniteSets, SequencesExt, FiniteSetsExt

CONSTANTS
    TextAlphabets,   \* family of scanners -> the characters of its texts
    MaxText,         \* bound: characters of a text
    LineBuffer,      \* the first size of readline's buffer
    LineSlack        \* what must be left of it to read on without growing

VARIABLES family, text

textVars == <<family, text>>

NUL == "0"
Buffer(s) == Append(s, NUL)
At(s, i) == IF i <= Len(s) THEN s[i] ELSE NUL
StrLen(b) == CHOOSE k \in 0..(Len(b) - 1) : b[k + 1] = NUL /\ \A j \in 1..k : b[j] # NUL
String(b) == SubSeq(b, 1, StrLen(b))
memmove(b, dst, src, n) == [k \in DOMAIN b |-> IF k \in dst..(dst + n - 1) THEN b[src + k - dst] ELSE b[k]]

\* The number of backslashes right before position p.
Backslashes(s, p) == CHOOSE m \in 0..(p - 1) : /\ \A j \in (p - m)..(p - 1) : s[j] = "b"
                                              /\ (m < p - 1 => s[p - m - 1] # "b")

\* The end of the variable reference whose $ is before position p.
skip_reference(s, p) ==
    LET level(k) == Cardinality({j \in p..k : s[j] = "("}) - Cardinality({j \in p..k : s[j] = ")"})
        ends == {k \in p..Len(s) : level(k) = 0}
    IN IF p > Len(s) THEN p
       ELSE IF s[p] # "(" THEN p + 1
       ELSE IF ends = {} THEN Len(s) + 1 ELSE Min(ends) + 1

-----------------------------------------------------------------------------
(* Quoting with backslashes *)

\* find_map_unquote and find_char_unquote, from position p of the buffer b; len
\* is the length the string had at first.  The result is the buffer and the
\* position of the first stop character that is not quoted, or 0.
RECURSIVE find_unquote(_, _, _, _, _)
find_unquote(b, len, p, stops, vars) ==
    LET hits == {k \in p..StrLen(b) : b[k] \in stops \/ (vars /\ b[k] = "$")}
        q == Min(hits)
        n == Backslashes(b, q)
        moved == memmove(b, q - n, q - n \div 2, len - (q - 1) + n \div 2 + 1)
    IN IF hits = {} THEN [buf |-> b, pos |-> 0]
       ELSE IF vars /\ b[q] = "$"
       THEN find_unquote(b, len, skip_reference(String(b), q + 1), stops, vars)
       ELSE IF n = 0 THEN [buf |-> b, pos |-> q]
       ELSE IF n % 2 = 0 THEN [buf |-> moved, pos |-> q - n \div 2]
       ELSE find_unquote(moved, len, q - n \div 2, stops, vars)

find_char_unquote(s, c) == find_unquote(Buffer(s), Len(s), 1, {c}, FALSE)
find_map_unquote(s, stops) == find_unquote(Buffer(s), Len(s), 1, stops, TRUE)

\* The rest of find_percent_cached: np is at a % after a backslash.
RECURSIVE PercentLoop(_, _, _)
PercentLoop(b, slen, np) ==
    LET n == Backslashes(b, np)
        moved == memmove(b, np - n, np - n \div 2, slen - (np - 1) + n \div 2 + 1)
        after == np - n \div 2
        next == {k \in after..StrLen(moved) : moved[k] = "%"}
    IN IF n % 2 = 0 THEN [buf |-> moved, pos |-> after]
       ELSE IF next = {} THEN [buf |-> moved, pos |-> 0]
       ELSE IF moved[Min(next) - 1] # "b" THEN [buf |-> moved, pos |-> Min(next)]
       ELSE PercentLoop(moved, slen - (n \div 2) - (n % 2), Min(next))

find_percent_cached(s) ==
    LET p == SelectInSeq(s, LAMBDA c : c = "%")
    IN IF p <= 1 \/ s[IF p > 1 THEN p - 1 ELSE 1] # "b" THEN [buf |-> Buffer(s), pos |-> p]
       ELSE PercentLoop(Buffer(s), Len(s), p)

\* unescape_char: only backslashes that quote c are taken out.
RECURSIVE unescape_char(_, _)
unescape_char(s, c) ==
    LET run == CHOOSE m \in 0..Len(s) : (\A j \in 1..m : s[j] = "b") /\ (m < Len(s) => s[m + 1] # "b")
        rest == SubSeq(s, run + 1, Len(s))
        kept == IF At(s, run + 1) # c \/ run % 2 = 0 THEN run ELSE run \div 2
    IN IF s = << >> THEN << >>
       ELSE [j \in 1..kept |-> "b"] \o
            (IF rest = << >> THEN << >> ELSE <<Head(rest)>> \o unescape_char(Tail(rest), c))

-----------------------------------------------------------------------------
(* Lines *)

\* readstring: the logical lines of a string given to eval.
RECURSIVE readstring(_)
readstring(s) ==
    LET ends == {k \in DOMAIN s : s[k] = "n" /\ Backslashes(s, k) % 2 = 0}
    IN IF s = << >> THEN << >>
       ELSE IF ends = {} THEN <<s>>
       ELSE <<SubSeq(s, 1, Min(ends) - 1)>> \o readstring(SubSeq(s, Min(ends) + 1, Len(s)))

\* fgets: at most room - 1 characters, up to a newline.
fgets(s, room) ==
    LET ends == {k \in DOMAIN s : s[k] = "n"}
        n == Min({room - 1, Len(s)} \cup ends)
    IN [got |-> SubSeq(s, 1, n), rest |-> SubSeq(s, n + 1, Len(s))]

\* readline: got is in the buffer, of the given size, rest still in the file.
RECURSIVE readline(_, _, _)
readline(got, size, rest) ==
    LET f == fgets(rest, size - Len(got))
        b == got \o f.got
        cr == Len(b) > 1 /\ b[Len(b) - 1] = "r"
        line == IF Last(b) # "n" THEN b ELSE IF cr THEN SubSeq(b, 1, Len(b) - 2) \o <<"n">> ELSE b
    IN IF f.got = << >> THEN [line |-> got, rest |-> << >>]
       ELSE IF Last(b) # "n" THEN readline(b, 2 * size, f.rest)
       ELSE IF Backslashes(line, Len(line)) % 2 = 0 THEN [line |-> Front(line), rest |-> f.rest]
       ELSE readline(line, IF size - Len(line) >= LineSlack THEN size ELSE 2 * size, f.rest)

RECURSIVE FileLines(_)
FileLines(s) ==
    IF s = << >> THEN << >>
    ELSE LET r == readline(<< >>, LineBuffer, s) IN <<r.line>> \o FileLines(r.rest)

\* collapse_continuations: out is what has been put out, in what is left.
StripBlanks(s) == SubSeq(s, 1, Max({0} \cup {k \in DOMAIN s : s[k] # "w"}))
SkipBlanks(s) == SubSeq(s, Min({Len(s) + 1} \cup {k \in DOMAIN s : s[k] # "w"}), Len(s))
Dollars(s) == Len(s) - Max({0} \cup {k \in DOMAIN s : s[k] # "$"})

RECURSIVE collapse(_, _, _)
collapse(out, in, posix) ==
    LET q == SelectInSeq(in, LAMBDA c : c = "n")
        n == Backslashes(in, q)
        kept == out \o SubSeq(in, 1, q - 1 - n + n \div 2)
        dollar == Dollars(kept) % 2 = 1
        cut == IF dollar THEN Front(kept) ELSE kept
        bare == IF posix THEN cut ELSE StripBlanks(cut)
        rest == SubSeq(in, q + 1, Len(in))
    IN IF q = 0 THEN out \o in
       ELSE IF n % 2 = 0 THEN collapse(Append(kept, "n"), rest, posix)
       ELSE collapse(IF dollar THEN bare ELSE Append(bare, "w"), SkipBlanks(rest), posix)
collapse_continuations(s, posix) == collapse(<< >>, s, posix)

-----------------------------------------------------------------------------
(* Words *)

\* The end of the word that has started: p is the position of the character
\* looked at.  done is one past the word.
RECURSIVE WordEnd(_, _, _)
WordEnd(s, p, wtype) ==
    LET c == At(s, p)
        d == At(s, p + 1)
        stop == [type |-> wtype, done |-> p]
    IN CASE c \in {NUL, "w", ":"} -> stop
         [] c = "$" /\ d = "$" -> WordEnd(s, p + 2, wtype)
         [] c = "$" /\ d = NUL -> [stop EXCEPT !.done = p + 1]
         [] c = "$" /\ d \notin {"$", NUL} -> WordEnd(s, skip_reference(s, p + 1), "w_variable")
         [] c = "b" -> WordEnd(s, IF d \in {":", ";", "=", "b"} THEN p + 2 ELSE p + 1, wtype)
         [] c = "&" /\ d = ":" -> stop
         [] OTHER -> WordEnd(s, p + 1, wtype)

\* get_next_mword from position p: its type, start and end.
get_next_mword(s, p) ==
    LET beg == Min({Len(s) + 1} \cup {k \in p..Len(s) : s[k] # "w"})
        c == At(s, beg)
        d == At(s, beg + 1)
        simple(type, n) == [type |-> type, done |-> beg + n]
        w == CASE c = NUL -> simple("w_eol", 0)
               [] c = ";" -> simple("w_semicolon", 1)
               [] c = ":" -> IF d = ":" THEN simple("w_dcolon", 2) ELSE simple("w_colon", 1)
               [] c = "&" /\ d = ":" -> IF At(s, beg + 2) = ":" THEN simple("w_ampdcolon", 3)
                                        ELSE simple("w_ampcolon", 2)
               [] OTHER -> WordEnd(s, beg, "w_static")
    IN [type |-> w.type, beg |-> beg, done |-> w.done]

RECURSIVE Words(_, _)
Words(s, p) ==
    LET w == get_next_mword(s, p) IN
    IF w.type = "w_eol" THEN << >> ELSE <<w>> \o Words(s, w.done)

\* parse_variable_definition: the loop, from position p; end is the end of the
\* name if a blank has been seen.  A read behind the NUL is "past".
NotOne == [flavor |-> "none", end |-> 0, conditional |-> FALSE]
RECURSIVE Assignment(_, _, _)
Assignment(s, p, end) ==
    LET c0 == At(s, p)
        cond == c0 = "?"
        k == IF cond THEN p + 1 ELSE p
        c == At(s, k)
        d == At(s, k + 1)
        name == IF end # 0 THEN end ELSE p
        found(flavor) == [flavor |-> flavor, end |-> name, conditional |-> cond]
        skip == Min({Len(s) + 1} \cup {j \in (p + 1)..Len(s) : s[j] # "w"})
    IN IF c0 \in {"#", NUL} THEN NotOne
       ELSE IF c0 = "w" THEN IF end # 0 THEN NotOne ELSE Assignment(s, skip, p)
       ELSE IF c = "=" THEN found("recursive")
       ELSE IF c = ":"
       THEN CASE d = "=" -> found("simple")
              [] d = ":" /\ At(s, k + 2) = "=" -> found("simple")
              [] d = ":" /\ At(s, k + 2) = ":" /\ At(s, k + 3) = "=" -> found("expand")
              [] OTHER -> NotOne
       ELSE IF cond /\ c = NUL THEN [NotOne EXCEPT !.flavor = "past"]
       ELSE IF d = "=" /\ c = "+" THEN found("append")
       ELSE IF d = "=" /\ c = "!" THEN found("shell")
       ELSE IF end # 0 THEN NotOne
       ELSE Assignment(s, IF c = "$" THEN skip_reference(s, k + 1) ELSE k + 1, 0)

parse_variable_definition(s) ==
    Assignment(s, Min({Len(s) + 1} \cup {j \in DOMAIN s : s[j] # "w"}), 0)

-----------------------------------------------------------------------------
(* The texts *)

TextInit == family \in DOMAIN TextAlphabets /\ text = << >>
TextNext == /\ Len(text) < MaxText
            /\ \E c \in TextAlphabets[family] : text' = Append(text, c)
            /\ UNCHANGED family

-----------------------------------------------------------------------------
(* Properties *)

\* The positions of s inside variable references.
RECURSIVE Inside(_, _)
Inside(s, p) ==
    LET ds == {k \in p..Len(s) : s[k] = "$"}
        e == skip_reference(s, Min(ds) + 1)
    IN IF ds = {} THEN {} ELSE (Min(ds)..(e - 1)) \cup Inside(s, e)

\* A stop character after an even number of backslashes is not quoted; the
\* first one found ends the search, and every stop character up to it has lost
\* the backslashes that were there to quote.
UnquoteExact(s, stops, inside, r) ==
    LET at == {k \in DOMAIN s : s[k] \in stops} \ inside
        free == {k \in at : Backslashes(s, k) % 2 = 0}
        upto == IF free = {} THEN at ELSE {k \in at : k <= Min(free)}
        gone == UNION {LET n == Backslashes(s, k) IN (k - n)..(k - n \div 2 - 1) : k \in upto}
        kept == SetToSortSeq(DOMAIN s \ gone, <)
    IN /\ String(r.buf) = [j \in DOMAIN kept |-> s[kept[j]]]
       /\ r.pos = IF free = {} THEN 0 ELSE CHOOSE j \in DOMAIN kept : kept[j] = Min(free)

\* The three ways of looking for an unquoted character agree with it, and
\* unescape_char leaves no quoted one and takes out nothing else.
QuotingExact ==
    family = "quoting" =>
        /\ UnquoteExact(text, {"%"}, {}, find_char_unquote(text, "%"))
        /\ UnquoteExact(text, {"%", ":"}, Inside(text, 1), find_map_unquote(text, {"%", ":"}))
        /\ LET a == find_percent_cached(text) b == find_char_unquote(text, "%")
           IN a.pos = b.pos /\ String(a.buf) = String(b.buf)
        /\ LET u == unescape_char(text, ":")
           IN SelectSeq(u, LAMBDA c : c # "b") = SelectSeq(text, LAMBDA c : c # "b")

\* A file and a string hold the same lines, however often the buffer grows; no
\* newline that ends a line is quoted and none is left in a line.
LinesExact ==
    family = "lines" =>
        LET ls == readstring(text) cut == FlattenSeq([i \in DOMAIN ls |-> Append(ls[i], "n")]) IN
        /\ cut \in {text, Append(text, "n")}
        /\ ("r" \notin ToSet(text)) => FileLines(text) = ls
        /\ \A i \in DOMAIN ls : \A k \in DOMAIN ls[i] : ls[i][k] = "n" => Backslashes(ls[i], k) % 2 = 1

\* Continuation lines are joined: no quoted newline is left, the others stay,
\* the words are kept apart and nothing but blanks, quoting backslashes and a $ is lost.
ContinuationsJoined ==
    family = "lines" => \A posix \in BOOLEAN :
        LET out == collapse_continuations(text, posix)
            quoted == {k \in DOMAIN text : text[k] = "n" /\ Backslashes(text, k) % 2 = 1}
            plain(s) == SelectSeq(s, LAMBDA c : c \in {"x", "r"})
        IN /\ Cardinality({k \in DOMAIN out : out[k] = "n"})
              = Cardinality({k \in DOMAIN text : text[k] = "n"} \ quoted)
           /\ plain(out) = plain(text)
           /\ (quoted # {} /\ "$" \notin ToSet(text)) => "w" \in ToSet(out)

\* The words cover the line: between them there are only blanks, and each is
\* longer than nothing.
WordsTile ==
    family = "words" =>
        LET ws == Words(text, 1) IN
        /\ \A i \in DOMAIN ws : ws[i].done > ws[i].beg
        /\ \A k \in DOMAIN text :
              text[k] # "w" => \E i \in DOMAIN ws : k \in ws[i].beg..(ws[i].done - 1)

\* A line is an assignment if its first operator comes after a name without
\* blanks.  A ? that is not part of an operator makes the code skip the
\* character after it, which may be a blank or the end: such lines are left out.
OperatorAt(s, k) ==
    LET c == At(s, k) d == At(s, k + 1) IN
    c \in {"=", ":"} \/ (d = "=" /\ c \in {"+", "!"})
Odd(s) == \E k \in DOMAIN s : s[k] = "?" /\ (At(s, k + 1) \notin {"=", ":", "x"})
AssignmentsFound ==
    (family = "assigns" /\ ~Odd(text)) =>
        LET inside == Inside(text, 1)
            ops == {k \in DOMAIN text : OperatorAt(text, k)} \ inside
            k == Min(ops)
            from == IF k > 1 /\ text[IF k > 1 THEN k - 1 ELSE 1] = "?" /\ k - 1 \notin inside THEN k - 1 ELSE k
            name == StripBlanks(SkipBlanks(SubSeq(text, 1, from - 1)))
            lead == Len(SubSeq(text, 1, from - 1)) - Len(SkipBlanks(SubSeq(text, 1, from - 1)))
            good == /\ ops # {}
                    /\ \A j \in DOMAIN name : name[j] \in {"w", "#"} => (lead + j) \in inside
                    /\ text[k] = ":" => \E m \in 1..3 : /\ At(text, k + m) = "="
                                                         /\ \A j \in 1..(m - 1) : text[k + j] = ":"
            r == parse_variable_definition(text)
        IN /\ r.flavor # "past"
           /\ (r.flavor # "none") = good
           /\ good => r.conditional = (from < k)

\* The scanners as a whole.
TextCorrect == QuotingExact /\ LinesExact /\ ContinuationsJoined /\ WordsTile /\ AssignmentsFound
====
