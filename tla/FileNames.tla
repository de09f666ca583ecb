---- MODULE FileNames ----
(***************************************************************************)
(* How GNU make reads a list of file names (parse_file_seq, read.c): the   *)
(* prerequisites and targets of rules, the operands of include and the     *)
(* patterns of $(wildcard).  Text is a sequence of characters: "_" is a    *)
(* blank, "|" the separator of order-only prerequisites, "*" a wildcard    *)
(* and "W" stands for the word .WAIT; backslashes are left out.            *)
(***************************************************************************)
EXTENDS Integers, Sequences, FiniteSets, SequencesExt

CONSTANTS
    ListTexts,             \* the texts
    FilesOnDisk,           \* names that glob() finds
    InArchives             \* the names of members, in every archive

VARIABLES list_text, usage

namesVars == <<list_text, usage>>

\* What the callers ask for: read.c and file.c for prerequisites, implicit.c for one
\* prerequisite, func_wildcard, include, and the targets of a static pattern rule.
Use(strip, ar, glob, exists, cached, oneword, wait, stop) ==
    [strip |-> strip, ar |-> ar, glob |-> glob, exists |-> exists, cached |-> cached, oneword |-> oneword, wait |-> wait, stop |-> stop]
Usages == {Use(TRUE, TRUE, TRUE, FALSE, TRUE, FALSE, TRUE, TRUE), Use(TRUE, TRUE, TRUE, FALSE, TRUE, TRUE, TRUE, FALSE),
           Use(FALSE, TRUE, TRUE, TRUE, FALSE, FALSE, FALSE, FALSE), Use(TRUE, FALSE, TRUE, FALSE, TRUE, FALSE, FALSE, FALSE),
           Use(TRUE, TRUE, FALSE, FALSE, TRUE, FALSE, FALSE, TRUE)}

Char(s, i) == IF i \in DOMAIN s THEN s[i] ELSE "end"
SkipTo(s, from, Stop(_)) == CHOOSE i \in from .. Len(s) + 1 : Stop(Char(s, i)) /\ \A j \in from .. i - 1 : ~Stop(s[j])
NEXT_TOKEN(s, p) == SkipTo(s, p, LAMBDA c : c # "_")
IsStop(u, c) == c = "end" \/ (u.stop /\ c = "|")
EndsWord(u, c) == IsStop(u, c) \/ (~u.oneword /\ c = "_")
First_(s, c) == CHOOSE i \in DOMAIN s : s[i] = c /\ \A j \in 1 .. i - 1 : s[j] # c

-----------------------------------------------------------------------------
(* One word *)

\* "./" and the slashes after it go, unless that is the whole word; what would be
\* empty is "./" again.
Stripped(word) ==
    LET at[k \in 0 .. Len(word)] ==
          IF k = 0 THEN 1
          ELSE LET s == at[k - 1]
               IN IF Len(word) - s + 1 > 2 /\ word[s] = "." /\ word[s + 1] = "/" THEN SkipTo(word, s + 2, LAMBDA c : c # "/") ELSE s
        rest == SubSeq(word, at[Len(word)], Len(word))
    IN IF rest = << >> THEN <<".", "/">> ELSE rest

\* Whether a later word ends the archive group that this one seems to open: the
\* words after p are looked at, and each but the last one ends at a blank.
GroupEnds(u, s, p) ==
    \E e \in p + 1 .. Len(s) + 1 :
       /\ EndsWord(u, Char(s, e)) /\ s[e - 1] = ")"
       /\ \A j \in p .. e - 1 : ~IsStop(u, Char(s, j))

\* The archive group after this word (<< >> when none is open), the element's text,
\* and whether the word is no element at all.
Element(open, text, skip) == [open |-> open, text |-> text, skip |-> skip]
InGroup(group, part) ==
    IF part = << >> THEN Element(group, << >>, TRUE)
    ELSE IF Last(part) # ")" THEN Element(group, group \o part \o <<")">>, FALSE)
    ELSE Element(<< >>, group \o part, part = <<")">>)
Grouped(u, s, p, group, word) ==
    LET paren == First_(word, "(")
        opens == u.ar /\ word[1] # "(" /\ Last(word) # ")" /\ "(" \in Range(word) /\ GroupEnds(u, s, p)
    IN IF group # << >> THEN InGroup(group, word)
       ELSE IF opens THEN InGroup(SubSeq(word, 1, paren), SubSeq(word, paren + 1, Len(word)))
       ELSE Element(<< >>, word, FALSE)

-----------------------------------------------------------------------------
(* Wildcards *)

HasWildcard(name) == "*" \in Range(name)
ShellMatch(pattern, name) ==
    LET m[i \in 0 .. Len(pattern), j \in 0 .. Len(name)] ==
          IF i = 0 THEN j = 0
          ELSE IF pattern[i] = "*" THEN m[i - 1, j] \/ (j > 0 /\ name[j] # "/" /\ m[i, j - 1])
          ELSE j > 0 /\ name[j] = pattern[i] /\ m[i - 1, j - 1]
    IN m[Len(pattern), Len(name)]
glob(name) == SetToSeq({f \in FilesOnDisk : ShellMatch(name, f)})

ar_name(name) ==
    /\ "(" \in Range(name) /\ name[1] # "("
    /\ Last(name) = ")" /\ First_(name, "(") + 1 # Len(name)
Unsupported(name) == ar_name(name) /\ name[First_(name, "(") + 1] = "(" /\ name[Len(name) - 1] = ")"
arname(name) == SubSeq(name, 1, First_(name, "(") - 1)
memname(name) == SubSeq(name, First_(name, "(") + 1, Len(name) - 1)
GlobMembers(pattern) == IF HasWildcard(pattern) THEN SetToSeq({m \in InArchives : ShellMatch(pattern, m)}) ELSE << >>

\* The files a name stands for.
Globbed(u, name) ==
    LET found == glob(name)
    IN IF (~u.exists /\ ~HasWildcard(name)) \/ (found = << >> /\ ~u.exists) THEN <<name>> ELSE found

\* The elements of the list for one name.  The members that a pattern stands for are
\* hung on as they are, or, in a list that is not cached, as the archive itself;
\* they do not take a .WAIT with them.
Plain_(name, wait) == [name |-> name, wait_here |-> wait]
AllPlain(names, wait) == [i \in DOMAIN names |-> Plain_(names[i], wait /\ i = 1)]
MembersOf(u, name, archives, members) ==
    FlattenSeq([i \in DOMAIN archives |->
        IF members = << >> THEN <<archives[i] \o <<"(">> \o memname(name) \o <<")">>>>
        ELSE [k \in DOMAIN members |-> IF u.cached THEN archives[i] \o <<"(">> \o members[k] \o <<")">> ELSE arname(name)]])
ArElements(u, name, members, wait) ==
    AllPlain(MembersOf(u, name, Globbed(u, arname(name)), members), wait /\ members = << >>)
Elements(u, name, wait) ==
    IF u.ar /\ ar_name(name) THEN ArElements(u, name, GlobMembers(memname(name)), wait)
    ELSE AllPlain(Globbed(u, name), wait)

-----------------------------------------------------------------------------
(* parse_file_seq *)

AtStart == [p |-> 1, group |-> << >>, found_wait |-> FALSE, done |-> FALSE, fatal |-> FALSE, out |-> << >>, longest |-> 0]

\* The elements new are hung on; the element e of a word ends at p.
Listed(st, p, e, new) ==
    [st EXCEPT !.p = p, !.group = e.open, !.out = @ \o new,
               !.found_wait = @ /\ \A i \in DOMAIN new : ~new[i].wait_here,
               !.longest = IF Len(e.text) > @ THEN Len(e.text) ELSE @]
WithElement(u, st, p, e) ==
    CASE e.skip -> [st EXCEPT !.p = p, !.group = e.open]
      [] ~e.skip /\ u.glob /\ u.ar /\ Unsupported(e.text) -> [st EXCEPT !.fatal = TRUE]
      [] OTHER -> Listed(st, p, e, IF u.glob THEN Elements(u, e.text, st.found_wait) ELSE <<Plain_(e.text, st.found_wait)>>)

\* The word from b up to p.
WordAt(u, st, s, b, p) ==
    LET word == SubSeq(s, b, p - 1)
    IN CASE IsStop(u, Char(s, b)) -> [st EXCEPT !.p = b, !.done = TRUE]
         [] ~IsStop(u, Char(s, b)) /\ u.wait /\ word = <<"W">> -> [st EXCEPT !.p = p, !.found_wait = TRUE]
         [] OTHER -> WithElement(u, st, p, Grouped(u, s, p, st.group, IF u.strip THEN Stripped(word) ELSE word))
WordFrom(u, st, s, b) == WordAt(u, st, s, b, SkipTo(s, b, LAMBDA c : EndsWord(u, c)))

\* The next word of the text.
Word(u, st, s) == IF st.done \/ st.fatal THEN st ELSE WordFrom(u, st, s, NEXT_TOKEN(s, st.p))

parse_file_seq(u, s) ==
    LET st[k \in 0 .. Len(s) + 1] == IF k = 0 THEN AtStart ELSE Word(u, st[k - 1], s) IN st[Len(s) + 1]

NamesInit == list_text \in ListTexts /\ usage \in Usages

-----------------------------------------------------------------------------
(* Properties *)

NamesOf(out) == [i \in DOMAIN out |-> out[i].name]
WithBlanks(names) == FlattenSeq([i \in DOMAIN names |-> Append(names[i], "_")])

\* The text is read to its end or its separator, and every name fits the buffer
\* that was made for it, though a group's name is longer than its words.
ReadToStop(parsed) ==
    ~parsed.fatal =>
        /\ parsed.done /\ IsStop(usage, Char(list_text, parsed.p))
        /\ \A j \in 1 .. parsed.p - 1 : ~IsStop(usage, list_text[j])
        /\ parsed.longest <= Len(list_text)

\* Without archives and wildcards the list is the words of the text, with the "./"
\* before them gone, and a .WAIT is where it was.
SplitText(u, s) ==
    IF u.oneword THEN <<SubSeq(s, NEXT_TOKEN(s, 1), Len(s))>>
    ELSE FoldLeft(LAMBDA ws, c : IF c = "_" THEN Append(ws, << >>) ELSE Append(Front(ws), Append(Last(ws), c)), << << >> >>, s)
PlainList(parsed) ==
    LET words == SelectSeq(SplitText(usage, SubSeq(list_text, 1, parsed.p - 1)), LAMBDA w : w # << >>)
        isWait(i) == usage.wait /\ words[i] = <<"W">>
        kept == SelectSeq([i \in DOMAIN words |-> [name |-> IF usage.strip THEN Stripped(words[i]) ELSE words[i],
                                                   skip |-> isWait(i), wait_here |-> i > 1 /\ isWait(i - 1)]], LAMBDA e : ~e.skip)
    IN (Range(list_text) \cap {"(", "*"} = {} /\ ~usage.exists) =>
          parsed.out = [i \in DOMAIN kept |-> [name |-> kept[i].name, wait_here |-> kept[i].wait_here]]

\* The names written one after the other are read as the same names: every group has
\* become whole members.  (No file on disk has a parenthesis in its name.)
ReadAgain(parsed) ==
    LET names == NamesOf(parsed.out)
    IN (~parsed.fatal /\ ~usage.oneword /\ ~usage.exists /\ "W" \notin Range(list_text)) =>
          NamesOf(parse_file_seq(usage, WithBlanks(names)).out) = names

\* What $(wildcard) gives is there, or is in an archive that is; a pattern of members
\* gives the name of the archive as it was written.
WildcardExists(parsed) ==
    (usage.exists /\ ~parsed.fatal) =>
        \A name \in Range(NamesOf(parsed.out)) : \E f \in FilesOnDisk : ShellMatch(name, f) \/ (ar_name(name) /\ arname(name) = f)

\* Lists of names as a whole.
FileNamesCorrect ==
    LET parsed == parse_file_seq(usage, list_text)
    IN ReadToStop(parsed) /\ PlainList(parsed) /\ ReadAgain(parsed) /\ WildcardExists(parsed)
====
