---- MODULE DirCache ----
(***************************************************************************)
(* GNU make's cache of directories (dir.c): what a directory holds is read *)
(* once and believed until a command has been run, and names that cannot   *)
(* be made are marked impossible in it.  Two names may lead to the same    *)
(* directory and share what was read.  Recipes run while make looks.       *)
(*                                                                         *)
(* A path is a sequence of slashes and names.  Members of archives, which  *)
(* have no directory, are the subject of Archives.                         *)
(***************************************************************************)
EXTENDS Integers, FiniteSets, Sequences, FiniteSetsExt

CONSTANTS
    Paths,                 \* the files make asks about
    InodeOf,               \* name of a directory -> the directory it leads to
    MAX_OPEN_DIRECTORIES,  \* streams that may be open
    MaxCommands,           \* bound: recipes started
    MaxQueries             \* bound: what make asks between two recipes

VARIABLES
    on_disk,               \* directory -> its files, or Missing
    command_count,         \* recipes that have ended, plus one
    running,               \* recipes that are running
    started,               \* recipes started
    directories,           \* name -> [contents, counter], or NONE
    contents,              \* directory -> what is known of it
    orphan,                \* name -> contents kept out of the table
    open_directories,
    answer,                \* the last answer, and what it was asked about
    asked,                 \* questions since a recipe started or ended
    unmakeable             \* history: what file_impossible was told since a recipe ended

dirVars == <<on_disk, command_count, running, started, directories, contents, orphan,
             open_directories, answer, asked, unmakeable>>

\* A path is taken apart at its last slash.
DirAndFile(path) ==
    LET slashes == {i \in DOMAIN path : path[i] = "/"}
        slash == Max(slashes)
    IN IF slashes = {} THEN <<<<".">>, path>>
       ELSE <<IF slash = 1 THEN <<"/">> ELSE SubSeq(path, 1, slash - 1), SubSeq(path, slash + 1, Len(path))>>

DirNames == {DirAndFile(p)[1] : p \in Paths}
DirFiles == {DirAndFile(p)[2] : p \in Paths}

NoDir == "none"
Missing == {<<"no directory">>}
InodeSet == {InodeOf[n] : n \in DirNames}

\* files are the entries of the hash table; stream the names readdir has not
\* given yet.
Unread == [counter |-> 0, table |-> FALSE, files |-> {}, impossible |-> {}, open |-> FALSE, stream |-> {}]

DirInit ==
    /\ on_disk \in [InodeSet -> {Missing, {}} \cup {{f} : f \in DirFiles}]
    /\ command_count = 1 /\ running = 0 /\ started = 0
    /\ directories = [n \in DirNames |-> [known |-> FALSE, contents |-> NoDir, counter |-> 0]]
    /\ contents = [i \in InodeSet |-> Unread]
    /\ orphan = [n \in DirNames |-> {}]
    /\ open_directories = 0
    /\ answer = << >> /\ asked = 0 /\ unmakeable = {}

-----------------------------------------------------------------------------
(* Looking *)

\* The contents after clear_directory_contents, and the streams it closes.
clear_directory_contents(dc) == Unread
Closed(dc) == IF dc.open THEN 1 ELSE 0

\* readdir up to name f, or to the end: names that appear while the directory
\* is open may be missed.
ReadTo(dc, f, new) ==
    LET all == dc.files \cup dc.stream \cup new
        found == f \in dc.stream \cup new
    IN IF found THEN {[dc EXCEPT !.files = @ \cup got \cup {f}, !.impossible = @ \ (got \cup {f}),
                                 !.stream = (@ \cup new) \ (got \cup {f})] : got \in SUBSET dc.stream}
       ELSE {[dc EXCEPT !.files = all, !.impossible = @ \ all, !.stream = {}, !.open = FALSE]}

\* Opening a directory that has to be read again; with too many open it is
\* read to the end at once.
Reopened(i, opened) ==
    LET dc == [Unread EXCEPT !.counter = command_count, !.table = TRUE, !.open = TRUE,
                             !.stream = on_disk[i]]
    IN IF opened + 1 = MAX_OPEN_DIRECTORIES
       THEN [dc EXCEPT !.files = dc.stream, !.stream = {}, !.open = FALSE] ELSE dc

\* find_directory: the tables after it, as a record.
find_directory(n) ==
    LET d == directories[n]
        i == InodeOf[n]
        inode == d.contents
        ctr == IF inode = NoDir THEN d.counter
               ELSE IF inode = "orphan" THEN 0 ELSE contents[inode].counter
        cleared == IF d.known /\ inode \in InodeSet
                   THEN [contents EXCEPT ![inode] = clear_directory_contents(@)] ELSE contents
        left == open_directories - IF d.known /\ inode \in InodeSet THEN Closed(contents[inode]) ELSE 0
        exists == on_disk[i] # Missing
        stale == cleared[i].counter # command_count
        left2 == left - IF stale THEN Closed(cleared[i]) ELSE 0
        dc == IF stale THEN Reopened(i, left2) ELSE cleared[i]
    IN IF d.known /\ ctr = command_count
       THEN [dir |-> d, contents |-> contents, open |-> open_directories, orphans |-> orphan]
       ELSE [dir |-> [known |-> TRUE, contents |-> IF exists THEN i ELSE NoDir, counter |-> command_count],
             contents |-> IF exists THEN [cleared EXCEPT ![i] = dc] ELSE cleared,
             open |-> IF exists /\ stale THEN left2 + Closed(dc) ELSE left,
             orphans |-> [orphan EXCEPT ![n] = {}]]

Answer_(n, f, kind, is) == <<n, f, kind, is>>

\* The tables of a question about directory n, after which they are those of r
\* but for what is known of the directory and the streams that are open.
Asks(n, r, known, open) ==
    /\ asked < MaxQueries /\ asked' = asked + 1
    /\ directories' = [directories EXCEPT ![n] = r.dir] /\ orphan' = r.orphans
    /\ contents' = known /\ open_directories' = open
    /\ UNCHANGED <<on_disk, command_count, running, started, unmakeable>>

\* What may have appeared in a directory since it was opened.
Appeared(i, dc) == IF on_disk[i] = Missing THEN {} ELSE on_disk[i] \ dc.files

\* dir_file_exists_p: the answer comes from the table if the name is in it, and
\* from the rest of the stream otherwise.
dir_file_exists_p(n, f) ==
    LET r == find_directory(n)
        i == r.dir.contents
        dc == r.contents[i]
    IN IF i \notin InodeSet
       THEN Asks(n, r, r.contents, r.open) /\ answer' = Answer_(n, f, "exists", FALSE)
       ELSE IF f \in dc.files \cup dc.impossible
       THEN Asks(n, r, r.contents, r.open) /\ answer' = Answer_(n, f, "exists", f \notin dc.impossible)
       ELSE IF ~dc.open
       THEN Asks(n, r, r.contents, r.open) /\ answer' = Answer_(n, f, "exists", FALSE)
       ELSE \E new \in SUBSET Appeared(i, dc) : \E after \in ReadTo(dc, f, new) :
               /\ Asks(n, r, [r.contents EXCEPT ![i] = after], IF after.open THEN r.open ELSE r.open - 1)
               /\ answer' = Answer_(n, f, "exists", f \in dc.stream \cup new)

file_exists_p(path) == dir_file_exists_p(DirAndFile(path)[1], DirAndFile(path)[2])

\* open_dirstream, for glob: the directory is read to its end first.
NoName == << >>
open_dirstream(n) ==
    LET r == find_directory(n)
        i == r.dir.contents
        dc == r.contents[i]
    IN IF i \notin InodeSet
       THEN Asks(n, r, r.contents, r.open) /\ answer' = Answer_(n, {}, "glob", FALSE)
       ELSE \E new \in SUBSET (IF dc.open THEN Appeared(i, dc) ELSE {}) :
            \E after \in IF dc.open THEN ReadTo(dc, NoName, new) ELSE {dc} :
               /\ Asks(n, r, [r.contents EXCEPT ![i] = after], r.open - Closed(dc))
               /\ answer' = Answer_(n, after.files \ after.impossible, "glob", TRUE)

\* file_impossible, after every search for the file has failed.  The mark for
\* a directory that is not there is kept beside the table.
file_impossible(path) ==
    LET n == DirAndFile(path)[1]
        f == DirAndFile(path)[2]
        r == find_directory(n)
        i == r.dir.contents
    IN /\ answer # << >> /\ answer[3] = "exists" /\ answer = Answer_(n, f, "exists", FALSE)
       /\ IF i \in InodeSet
          THEN /\ contents' = [r.contents EXCEPT ![i].impossible = @ \cup {f}]
               /\ directories' = [directories EXCEPT ![n] = r.dir]
               /\ orphan' = r.orphans
          ELSE /\ contents' = r.contents
               /\ directories' = [directories EXCEPT ![n] = [r.dir EXCEPT !.contents = "orphan"]]
               /\ orphan' = [r.orphans EXCEPT ![n] = @ \cup {f}]
       /\ open_directories' = r.open
       /\ answer' = << >> /\ unmakeable' = unmakeable \cup {<<InodeOf[n], f>>}
       /\ UNCHANGED <<on_disk, command_count, running, started, asked>>

\* file_impossible_p.
file_impossible_p(path) ==
    LET n == DirAndFile(path)[1]
        f == DirAndFile(path)[2]
        r == find_directory(n)
        i == r.dir.contents
    IN /\ Asks(n, r, r.contents, r.open)
       /\ answer' = Answer_(n, f, "impossible", i \in InodeSet /\ f \in r.contents[i].impossible)

-----------------------------------------------------------------------------
(* Recipes (job.c) and the file system *)

StartRecipe ==
    /\ started < MaxCommands
    /\ running' = running + 1 /\ started' = started + 1 /\ asked' = 0 /\ answer' = << >>
    /\ UNCHANGED <<on_disk, command_count, directories, contents, orphan, open_directories, unmakeable>>

\* A recipe makes or removes a file, or makes a directory.
RecipeWrites(i) ==
    /\ running > 0
    /\ \E f \in DirFiles :
          on_disk' = [on_disk EXCEPT ![i] = IF @ = Missing THEN {} ELSE IF f \in @ THEN @ \ {f} ELSE @ \cup {f}]
    /\ answer' = << >>
    /\ UNCHANGED <<command_count, running, started, directories, contents, orphan, open_directories, asked,
                   unmakeable>>


\* reap_children counts a command when its recipe has ended.
RecipeReaped ==
    /\ running > 0
    /\ running' = running - 1 /\ asked' = 0 /\ answer' = << >> /\ unmakeable' = {}
    /\ command_count' = command_count + 1
    /\ UNCHANGED <<on_disk, started, directories, contents, orphan, open_directories>>

DirNext ==
    \/ \E path \in Paths : file_exists_p(path) \/ file_impossible(path) \/ file_impossible_p(path)
    \/ \E n \in DirNames : open_dirstream(n)
    \/ StartRecipe
    \/ \E i \in InodeSet : RecipeWrites(i)
    \/ RecipeReaped

-----------------------------------------------------------------------------
(* Properties *)

\* Type invariant.
DirTypeOK ==
    /\ \A n \in DirNames : directories[n].contents \in InodeSet \cup {NoDir, "orphan"}
    /\ \A i \in InodeSet : contents[i].counter \in 0..command_count

\* With no recipe running, the answers to whether a file exists and to which
\* files there are in a directory are true, whatever recipes did while the
\* directory was being read.
AnswersTrue ==
    (answer # << >> /\ running = 0) =>
        LET there == on_disk[InodeOf[answer[1]]] IN
        CASE answer[3] = "exists" -> answer[4] = (there # Missing /\ answer[2] \in there)
          [] answer[3] = "glob" -> IF answer[4] THEN answer[2] = there ELSE there = Missing
          [] OTHER -> TRUE

\* A file is taken as impossible only if a search for it has failed since the
\* last recipe ended, by whatever name of its directory.
ImpossibleJustified ==
    answer # << >> /\ answer[3] = "impossible" /\ answer[4] => <<InodeOf[answer[1]], answer[2]>> \in unmakeable

\* The streams that are open are counted, and stay below the limit.
StreamsCounted ==
    /\ open_directories = Cardinality({i \in InodeSet : contents[i].open})
    /\ open_directories < MAX_OPEN_DIRECTORIES

\* The cache of directories as a whole.
DirCacheCorrect == DirTypeOK /\ AnswersTrue /\ ImpossibleJustified /\ StreamsCounted
====
