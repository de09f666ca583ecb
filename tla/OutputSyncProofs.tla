---- MODULE OutputSyncProofs ----
(***************************************************************************)
(* Proofs about --output-sync of GNU make (OutputSync), for every set of   *)
(* jobs, every number of lines, each of its modes and any number of calls  *)
(* that fail.                                                              *)
(*                                                                         *)
(* OutInv has two halves.  Sound holds whatever fails: what a make does    *)
(* fits the state of the job it does it for (Control), a temporary file    *)
(* holds texts of its job, or of the sub-make in that of the recursive job *)
(* (FilesOK), the texts of a job are in order along their way from file to *)
(* file to the screen (OrderOK), what was written is somewhere and is what *)
(* the jobs have come to (WrittenOK), and who gave up synchronizing saw a  *)
(* call fail (LockOK).  TogetherOK says what also holds while no call has  *)
(* failed: the texts of a unit lie side by side wherever they are, and the *)
(* messages about directories alternate around them (Kept).                *)
(***************************************************************************)
EXTENDS OutputSync, FiniteSetTheorems, SequenceTheorems, TLAPS

Parts == {"echo", "text", "enter", "leave"}
Texts == [job : OutJobs \cup {"directory"}, line : Nat, part : Parts]
Steps == {"idle", "next", "echo"}
Doings == [at : Steps \cup {"none", "start", "lock", "enter", "pump", "unlock", "exit"},
           job : OutJobs, then : Steps]
Recipes == [at : {"new", "run", "ended", "done"}, line : Nat \ {0}]

OutTypes ==
    /\ mode \in {"line", "target", "recurse"}
    /\ output_sync \in [MakeProcs -> {mode, "none"}]
    /\ osync_handle \in [MakeProcs -> BOOLEAN] /\ mutex_file \in BOOLEAN
    /\ lock \in MakeProcs \cup {"none"}
    /\ doing \in [MakeProcs -> Doings]
    /\ recipe \in [OutJobs -> Recipes] /\ \A j \in OutJobs : recipe[j].line <= LinesOf[j]
    /\ syncout \in [OutJobs -> BOOLEAN] /\ tmp_set \in [OutJobs -> BOOLEAN]
    /\ to_tmp \in [OutJobs -> BOOLEAN]
    /\ tmp \in [OutJobs -> Seq(Texts)] /\ screen \in Seq(Texts)
    /\ traced \in BOOLEAN /\ faults \in Nat
    /\ texts_written \subseteq Texts /\ \A t \in texts_written : t.job # "directory"

\* Make m is at job j.
Working(m) == doing[m].at \notin {"none", "start", "idle", "exit"}
WorksFor(m, j) == Working(m) /\ doing[m].job = j
DumpSteps == {"lock", "enter", "pump", "unlock"}
Dumping(m) == doing[m].at \in {"enter", "pump", "unlock"}
\* The line j is at is still to be started.
Pending(j) == doing[OwnerOf(j)].job = j /\ doing[OwnerOf(j)].then \in {"next", "echo"}
LineBegun(j) == recipe[j].at # "new" /\ ~Pending(j)

\* What a make is doing fits the state of the job it does it for.
StageOK(m) ==
    LET d == doing[m] IN
    /\ ~Working(m) => d.then = "idle"
    /\ d.at \in {"next", "echo"} => d.then = d.at
    /\ Working(m) => OwnerOf(d.job) = m
    /\ d.then = "next" => recipe[d.job].at = "ended"
    /\ d.then = "echo" => recipe[d.job].at \in {"new", "ended"}
    /\ d.then = "idle" /\ Working(m) => recipe[d.job].at = "done"

\* The sub-make lives while the last line of the recursive job runs.
SubOK ==
    /\ doing["top"].at \notin {"none", "start"}
    /\ doing["sub"].at = "none" <=> ~(IsRecursive(RecursiveJob) /\ LineBegun(RecursiveJob))
    /\ doing["sub"].at \notin {"none", "exit"} => recipe[RecursiveJob].at = "run"
    /\ doing["sub"].at \in {"none", "start"} => \A j \in SubJobs : recipe[j].at = "new"
    /\ doing["top"].at = "exit" => \A j \in OutJobs \ SubJobs : recipe[j].at = "done"
    /\ doing["sub"].at = "exit" => \/ \A j \in SubJobs : recipe[j].at = "new"
                                   \/ \A j \in SubJobs : recipe[j].at = "done"
    /\ \A j \in OutJobs : recipe[j].at = "new" => recipe[j].line = 1

Control == (\A m \in MakeProcs : StageOK(m)) /\ SubOK

In(t, s) == \E i \in DOMAIN s : s[i] = t

\* What a temporary file holds, and when there is nothing in it.
Holds(j, t) == t.job = j \/ (j = RecursiveJob /\ t.job \in SubJobs \cup {"directory"})
FileOK(j) ==
    /\ \A t \in Texts : In(t, tmp[j]) => Holds(j, t)
    /\ tmp[j] # << >> \/ to_tmp[j] => tmp_set[j]
    /\ recipe[j].at = "new" => tmp[j] = << >>
    /\ recipe[j].at = "run" /\ ~to_tmp[j] => tmp[j] = << >>
    /\ WorksFor(OwnerOf(j), j) /\ doing[OwnerOf(j)].at = "echo" /\ ~syncout[j] => tmp[j] = << >>
    /\ WorksFor(OwnerOf(j), j) /\ doing[OwnerOf(j)].at = "unlock" => tmp[j] = << >>
    /\ recipe[j].at = "done" =>
          tmp[j] = << >> \/ (WorksFor(OwnerOf(j), j) /\ doing[OwnerOf(j)].at \in DumpSteps)
FilesOK == \A j \in OutJobs : FileOK(j)

\* t was written before u, which is of the same job.
Earlier(t, u) == t.line < u.line \/ (t.line = u.line /\ t.part = "echo" /\ u.part = "text")
SameWriter(t, u) == t.job = u.job /\ t.job # "directory"
Sorted(s) == \A i, k \in DOMAIN s : i < k /\ SameWriter(s[i], s[k]) => Earlier(s[i], s[k])
Precedes(s, q) == \A t, u \in Texts : In(t, s) /\ In(u, q) /\ SameWriter(t, u) => Earlier(t, u)

\* A text goes from its job's file through that of the recursive job, or not,
\* to the screen; nothing overtakes another.
Ordered(shown, file) ==
    /\ Sorted(shown)
    /\ \A j \in OutJobs : Sorted(file[j]) /\ Precedes(shown, file[j])
    /\ \A j \in OutJobs : j # RecursiveJob => Precedes(file[RecursiveJob], file[j])
OrderOK == Ordered(screen, tmp)

\* What was written is what the jobs have come to, and it is somewhere.
Behind(t) == /\ t.part \in {"echo", "text"}
             /\ \/ t.line < recipe[t.job].line
                \/ /\ t.line = recipe[t.job].line /\ LineBegun(t.job)
                   /\ t.part = "text" => recipe[t.job].at \in {"ended", "done"}
Somewhere(t, shown, file) == In(t, shown) \/ \E j \in OutJobs : In(t, file[j])
WrittenOK ==
    /\ \A t \in texts_written : Behind(t)
    /\ \A t \in Texts : t.job # "directory" =>
          (t \in texts_written <=> Somewhere(t, screen, tmp))

\* While no call fails the lock is held over every dump.
Wished(j) == mode = "recurse" \/ ~IsRecursive(j)
DumpOK(m) == doing[m].at \in DumpSteps =>
                 /\ doing[m].then = "next" => mode = "line"
                 /\ doing[m].then = "echo" => ~syncout[doing[m].job]
GivenUpOK ==
    /\ osync_handle["top"] <=> mutex_file
    /\ doing["top"].at # "exit" /\ ~mutex_file => faults > 0
    /\ doing["sub"].at = "exit" /\ (\E j \in SubJobs : recipe[j].at = "new") => faults > 0 /\ ~mutex_file
HeldOK(m) ==
    /\ output_sync[m] = mode
    /\ doing[m].at \notin {"none", "start", "exit"} => osync_handle[m]
    /\ Dumping(m) => lock = m
    /\ doing[m].then = "echo" => (syncout[doing[m].job] <=> Wished(doing[m].job))
SyncedOK ==
    /\ \A j \in OutJobs : recipe[j].at = "run" => (to_tmp[j] <=> Wished(j))
    /\ traced => mode = "recurse"
LockOK ==
    /\ \A m \in MakeProcs : DumpOK(m)
    /\ GivenUpOK
    /\ faults = 0 => (\A m \in MakeProcs : HeldOK(m)) /\ SyncedOK

\* A unit of which something was shown is complete, and what is not shown yet is
\* being shown.
FileOf(t) == IF mode = "recurse" /\ t.job \in SubJobs \cup {"directory"} THEN RecursiveJob ELSE t.job
LastOf(s) == s[Len(s)]
Passed(t) == \/ recipe[FileOf(t)].at = "done"
             \/ mode = "line" /\ t.line < recipe[FileOf(t)].line
Over(t) == \A u \in Texts : In(u, tmp[FileOf(t)]) => Unit(u) # Unit(t)
UnitOK(t) ==
    /\ Passed(t)
    /\ \/ Over(t)
       \/ /\ doing[OwnerOf(FileOf(t))].at = "pump" /\ doing[OwnerOf(FileOf(t))].job = FileOf(t)
          /\ Unit(LastOf(screen)) = Unit(t)
UnitsOK == \A t \in Texts : In(t, screen) /\ Synced(t) => UnitOK(t)

\* Directory messages around what the sub-make shows.
OfSub(t) == t.job \in SubJobs \cup {"directory"} /\ t # Dir("leave")
Inside(s, k) == \E i \in 1 .. k : s[i] = Dir("enter") /\ \A l \in i .. k : OfSub(s[l])
Told(s) == \A k \in DOMAIN s : s[k].job \in SubJobs => Inside(s, k)
Open(s) == Inside(s, Len(s))
ToldAfter(s, q) ==
    \A k \in DOMAIN q : q[k].job \in SubJobs => Inside(q, k) \/ (Open(s) /\ \A l \in 1 .. k : OfSub(q[l]))

\* Without "recurse" the sub-make shows its files itself.
PlainOK ==
    /\ doing["sub"].at = "pump" => Open(screen)
    /\ \A u \in Texts : In(u, tmp[RecursiveJob]) => u.job = RecursiveJob

\* With "recurse" they go to the file of the recursive job first.
NestedOK ==
    /\ ToldAfter(screen, tmp[RecursiveJob])
    /\ ~(WorksFor("top", RecursiveJob) /\ Dumping("top")) => Told(tmp[RecursiveJob])
    /\ \A j \in SubJobs : recipe[j].at # "new" => traced
    /\ traced /\ doing["sub"].at # "exit" => Open(tmp[RecursiveJob])
    /\ traced => doing["sub"].at \notin {"none", "start"}
DirsOK ==
    /\ Told(screen)
    /\ mode # "recurse" => PlainOK
    /\ mode = "recurse" => NestedOK

Kept == OutputKeptTogether /\ UnitsOK /\ DirsOK
TogetherOK == faults = 0 => Kept

Sound == OutTypes /\ Control /\ FilesOK /\ OrderOK /\ WrittenOK /\ LockOK
OutInv == Sound /\ TogetherOK

USE OutAssumption

LEMMA Appended ==
  ASSUME NEW s \in Seq(Texts), NEW t \in Texts
  PROVE  /\ Append(s, t) \in Seq(Texts) /\ Append(s, t) # << >>
         /\ Len(Append(s, t)) = Len(s) + 1 /\ Append(s, t)[Len(s) + 1] = t
         /\ \A i \in DOMAIN s : i \in 1 .. Len(s) /\ i \in DOMAIN Append(s, t) /\ Append(s, t)[i] = s[i]
         /\ \A i \in DOMAIN Append(s, t) : i \in DOMAIN s \/ i = Len(s) + 1
OBVIOUS

LEMMA InAppended ==
  ASSUME NEW s \in Seq(Texts), NEW t \in Texts, NEW u
  PROVE  In(u, Append(s, t)) <=> In(u, s) \/ u = t
<1>1. Len(s) + 1 \in DOMAIN Append(s, t)
  BY Appended
<1> QED BY <1>1, Appended DEF In

LEMMA SortedAppended ==
  ASSUME NEW s \in Seq(Texts), NEW t \in Texts, Sorted(s),
         \A u \in Texts : In(u, s) /\ SameWriter(u, t) => Earlier(u, t)
  PROVE  Sorted(Append(s, t))
<1> SUFFICES ASSUME NEW i \in DOMAIN Append(s, t), NEW k \in DOMAIN Append(s, t), i < k,
                    SameWriter(Append(s, t)[i], Append(s, t)[k])
             PROVE  Earlier(Append(s, t)[i], Append(s, t)[k])
  BY DEF Sorted
<1>1. i \in DOMAIN s /\ Append(s, t)[i] = s[i]
  BY Appended
<1>2. CASE k \in DOMAIN s
  <2>1. Append(s, t)[k] = s[k]
    BY <1>2, Appended
  <2> QED BY <1>1, <1>2, <2>1 DEF Sorted
<1>3. CASE k = Len(s) + 1
  <2>1. s[i] \in Texts /\ In(s[i], s)
    BY <1>1 DEF In
  <2> QED BY <1>1, <1>3, <2>1, Appended
<1> QED BY <1>2, <1>3, Appended

LEMMA InTail ==
  ASSUME NEW s \in Seq(Texts), s # << >>
  PROVE  /\ Head(s) \in Texts /\ Tail(s) \in Seq(Texts) /\ In(Head(s), s)
         /\ \A u : In(u, s) <=> u = Head(s) \/ In(u, Tail(s))
         /\ \A i \in DOMAIN Tail(s) : i \in Nat /\ i + 1 \in DOMAIN s /\ Tail(s)[i] = s[i + 1]
         /\ \A i \in DOMAIN s : i = 1 \/ (i - 1 \in DOMAIN Tail(s) /\ Tail(s)[i - 1] = s[i])
<1>1. Len(s) \in Nat \ {0} /\ DOMAIN s = 1 .. Len(s) /\ Head(s) = s[1] /\ 1 \in DOMAIN s
      /\ Tail(s) \in Seq(Texts) /\ DOMAIN Tail(s) = 1 .. Len(s) - 1
      /\ \A i \in 1 .. Len(s) - 1 : Tail(s)[i] = s[i + 1]
  OBVIOUS
<1>2. \A i \in DOMAIN Tail(s) : i \in Nat /\ i + 1 \in DOMAIN s /\ Tail(s)[i] = s[i + 1]
  BY <1>1
<1>3. \A i \in DOMAIN s : i = 1 \/ (i - 1 \in DOMAIN Tail(s) /\ Tail(s)[i - 1] = s[i])
  <2> SUFFICES ASSUME NEW i \in 1 .. Len(s), i # 1
               PROVE  i - 1 \in 1 .. Len(s) - 1 /\ Tail(s)[i - 1] = s[i]
    BY <1>1
  <2>1. i - 1 \in 1 .. Len(s) - 1 /\ (i - 1) + 1 = i
    BY <1>1
  <2> QED BY <1>1, <2>1
<1>4. s[1] \in Texts
  BY <1>1
<1>5. ASSUME NEW u PROVE In(u, s) <=> u = Head(s) \/ In(u, Tail(s))
  <2>1. ASSUME In(u, s) PROVE u = Head(s) \/ In(u, Tail(s))
    BY <1>1, <1>3, <2>1 DEF In
  <2>2. ASSUME u = Head(s) \/ In(u, Tail(s)) PROVE In(u, s)
    BY <1>1, <1>2, <2>2 DEF In
  <2> QED BY <2>1, <2>2
<1> QED BY <1>1, <1>2, <1>3, <1>4, <1>5

LEMMA SortedTail ==
  ASSUME NEW s \in Seq(Texts), s # << >>, Sorted(s)
  PROVE  /\ Sorted(Tail(s))
         /\ \A u : In(u, Tail(s)) /\ SameWriter(Head(s), u) => Earlier(Head(s), u)
<1>1. ASSUME NEW i \in DOMAIN Tail(s), NEW k \in DOMAIN Tail(s), i < k,
             SameWriter(Tail(s)[i], Tail(s)[k])
      PROVE  Earlier(Tail(s)[i], Tail(s)[k])
  <2>1. i + 1 \in DOMAIN s /\ k + 1 \in DOMAIN s /\ i + 1 < k + 1
        /\ Tail(s)[i] = s[i + 1] /\ Tail(s)[k] = s[k + 1]
    BY <1>1, InTail
  <2> QED BY <1>1, <2>1 DEF Sorted
<1>2. ASSUME NEW u, In(u, Tail(s)), SameWriter(Head(s), u) PROVE Earlier(Head(s), u)
  <2>1. PICK i \in DOMAIN Tail(s) : Tail(s)[i] = u
    BY <1>2 DEF In
  <2>2. i + 1 \in DOMAIN s /\ s[i + 1] = u /\ 1 \in DOMAIN s /\ Head(s) = s[1]
    BY <2>1, InTail
  <2>3. i \in DOMAIN Tail(s) => 1 < i + 1
    OBVIOUS
  <2> QED BY <1>2, <2>1, <2>2, <2>3 DEF Sorted
<1> QED BY <1>1, <1>2 DEF Sorted

LEMMA AppendJoined ==
  ASSUME NEW s \in Seq(Texts), NEW e \in Seq(Texts), NEW a \in Texts
  PROVE  /\ s \o << >> = s /\ s \o <<a>> = Append(s, a) /\ s \o e \in Seq(Texts)
         /\ s \o Append(e, a) = Append(s \o e, a)
<1>1. s \o << >> = s /\ s \o <<a>> = Append(s, a) /\ s \o e \in Seq(Texts)
  OBVIOUS
<1>2. s \o Append(e, a) = Append(s \o e, a)
  OBVIOUS
<1> QED BY <1>1, <1>2

LEMMA SomeTexts ==
  ASSUME OutTypes
  PROVE  /\ Dir("enter") \in Texts /\ Dir("leave") \in Texts
         /\ Dir("enter").job = "directory" /\ Dir("leave").job = "directory"
         /\ \A j \in OutJobs : /\ Text(j, "echo") \in Texts /\ Text(j, "text") \in Texts
                               /\ Text(j, "echo").job = j /\ Text(j, "text").job = j
                               /\ Text(j, "echo").line = recipe[j].line
                               /\ Text(j, "text").line = recipe[j].line
                               /\ Text(j, "echo").part = "echo" /\ Text(j, "text").part = "text"
<1>1. \A j \in OutJobs : recipe[j].line \in Nat
  BY DEF OutTypes, Recipes
<1> QED BY <1>1 DEF Texts, Parts, Dir, Text

----------------------------------------------------------------------------
\* Types.
LEMMA StdoutTypes ==
  ASSUME OutTypes, NEW m \in MakeProcs, NEW texts \in Seq(Texts), WriteStdout(m, texts)
  PROVE  tmp' \in [OutJobs -> Seq(Texts)] /\ screen' \in Seq(Texts)
<1>1. tmp \in [OutJobs -> Seq(Texts)] /\ screen \in Seq(Texts) /\ RecursiveJob \in OutJobs
  BY DEF OutTypes
<1>2. screen \o texts \in Seq(Texts) /\ tmp[RecursiveJob] \o texts \in Seq(Texts)
  BY <1>1, AppendJoined
<1> QED BY <1>1, <1>2 DEF WriteStdout

LEMMA DirTexts ==
  ASSUME OutTypes
  PROVE  \A m, sync : /\ Entering(m, sync) \in Seq(Texts)
                      /\ Entering(m, sync) = << >> \/ Entering(m, sync) = <<Dir("enter")>>
BY SomeTexts DEF Entering

LEMMA StartTypes ==
  ASSUME OutTypes, NEW m \in MakeProcs, NEW j \in OutJobs, NEW set \in BOOLEAN, NEW sync,
         NEW again \in BOOLEAN, StartCommand(m, j, set, sync, again)
  PROVE  /\ mode' = mode /\ doing' \in [MakeProcs -> Doings]
         /\ recipe' \in [OutJobs -> Recipes] /\ \A i \in OutJobs : recipe'[i].line = recipe[i].line
         /\ tmp_set' \in [OutJobs -> BOOLEAN] /\ to_tmp' \in [OutJobs -> BOOLEAN]
         /\ tmp' \in [OutJobs -> Seq(Texts)] /\ screen' \in Seq(Texts) /\ traced' \in BOOLEAN
         /\ texts_written' \subseteq Texts /\ \A t \in texts_written' : t.job # "directory"
<1> DEFINE e == Entering(m, sync)
<1>1. /\ tmp \in [OutJobs -> Seq(Texts)] /\ screen \in Seq(Texts) /\ recipe \in [OutJobs -> Recipes]
      /\ doing \in [MakeProcs -> Doings] /\ RecursiveJob \in OutJobs /\ "sub" \in MakeProcs
      /\ Text(j, "echo") \in Texts /\ Text(j, "echo").job = j /\ e \in Seq(Texts)
  BY SomeTexts, DirTexts DEF OutTypes, MakeProcs
<1>2. IdleMake \in Doings
  BY DEF IdleMake, Doings, Steps
<1>3. /\ doing' \in [MakeProcs -> Doings] /\ recipe' \in [OutJobs -> Recipes]
      /\ \A i \in OutJobs : recipe'[i].line = recipe[i].line
  <2>1. doing' = [doing EXCEPT ![m] = IdleMake,
                     !["sub"] = IF IsRecursive(j) THEN [@ EXCEPT !.at = "start"]
                                ELSE IF m = "sub" THEN IdleMake ELSE @]
    BY DEF StartCommand
  <2>2. [doing["sub"] EXCEPT !.at = "start"] \in Doings
    BY <1>1, ZenonT(60) DEF Doings
  <2>3. [IdleMake EXCEPT !.at = "start"] \in Doings
    BY <1>2 DEF Doings
  <2>4. doing' \in [MakeProcs -> Doings]
    BY <1>1, <1>2, <2>1, <2>2, <2>3
  <2>5. recipe' = [recipe EXCEPT ![j].at = "run"]
    BY DEF StartCommand
  <2>6. \A r \in Recipes : [r EXCEPT !.at = "run"] \in Recipes /\ [r EXCEPT !.at = "run"].line = r.line
    BY DEF Recipes
  <2> QED BY <1>1, <2>4, <2>5, <2>6
<1>4. tmp' \in [OutJobs -> Seq(Texts)] /\ screen' \in Seq(Texts)
  <2>1. CASE set
    <3>1. \A i \in OutJobs : Append(tmp[i], Text(j, "echo")) \in Seq(Texts)
      BY <1>1, Appended
    <3>2. [tmp EXCEPT ![j] = Append(@, Text(j, "echo"))] \in [OutJobs -> Seq(Texts)]
      BY <1>1, <3>1
    <3>3. \A q \in Seq(Texts) : q \o e \in Seq(Texts)
      BY <1>1, AppendJoined
    <3>4. PICK own \in [OutJobs -> Seq(Texts)] : own = [tmp EXCEPT ![j] = Append(@, Text(j, "echo"))]
      BY <3>2
    <3>5. \/ tmp' = [own EXCEPT ![RecursiveJob] = @ \o e] /\ screen' = screen
          \/ tmp' = own /\ screen' = screen \o e
      BY <2>1, <3>4 DEF StartCommand
    <3>6. own[RecursiveJob] \in Seq(Texts)
      BY <1>1
    <3> HIDE DEF e
    <3> QED BY <1>1, <3>3, <3>5, <3>6
  <2>2. CASE ~set
    <3>1. Append(e, Text(j, "echo")) \in Seq(Texts)
      BY <1>1, Appended
    <3> QED BY <2>2, <3>1, StdoutTypes DEF StartCommand
  <2> QED BY <2>1, <2>2
<1>5. texts_written' \subseteq Texts /\ \A t \in texts_written' : t.job # "directory"
  BY <1>1 DEF StartCommand, OutTypes
<1>6. mode' = mode /\ tmp_set' \in [OutJobs -> BOOLEAN] /\ to_tmp' \in [OutJobs -> BOOLEAN]
      /\ traced' \in BOOLEAN
  BY DEF StartCommand, OutTypes
<1> QED BY <1>3, <1>4, <1>5, <1>6

LEMMA ClearTypes ==
  ASSUME OutTypes, NEW m \in MakeProcs, osync_clear(m)
  PROVE  osync_handle' \in [MakeProcs -> BOOLEAN] /\ mutex_file' \in BOOLEAN
         /\ lock' \in MakeProcs \cup {"none"}
BY DEF OutTypes, osync_clear

LEMMA DoingTypes ==
  ASSUME NEW d \in Doings, NEW a \in Steps \cup {"none", "start", "lock", "enter", "pump", "unlock", "exit"}
  PROVE  [d EXCEPT !.at = a] \in Doings
BY DEF Doings

LEMMA OutTypesStay ==
  ASSUME OutTypes, OutNext
  PROVE  OutTypes'
<1> USE DEF OutTypes
<1>1. /\ doing \in [MakeProcs -> Doings] /\ tmp \in [OutJobs -> Seq(Texts)] /\ screen \in Seq(Texts)
      /\ \A m \in MakeProcs : doing[m] \in Doings /\ doing[m].job \in OutJobs /\ doing[m].then \in Steps
  BY DEF Doings
<1>2. "sub" \in MakeProcs /\ "top" \in MakeProcs /\ \A m \in MakeProcs : RecipesOf(m) \subseteq OutJobs
  BY DEF MakeProcs, RecipesOf
<1>3. ASSUME NEW m \in MakeProcs, DumpLock(m) \/ DumpLockFails(m) \/ DumpUnlock(m) PROVE OutTypes'
  <2>1. \A a \in {"enter", doing[m].then} : [doing EXCEPT ![m].at = a] \in [MakeProcs -> Doings]
    BY <1>1, DoingTypes DEF Steps
  <2>2. CASE DumpLock(m)
    BY <2>1, <2>2 DEF DumpLock, osync_acquire, files
  <2>3. CASE DumpLockFails(m)
    BY <2>1, <2>3, ClearTypes DEF DumpLockFails, files
  <2>4. CASE DumpUnlock(m)
    BY <2>1, <2>4 DEF DumpUnlock, osync_release, files
  <2> QED BY <1>3, <2>2, <2>3, <2>4
<1>4. ASSUME NEW m \in MakeProcs, DumpEnter(m) \/ DumpLeave(m) PROVE OutTypes'
  <2>1. \A a \in {"pump", "unlock"} : [doing EXCEPT ![m].at = a] \in [MakeProcs -> Doings]
    BY <1>1, DoingTypes
  <2>2. <<Dir("enter")>> \in Seq(Texts) /\ <<Dir("leave")>> \in Seq(Texts) /\ << >> \in Seq(Texts)
    BY SomeTexts
  <2>3. tmp' \in [OutJobs -> Seq(Texts)] /\ screen' \in Seq(Texts)
    BY <1>4, <2>2, StdoutTypes DEF DumpEnter, DumpLeave
  <2> QED BY <1>4, <2>1, <2>3 DEF DumpEnter, DumpLeave, locking
<1>5. ASSUME NEW m \in MakeProcs, DumpText(m) PROVE OutTypes'
  <2> DEFINE j == doing[m].job
             rest == [tmp EXCEPT ![j] = Tail(@)]
  <2>1. Head(tmp[j]) \in Texts /\ Tail(tmp[j]) \in Seq(Texts)
    BY <1>1, <1>5, InTail DEF DumpText
  <2>2. rest \in [OutJobs -> Seq(Texts)]
    BY <1>1, <2>1
  <2>3. \A s \in Seq(Texts) : Append(s, Head(tmp[j])) \in Seq(Texts)
    BY <2>1, Appended
  <2>4. \/ tmp' = [rest EXCEPT ![RecursiveJob] = Append(@, Head(tmp[j]))] /\ screen' = screen
        \/ tmp' = rest /\ screen' = Append(screen, Head(tmp[j]))
    BY <1>5 DEF DumpText
  <2> HIDE DEF rest, j
  <2>5. rest[RecursiveJob] \in Seq(Texts)
    BY <2>2
  <2>6. tmp' \in [OutJobs -> Seq(Texts)] /\ screen' \in Seq(Texts)
    <3>1. PICK longer \in Seq(Texts) : longer = Append(rest[RecursiveJob], Head(tmp[j]))
      BY <2>3, <2>5
    <3>2. PICK shown \in Seq(Texts) : shown = Append(screen, Head(tmp[j]))
      BY <1>1, <2>3
    <3>3. \/ tmp' = [rest EXCEPT ![RecursiveJob] = longer] /\ screen' = screen
          \/ tmp' = rest /\ screen' = shown
      BY <2>4, <3>1, <3>2
    <3>4. screen' \in Seq(Texts)
      BY <1>1, <3>3
    <3>5. tmp' \in [OutJobs -> Seq(Texts)]
      BY <2>2, <3>3
    <3> QED BY <3>4, <3>5
  <2> QED BY <1>5, <2>6 DEF DumpText, locking
<1>6. ASSUME NEW m \in MakeProcs, StartLine(m) PROVE OutTypes'
  <2>1. PICK j \in RecipesOf(m) :
           LET synced == output_sync[m] # "none" /\ (output_sync[m] = "recurse" \/ ~IsRecursive(j))
           IN  syncout' = [syncout EXCEPT ![j] = synced] /\ DumpBefore(m, j, synced)
    BY <1>6 DEF StartLine
  <2>2. doing' \in [MakeProcs -> Doings]
    <3>1. \A a \in {"echo", "lock"} : [at |-> a, job |-> j, then |-> "echo"] \in Doings
      BY <1>2 DEF Doings, Steps
    <3> QED BY <1>1, <2>1, <3>1 DEF DumpBefore, Dump
  <2> QED BY <1>2, <1>6, <2>1, <2>2 DEF StartLine, files, locking
<1>7. ASSUME NEW m \in MakeProcs, Echo(m) \/ EchoWithoutTmpfile(m) PROVE OutTypes'
  <2>1. CASE Echo(m)
    <3>1. PICK j \in OutJobs : j = doing[m].job
      BY <1>1
    <3>2. StartCommand(m, j, syncout[j], output_sync[m], syncout[j]) /\ syncout[j] \in BOOLEAN
      BY <2>1, <3>1 DEF Echo
    <3>3. /\ mode' = mode /\ doing' \in [MakeProcs -> Doings]
          /\ recipe' \in [OutJobs -> Recipes] /\ \A i \in OutJobs : recipe'[i].line = recipe[i].line
          /\ tmp_set' \in [OutJobs -> BOOLEAN] /\ to_tmp' \in [OutJobs -> BOOLEAN]
          /\ tmp' \in [OutJobs -> Seq(Texts)] /\ screen' \in Seq(Texts) /\ traced' \in BOOLEAN
          /\ texts_written' \subseteq Texts /\ \A t \in texts_written' : t.job # "directory"
      BY <3>2, StartTypes
    <3> QED BY <2>1, <3>3 DEF Echo, locking
  <2>2. CASE EchoWithoutTmpfile(m)
    <3>1. PICK again \in BOOLEAN, set \in BOOLEAN : StartCommand(m, doing[m].job, set, "none", again)
      BY <2>2 DEF EchoWithoutTmpfile
    <3>2. PICK j \in OutJobs : j = doing[m].job
      BY <1>1
    <3>3. /\ mode' = mode /\ doing' \in [MakeProcs -> Doings]
          /\ recipe' \in [OutJobs -> Recipes] /\ \A i \in OutJobs : recipe'[i].line = recipe[i].line
          /\ tmp_set' \in [OutJobs -> BOOLEAN] /\ to_tmp' \in [OutJobs -> BOOLEAN]
          /\ tmp' \in [OutJobs -> Seq(Texts)] /\ screen' \in Seq(Texts) /\ traced' \in BOOLEAN
          /\ texts_written' \subseteq Texts /\ \A t \in texts_written' : t.job # "directory"
      BY <3>1, <3>2, StartTypes
    <3>4. /\ osync_handle' \in [MakeProcs -> BOOLEAN] /\ mutex_file' \in BOOLEAN
          /\ lock' \in MakeProcs \cup {"none"}
      BY <2>2, ClearTypes DEF EchoWithoutTmpfile
    <3>5. /\ output_sync' \in [MakeProcs -> {mode, "none"}] /\ faults' \in Nat /\ syncout' = syncout
      BY <2>2 DEF EchoWithoutTmpfile
    <3> QED BY <3>3, <3>4, <3>5
  <2> QED BY <1>7, <2>1, <2>2
<1>8. ASSUME NEW m \in MakeProcs, Reap(m) PROVE OutTypes'
  <2>1. PICK j \in RecipesOf(m) :
           /\ recipe[j].at = "ended"
           /\ IF LinesLeft(j)
              THEN /\ recipe' = [recipe EXCEPT ![j].line = @ + 1]
                   /\ IF DumpsBetweenLines(m) THEN Dump(m, j, "next")
                      ELSE doing' = [doing EXCEPT ![m] = [at |-> "next", job |-> j, then |-> "next"]]
              ELSE recipe' = [recipe EXCEPT ![j].at = "done"] /\ Dump(m, j, "idle")
    BY <1>8 DEF Reap
  <2>2. doing' \in [MakeProcs -> Doings]
    <3>1. \A a \in Steps : /\ [at |-> a, job |-> j, then |-> a] \in Doings
                           /\ [at |-> "lock", job |-> j, then |-> a] \in Doings
      BY <1>2 DEF Doings, Steps
    <3> QED BY <1>1, <2>1, <3>1, ZenonT(60) DEF Dump, Steps
  <2>3. recipe' \in [OutJobs -> Recipes] /\ \A i \in OutJobs : recipe'[i].line <= LinesOf[i]
    <3>1. recipe[j].line \in Nat /\ LinesOf[j] \in Nat /\ j \in OutJobs
      BY <1>2 DEF Recipes
    <3>2. [recipe[j] EXCEPT !.line = @ + 1] \in Recipes /\ [recipe[j] EXCEPT !.at = "done"] \in Recipes
      BY <3>1 DEF Recipes
    <3>3. PICK r \in Recipes : recipe' = [recipe EXCEPT ![j] = r] /\ r.line <= LinesOf[j]
      <4>1. CASE LinesLeft(j)
        <5>1. recipe' = [recipe EXCEPT ![j] = [recipe[j] EXCEPT !.line = @ + 1]]
          BY <2>1, <4>1
        <5>2. [recipe[j] EXCEPT !.line = @ + 1].line <= LinesOf[j]
          BY <3>1, <4>1 DEF LinesLeft, Recipes
        <5> QED BY <3>2, <5>1, <5>2
      <4>2. CASE ~LinesLeft(j)
        <5>1. recipe' = [recipe EXCEPT ![j] = [recipe[j] EXCEPT !.at = "done"]]
          BY <2>1, <4>2
        <5>2. [recipe[j] EXCEPT !.at = "done"].line <= LinesOf[j]
          BY <3>1 DEF Recipes
        <5> QED BY <3>2, <5>1, <5>2
      <4> QED BY <4>1, <4>2
    <3> QED BY <3>1, <3>3
  <2> QED BY <1>8, <2>2, <2>3 DEF Reap, locking, files
<1>9. ASSUME NEW m \in MakeProcs, MakeDies(m) PROVE OutTypes'
  <2>1. [doing EXCEPT ![m].at = "exit"] \in [MakeProcs -> Doings]
    BY <1>1, DoingTypes
  <2>2. <<Dir("leave")>> \in Seq(Texts) /\ << >> \in Seq(Texts)
    BY SomeTexts
  <2>3. tmp' \in [OutJobs -> Seq(Texts)] /\ screen' \in Seq(Texts)
    BY <1>9, <2>2, StdoutTypes DEF MakeDies
  <2> QED BY <1>9, <2>1, <2>3, ClearTypes DEF MakeDies
<1>10. ASSUME NEW j \in OutJobs, CommandWrites(j) PROVE OutTypes'
  <2>1. Text(j, "text") \in Texts /\ Text(j, "text").job = j /\ OwnerOf(j) \in MakeProcs
    BY SomeTexts DEF OwnerOf, MakeProcs
  <2>2. tmp' \in [OutJobs -> Seq(Texts)] /\ screen' \in Seq(Texts)
    <3>1. Append(tmp[j], Text(j, "text")) \in Seq(Texts) /\ <<Text(j, "text")>> \in Seq(Texts)
      BY <1>1, <2>1, Appended
    <3>2. CASE to_tmp[j]
      <4>1. tmp' = [tmp EXCEPT ![j] = Append(tmp[j], Text(j, "text"))] /\ screen' = screen
        BY <1>10, <3>2 DEF CommandWrites
      <4> QED BY <1>1, <3>1, <4>1
    <3>3. CASE ~to_tmp[j]
      BY <1>10, <2>1, <3>1, <3>3, StdoutTypes DEF CommandWrites
    <3> QED BY <3>2, <3>3
  <2>3. recipe' \in [OutJobs -> Recipes] /\ \A i \in OutJobs : recipe'[i].line <= LinesOf[i]
    BY <1>10 DEF CommandWrites, Recipes
  <2>4. texts_written' \subseteq Texts /\ \A t \in texts_written' : t.job # "directory"
    BY <1>10, <2>1 DEF CommandWrites
  <2> QED BY <1>10, <2>2, <2>3, <2>4 DEF CommandWrites, locking
<1>11. CASE SubMakeEnds
  <2>1. recipe' \in [OutJobs -> Recipes] /\ \A i \in OutJobs : recipe'[i].line <= LinesOf[i]
    BY <1>11 DEF SubMakeEnds, Recipes
  <2> QED BY <1>11, <2>1 DEF SubMakeEnds, locking, files
<1>12. CASE SubMakeStarts
  <2>1. [doing EXCEPT !["sub"].at = "idle"] \in [MakeProcs -> Doings]
        /\ [doing EXCEPT !["sub"].at = "exit"] \in [MakeProcs -> Doings]
    BY <1>1, <1>2, DoingTypes DEF Steps
  <2> QED BY <1>2, <1>12, <2>1 DEF SubMakeStarts, files
<1> QED BY <1>3, <1>4, <1>5, <1>6, <1>7, <1>8, <1>9, <1>10, <1>11, <1>12 DEF OutNext, output_dump

----------------------------------------------------------------------------
\* What a make is doing and how far its jobs are.
LEMMA OutNames ==
  /\ MakeProcs = {"top", "sub"} /\ "top" \in MakeProcs /\ "sub" \in MakeProcs
  /\ RecursiveJob \in OutJobs /\ OwnerOf(RecursiveJob) = "top"
  /\ \A j \in OutJobs : /\ OwnerOf(j) \in MakeProcs /\ (OwnerOf(j) = "sub" <=> j \in SubJobs)
                        /\ j # "directory" /\ LinesOf[j] \in Nat \ {0}
  /\ \A m \in MakeProcs : \A j : j \in RecipesOf(m) <=> j \in OutJobs /\ OwnerOf(j) = m
  /\ SubJobs \subseteq OutJobs /\ RecursiveJob \notin SubJobs
BY DEF MakeProcs, OwnerOf, RecipesOf

LEMMA OutFacts ==
  ASSUME OutTypes
  PROVE  /\ \A m \in MakeProcs : /\ doing[m] \in Doings /\ doing[m].job \in OutJobs
                                 /\ doing[m].then \in Steps
         /\ \A j \in OutJobs : /\ recipe[j].at \in {"new", "run", "ended", "done"}
                               /\ recipe[j].line \in Nat \ {0} /\ recipe[j].line <= LinesOf[j]
                               /\ tmp[j] \in Seq(Texts) /\ tmp_set[j] \in BOOLEAN
                               /\ to_tmp[j] \in BOOLEAN /\ syncout[j] \in BOOLEAN
         /\ tmp[RecursiveJob] \in Seq(Texts) /\ screen \in Seq(Texts)
         /\ \A m \in MakeProcs : output_sync[m] \in {mode, "none"} /\ osync_handle[m] \in BOOLEAN
         /\ mutex_file \in BOOLEAN
BY OutNames DEF OutTypes, Doings, Recipes

\* A make moves on to another step of what it is doing.
MovesTo(m, x) ==
    /\ doing'[m].at = x /\ doing'[m].job = doing[m].job /\ doing'[m].then = doing[m].then
    /\ \A n \in MakeProcs : n # m => doing'[n] = doing[n]

LEMMA MovedTo ==
  ASSUME OutTypes, NEW m \in MakeProcs, NEW x, doing' = [doing EXCEPT ![m].at = x]
  PROVE  MovesTo(m, x)
<1>1. doing \in [MakeProcs -> Doings] /\ doing[m] \in Doings
  BY DEF OutTypes
<1>2. doing'[m] = [doing[m] EXCEPT !.at = x] /\ \A n \in MakeProcs : n # m => doing'[n] = doing[n]
  BY <1>1
<1>3. [doing[m] EXCEPT !.at = x].at = x /\ [doing[m] EXCEPT !.at = x].job = doing[m].job
      /\ [doing[m] EXCEPT !.at = x].then = doing[m].then
  BY <1>1 DEF Doings
<1> QED BY <1>2, <1>3 DEF MovesTo

LEMMA SamePending ==
  ASSUME OutTypes, NEW m \in MakeProcs, NEW x, MovesTo(m, x)
  PROVE  /\ \A j \in OutJobs : Pending(j)' <=> Pending(j)
         /\ \A n \in MakeProcs : doing'[n].job = doing[n].job /\ doing'[n].then = doing[n].then
<1>1. \A n \in MakeProcs : doing'[n].job = doing[n].job /\ doing'[n].then = doing[n].then
  BY DEF MovesTo
<1> QED BY <1>1, OutNames DEF Pending

LEMMA MoveControl ==
  ASSUME OutTypes, Control, NEW m \in MakeProcs, NEW x, MovesTo(m, x), recipe' = recipe,
         \/ Working(m) /\ (x \in DumpSteps \/ x = doing[m].then)
         \/ doing[m].at = "idle" /\ x = "exit" /\ \A j \in RecipesOf(m) : recipe[j].at = "done"
         \/ m = "sub" /\ doing[m].at = "start" /\ x \in {"idle", "exit"}
  PROVE  Control'
<1>1. /\ \A j \in OutJobs : Pending(j)' <=> Pending(j)
      /\ \A n \in MakeProcs : doing'[n].job = doing[n].job /\ doing'[n].then = doing[n].then
      /\ doing'[m].at = x /\ \A n \in MakeProcs : n # m => doing'[n] = doing[n]
  BY SamePending DEF MovesTo
<1>2. doing[m].then \in Steps /\ doing[m].job \in OutJobs
  BY OutFacts
<1>3. StageOK(m) /\ \A n \in MakeProcs : StageOK(n)
  BY DEF Control
<1>4. StageOK(m)'
  BY <1>1, <1>2, <1>3 DEF StageOK, Working, Steps, DumpSteps
<1>5. ASSUME NEW n \in MakeProcs, n # m PROVE StageOK(n)'
  BY <1>1, <1>3, <1>5 DEF StageOK, Working
<1>6. SubOK'
  <2>1. /\ (IsRecursive(RecursiveJob) /\ LineBegun(RecursiveJob))'
              <=> (IsRecursive(RecursiveJob) /\ LineBegun(RecursiveJob))
    BY <1>1, OutNames DEF IsRecursive, LineBegun
  <2>2. SubOK
    BY DEF Control
  <2>3. x \in Steps \cup {"enter", "pump", "unlock", "lock", "exit"}
    BY <1>2 DEF DumpSteps, Steps
  <2>4. CASE m = "top"
    <3>1. doing'["sub"] = doing["sub"] /\ doing'["top"].at = x
      BY <1>1, <2>4, OutNames
    <3>2. x = "exit" => \A j \in OutJobs \ SubJobs : recipe[j].at = "done"
      BY <1>2, <2>4, OutNames DEF DumpSteps, Steps, RecipesOf
    <3> QED BY <2>1, <2>2, <2>3, <3>1, <3>2 DEF SubOK, Steps
  <2>5. CASE m = "sub"
    <3>1. doing'["top"] = doing["top"] /\ doing'["sub"].at = x
      BY <1>1, <2>5, OutNames
    <3>2. doing["sub"].at # "none" /\ x # "none" /\ x # "start" /\ (x # "exit" => doing["sub"].at # "exit")
      BY <1>2, <2>3, <2>5 DEF Working, Steps, DumpSteps
    <3>3. x = "exit" => \/ \A j \in SubJobs : recipe[j].at = "new"
                        \/ \A j \in SubJobs : recipe[j].at = "done"
      BY <1>2, <2>2, <2>5, OutNames DEF DumpSteps, Steps, SubOK
    <3> QED BY <2>1, <2>2, <3>1, <3>2, <3>3 DEF SubOK
  <2> QED BY <2>4, <2>5, OutNames
<1> QED BY <1>4, <1>5, <1>6 DEF Control

LEMMA StartLineControl ==
  ASSUME OutTypes, Control, NEW m \in MakeProcs, NEW j \in RecipesOf(m), recipe' = recipe,
         \/ doing[m].at = "idle" /\ recipe[j].at = "new"
         \/ doing[m].at = "next" /\ doing[m].job = j,
         NEW a \in {"echo", "lock"}, doing' = [doing EXCEPT ![m] = [at |-> a, job |-> j, then |-> "echo"]]
  PROVE  Control' /\ ~LineBegun(j) /\ \A i \in OutJobs : LineBegun(i)' <=> LineBegun(i)
<1>1. j \in OutJobs /\ OwnerOf(j) = m
  BY OutNames
<1>2. /\ doing'[m].at = a /\ doing'[m].job = j /\ doing'[m].then = "echo"
      /\ \A n \in MakeProcs : n # m => doing'[n] = doing[n]
  BY DEF OutTypes
<1>3. /\ StageOK(m) /\ SubOK /\ \A n \in MakeProcs : StageOK(n)
  BY DEF Control
<1>4. recipe[j].at \in {"new", "ended"} /\ ~LineBegun(j)
  BY <1>1, <1>3 DEF StageOK, Working, LineBegun, Pending
<1>5. \A i \in OutJobs : LineBegun(i)' <=> LineBegun(i)
  <2>1. ASSUME NEW i \in OutJobs, OwnerOf(i) # m PROVE LineBegun(i)' <=> LineBegun(i)
    BY <1>2, <2>1, OutNames DEF LineBegun, Pending
  <2>2. ASSUME NEW i \in OutJobs, OwnerOf(i) = m, i # j PROVE LineBegun(i)' <=> LineBegun(i)
    <3>1. doing[m].then = "idle" \/ doing[m].job = j
      BY <1>3 DEF StageOK, Working
    <3> QED BY <1>2, <2>2, <3>1 DEF LineBegun, Pending
  <2>3. ~LineBegun(j)'
    BY <1>1, <1>2 DEF LineBegun, Pending
  <2> QED BY <1>1, <1>4, <2>1, <2>2, <2>3
<1>6. StageOK(m)'
  BY <1>1, <1>2, <1>4 DEF StageOK, Working
<1>7. ASSUME NEW n \in MakeProcs, n # m PROVE StageOK(n)'
  BY <1>2, <1>3, <1>7 DEF StageOK, Working
<1>8. SubOK'
  <2>1. (IsRecursive(RecursiveJob) /\ LineBegun(RecursiveJob))'
           <=> (IsRecursive(RecursiveJob) /\ LineBegun(RecursiveJob))
    BY <1>5, OutNames DEF IsRecursive
  <2>2. \A n \in {"top", "sub"} :
           /\ doing'[n].at = doing[n].at \/ (n = m /\ doing'[n].at = a)
           /\ n = m => doing[n].at \in {"idle", "next"}
    BY <1>2, OutNames
  <2> QED BY <1>3, <2>1, <2>2 DEF SubOK
<1> QED BY <1>3, <1>4, <1>5, <1>6, <1>7, <1>8 DEF Control

\* Make m has started the line that job j is at.
Started(m, j) ==
    /\ j \in OutJobs /\ OwnerOf(j) = m /\ recipe[j].at \in {"new", "ended"}
    /\ ~LineBegun(j) /\ LineBegun(j)' /\ recipe'[j].at = "run" /\ recipe'[j].line = recipe[j].line
    /\ \A i \in OutJobs : i # j => recipe'[i] = recipe[i] /\ (LineBegun(i)' <=> LineBegun(i))
    /\ doing'[m].at = "idle" /\ doing'[m].then = "idle"
    /\ \A n \in MakeProcs : n # m => /\ doing'[n].at \in {doing[n].at, "start"}
                                     /\ doing'[n].then = doing[n].then
                                     /\ doing'[n].job = doing[n].job
    /\ \A n \in MakeProcs : n # m /\ doing'[n].at = "start" /\ doing[n].at # "start" =>
          doing[n].at = "none"
    /\ IsRecursive(j) => doing["sub"].at = "none"

LEMMA StartControl ==
  ASSUME OutTypes, Control, NEW m \in MakeProcs, doing[m].at = "echo", NEW j, j = doing[m].job,
         NEW set, NEW sync, NEW again, StartCommand(m, j, set, sync, again)
  PROVE  Control' /\ Started(m, j)
<1>1. /\ StageOK(m) /\ SubOK /\ \A n \in MakeProcs : StageOK(n)
  BY DEF Control
<1>2. j \in OutJobs /\ OwnerOf(j) = m /\ recipe[j].at \in {"new", "ended"} /\ ~LineBegun(j)
      /\ doing[m].then = "echo"
  BY <1>1, OutFacts DEF StageOK, Working, LineBegun, Pending
<1>3. recipe \in [OutJobs -> Recipes] /\ doing \in [MakeProcs -> Doings]
  BY DEF OutTypes
<1>4. recipe'[j].at = "run" /\ recipe'[j].line = recipe[j].line
      /\ \A i \in OutJobs : i # j => recipe'[i] = recipe[i]
  BY <1>2, <1>3 DEF StartCommand, Recipes
<1>5. doing' = [doing EXCEPT ![m] = IdleMake,
                   !["sub"] = IF IsRecursive(j) THEN [@ EXCEPT !.at = "start"]
                              ELSE IF m = "sub" THEN IdleMake ELSE @]
  BY DEF StartCommand
<1>6. IdleMake.at = "idle" /\ IdleMake.job = RecursiveJob /\ IdleMake.then = "idle"
  BY DEF IdleMake
<1>7. IsRecursive(j) => m = "top" /\ j = RecursiveJob /\ doing["sub"].at = "none"
  BY <1>1, <1>2, OutNames DEF IsRecursive, SubOK
<1>8. doing'[m] = IdleMake
  BY <1>3, <1>5, <1>7, OutNames
<1>9. ASSUME NEW n \in MakeProcs, n # m
      PROVE  /\ doing'[n].then = doing[n].then /\ doing'[n].job = doing[n].job
             /\ IF IsRecursive(j) THEN n = "sub" /\ doing'[n].at = "start"
                ELSE doing'[n] = doing[n]
  <2>1. CASE IsRecursive(j)
    <3>1. n = "sub" /\ m = "top"
      BY <1>7, <1>9, <2>1, OutNames
    <3>2. doing'["sub"] = [doing["sub"] EXCEPT !.at = "start"] /\ doing["sub"] \in Doings
      BY <1>3, <1>5, <2>1, <3>1, OutNames
    <3> QED BY <2>1, <3>1, <3>2 DEF Doings
  <2>2. CASE ~IsRecursive(j)
    <3>1. doing'[n] = doing[n]
      BY <1>3, <1>5, <1>9, <2>2, OutNames
    <3> QED BY <2>2, <3>1
  <2> QED BY <2>1, <2>2
<1>10. LineBegun(j)'
  BY <1>2, <1>4, <1>6, <1>8 DEF LineBegun, Pending
<1>11. ASSUME NEW i \in OutJobs, i # j PROVE LineBegun(i)' <=> LineBegun(i)
  <2>1. CASE OwnerOf(i) = m
    BY <1>2, <1>4, <1>6, <1>8, <1>11, <2>1 DEF LineBegun, Pending
  <2>2. CASE OwnerOf(i) # m
    <3>1. OwnerOf(i) \in MakeProcs
      BY OutNames
    <3>2. doing'[OwnerOf(i)].then = doing[OwnerOf(i)].then /\ doing'[OwnerOf(i)].job = doing[OwnerOf(i)].job
      BY <1>9, <2>2, <3>1
    <3> QED BY <1>4, <1>11, <3>2 DEF LineBegun, Pending
  <2> QED BY <2>1, <2>2
<1>12. StageOK(m)'
  BY <1>6, <1>8 DEF StageOK, Working
<1>13. ASSUME NEW n \in MakeProcs, n # m PROVE StageOK(n)'
  <2>1. CASE IsRecursive(j)
    <3>1. doing'[n].at = "start" /\ doing'[n].then = doing[n].then /\ n = "sub"
      BY <1>9, <1>13, <2>1
    <3>2. doing[n].then = "idle"
      BY <1>1, <1>7, <2>1, <3>1 DEF StageOK, Working
    <3> QED BY <3>1, <3>2 DEF StageOK, Working
  <2>2. CASE ~IsRecursive(j)
    <3>1. doing'[n] = doing[n] /\ StageOK(n)
      BY <1>1, <1>9, <1>13, <2>2
    <3>2. Working(n) => doing[n].job # j
      BY <1>2, <1>13, <3>1 DEF StageOK
    <3>3. doing[n].job \in OutJobs
      BY OutFacts
    <3>4. ~Working(n) => doing[n].then = "idle"
      BY <3>1 DEF StageOK
    <3> QED BY <1>4, <3>1, <3>2, <3>3, <3>4 DEF StageOK, Working
  <2> QED BY <2>1, <2>2
<1>14. SubOK'
  <2>1. IsRecursive(RecursiveJob)' <=> IsRecursive(RecursiveJob)
    BY <1>4, OutNames DEF IsRecursive
  <2>2. CASE IsRecursive(j)
    <3>1. /\ m = "top" /\ j = RecursiveJob /\ doing["sub"].at = "none" /\ doing'["sub"].at = "start"
          /\ doing'["top"].at = "idle" /\ IsRecursive(RecursiveJob)
      BY <1>6, <1>7, <1>8, <1>9, <2>2, OutNames
    <3>2. \A i \in SubJobs : recipe[i].at = "new" /\ recipe'[i] = recipe[i]
      BY <1>1, <1>4, <3>1, OutNames DEF SubOK
    <3>3. \A i \in OutJobs : recipe'[i].at = "new" => recipe'[i].line = 1
      BY <1>1, <1>4 DEF SubOK
    <3> QED BY <1>4, <1>10, <2>1, <3>1, <3>2, <3>3 DEF SubOK
  <2>3. CASE ~IsRecursive(j)
    <3>1. (IsRecursive(RecursiveJob) /\ LineBegun(RecursiveJob))'
            <=> (IsRecursive(RecursiveJob) /\ LineBegun(RecursiveJob))
      BY <1>11, <2>1, <2>3, OutNames
    <3>2. \A i \in OutJobs : recipe'[i].at = "new" => recipe[i].at = "new" /\ recipe'[i] = recipe[i]
      BY <1>4
    <3>3. CASE m = "sub"
      <4>1. doing'["top"] = doing["top"] /\ doing'["sub"].at = "idle" /\ j # RecursiveJob /\ j \in SubJobs
        BY <1>2, <1>6, <1>8, <1>9, <2>3, <3>3, OutNames
      <4>2. \A i \in OutJobs \ SubJobs : recipe'[i] = recipe[i]
        BY <1>4, <4>1
      <4> QED BY <1>1, <1>4, <3>1, <3>2, <3>3, <4>1, <4>2, OutNames DEF SubOK
    <3>4. CASE m = "top"
      <4>1. doing'["sub"] = doing["sub"] /\ doing'["top"].at = "idle" /\ j \notin SubJobs
        BY <1>2, <1>6, <1>8, <1>9, <2>3, <3>4, OutNames
      <4>2. \A i \in SubJobs : recipe'[i] = recipe[i]
        BY <1>4, <4>1, OutNames
      <4>3. recipe'[RecursiveJob].at \in {recipe[RecursiveJob].at, "run"}
        BY <1>4, OutNames
      <4> QED BY <1>1, <3>1, <3>2, <4>1, <4>2, <4>3 DEF SubOK
    <3> QED BY <3>3, <3>4, OutNames
  <2> QED BY <2>2, <2>3
<1>15. Control'
  BY <1>12, <1>13, <1>14 DEF Control
<1>16. ASSUME NEW n \in MakeProcs, n # m
       PROVE  /\ doing'[n].at \in {doing[n].at, "start"}
              /\ doing'[n].at = "start" /\ doing[n].at # "start" => doing[n].at = "none"
  BY <1>7, <1>9, <1>16
<1> QED BY <1>2, <1>4, <1>6, <1>7, <1>8, <1>9, <1>10, <1>11, <1>15, <1>16 DEF Started

LEMMA EndedControl ==
  ASSUME OutTypes, Control, NEW j \in OutJobs, recipe[j].at = "run", doing' = doing,
         recipe' = [recipe EXCEPT ![j].at = "ended"], ~IsRecursive(j) \/ doing["sub"].at = "exit"
  PROVE  /\ Control' /\ LineBegun(j) /\ recipe'[j].at = "ended" /\ recipe'[j].line = recipe[j].line
         /\ \A i \in OutJobs : LineBegun(i)' <=> LineBegun(i)
         /\ \A i \in OutJobs : i # j => recipe'[i] = recipe[i]
<1>1. /\ SubOK /\ \A n \in MakeProcs : StageOK(n)
  BY DEF Control
<1>2. recipe'[j].at = "ended" /\ recipe'[j].line = recipe[j].line
      /\ \A i \in OutJobs : i # j => recipe'[i] = recipe[i]
  BY DEF OutTypes, Recipes
<1>3. ~Pending(j) /\ LineBegun(j)
  <2>1. StageOK(OwnerOf(j))
    BY <1>1, OutNames
  <2> QED BY <2>1 DEF StageOK, Pending, LineBegun
<1>4. \A i \in OutJobs : LineBegun(i)' <=> LineBegun(i)
  BY <1>2 DEF LineBegun, Pending
<1>5. ASSUME NEW n \in MakeProcs PROVE StageOK(n)'
  <2>1. StageOK(n) /\ doing[n].job \in OutJobs
    BY <1>1, OutFacts
  <2>2. doing[n].job = j => ~Working(n)
    <3>1. doing[n].then \in {"idle", "next", "echo"}
      BY OutFacts DEF Steps
    <3> QED BY <2>1, <3>1 DEF StageOK
  <2> QED BY <1>2, <2>1, <2>2 DEF StageOK, Working
<1>6. SubOK'
  <2>1. (IsRecursive(RecursiveJob) /\ LineBegun(RecursiveJob))'
          <=> (IsRecursive(RecursiveJob) /\ LineBegun(RecursiveJob))
    BY <1>2, <1>4, OutNames DEF IsRecursive
  <2>2. \A i \in OutJobs : /\ recipe'[i].at = "new" <=> recipe[i].at = "new"
                           /\ recipe'[i].at = "done" <=> recipe[i].at = "done"
                           /\ recipe'[i].line = recipe[i].line
    BY <1>2
  <2>3. doing["sub"].at \notin {"none", "exit"} => recipe'[RecursiveJob].at = "run"
    <3>1. CASE j = RecursiveJob
      BY <1>1, <3>1 DEF SubOK, IsRecursive
    <3>2. CASE j # RecursiveJob
      BY <1>1, <1>2, <3>2, OutNames DEF SubOK
    <3> QED BY <3>1, <3>2
  <2> QED BY <1>1, <2>1, <2>2, <2>3, OutNames DEF SubOK
<1> QED BY <1>2, <1>3, <1>4, <1>5, <1>6 DEF Control

\* Make m turns to job j; the next line of j is due, or j is done.
TurnsTo(m, j, a, then) == doing' = [doing EXCEPT ![m] = [at |-> a, job |-> j, then |-> then]]
NextLine(j) == LinesLeft(j) /\ recipe' = [recipe EXCEPT ![j].line = @ + 1]
LastLine(j) == ~LinesLeft(j) /\ recipe' = [recipe EXCEPT ![j].at = "done"]

LEMMA ReapControl ==
  ASSUME OutTypes, Control, NEW m \in MakeProcs, doing[m].at = "idle", NEW j \in RecipesOf(m),
         recipe[j].at = "ended", NEW a \in {"lock", "next", "idle"}, NEW then, TurnsTo(m, j, a, then),
         \/ NextLine(j) /\ then = "next" /\ a \in {"lock", "next"}
         \/ LastLine(j) /\ then = "idle" /\ a \in {"lock", "idle"}
  PROVE  /\ Control' /\ j \in OutJobs /\ OwnerOf(j) = m /\ LineBegun(j)
         /\ \A i \in OutJobs : i # j => recipe'[i] = recipe[i] /\ (LineBegun(i)' <=> LineBegun(i))
         /\ doing'[m].at = a /\ doing'[m].job = j /\ doing'[m].then = then
         /\ \A n \in MakeProcs : n # m => doing'[n] = doing[n]
         /\ \/ /\ recipe'[j].at = "ended" /\ recipe'[j].line = recipe[j].line + 1 /\ ~LineBegun(j)'
               /\ recipe[j].line < LinesOf[j] /\ then = "next"
            \/ /\ recipe'[j].at = "done" /\ recipe'[j].line = recipe[j].line /\ LineBegun(j)'
               /\ recipe[j].line = LinesOf[j] /\ then = "idle"
<1>1. /\ SubOK /\ StageOK(m) /\ \A n \in MakeProcs : StageOK(n)
  BY DEF Control
<1>2. j \in OutJobs /\ OwnerOf(j) = m
  BY OutNames
<1>3. /\ doing'[m].at = a /\ doing'[m].job = j /\ doing'[m].then = then
      /\ \A n \in MakeProcs : n # m => doing'[n] = doing[n]
  BY DEF OutTypes, TurnsTo
<1>4. recipe[j].line \in Nat /\ LinesOf[j] \in Nat /\ recipe[j].line <= LinesOf[j]
  BY <1>2, OutFacts, OutNames
<1>5. doing[m].then = "idle" /\ LineBegun(j)
  BY <1>1, <1>2 DEF StageOK, Working, LineBegun, Pending
<1>6. \A i \in OutJobs : i # j => recipe'[i] = recipe[i]
  BY DEF OutTypes, NextLine, LastLine
<1>7. \A i \in OutJobs : i # j => (LineBegun(i)' <=> LineBegun(i))
  <2> SUFFICES ASSUME NEW i \in OutJobs, i # j PROVE LineBegun(i)' <=> LineBegun(i)
    OBVIOUS
  <2>1. CASE OwnerOf(i) = m
    BY <1>3, <1>5, <1>6, <2>1 DEF LineBegun, Pending
  <2>2. CASE OwnerOf(i) # m
    BY <1>3, <1>6, <2>2, OutNames DEF LineBegun, Pending
  <2> QED BY <2>1, <2>2
<1>8. \/ /\ recipe'[j].at = "ended" /\ recipe'[j].line = recipe[j].line + 1 /\ ~LineBegun(j)'
         /\ recipe[j].line < LinesOf[j] /\ then = "next"
      \/ /\ recipe'[j].at = "done" /\ recipe'[j].line = recipe[j].line /\ LineBegun(j)'
         /\ recipe[j].line = LinesOf[j] /\ then = "idle"
  <2>1. recipe \in [OutJobs -> Recipes]
    BY DEF OutTypes
  <2>2. CASE LinesLeft(j)
    <3>1. recipe'[j].at = "ended" /\ recipe'[j].line = recipe[j].line + 1 /\ then = "next"
      BY <1>2, <2>1, <2>2 DEF Recipes, NextLine, LastLine
    <3> QED BY <1>2, <1>3, <2>2, <3>1 DEF LineBegun, Pending, LinesLeft
  <2>3. CASE ~LinesLeft(j)
    <3>1. recipe'[j].at = "done" /\ recipe'[j].line = recipe[j].line /\ then = "idle"
      BY <1>2, <2>1, <2>3 DEF Recipes, NextLine, LastLine
    <3>2. recipe[j].line = LinesOf[j]
      BY <1>4, <2>3 DEF LinesLeft
    <3> QED BY <1>2, <1>3, <3>1, <3>2 DEF LineBegun, Pending
  <2> QED BY <2>2, <2>3
<1>9. StageOK(m)'
  <2>1. a = "lock" \/ a = then
    OBVIOUS
  <2> QED BY <1>2, <1>3, <1>8, <2>1 DEF StageOK, Working
<1>10. ASSUME NEW n \in MakeProcs, n # m PROVE StageOK(n)'
  <2>1. doing'[n] = doing[n] /\ StageOK(n) /\ doing[n].job \in OutJobs
    BY <1>1, <1>3, <1>10, OutFacts
  <2>2. Working(n) => doing[n].job # j
    BY <1>2, <1>10, <2>1 DEF StageOK
  <2>3. ~Working(n) => doing[n].then = "idle"
    BY <2>1 DEF StageOK
  <2> QED BY <1>6, <2>1, <2>2, <2>3 DEF StageOK, Working
<1>11. SubOK'
  <2>1. (IsRecursive(RecursiveJob) /\ LineBegun(RecursiveJob))'
          <=> (IsRecursive(RecursiveJob) /\ LineBegun(RecursiveJob))
    <3>1. CASE j = RecursiveJob
      <4>1. IsRecursive(RecursiveJob)' <=> recipe'[j].line = LinesOf[j]
        BY <3>1 DEF IsRecursive
      <4>2. IsRecursive(RecursiveJob) <=> recipe[j].line = LinesOf[j]
        BY <3>1 DEF IsRecursive
      <4> QED BY <1>4, <1>5, <1>8, <3>1, <4>1, <4>2
    <3>2. CASE j # RecursiveJob
      BY <1>6, <1>7, <3>2, OutNames DEF IsRecursive
    <3> QED BY <3>1, <3>2
  <2>2. \A i \in OutJobs : recipe'[i].at = "new" => recipe'[i].line = 1
    BY <1>1, <1>6, <1>8 DEF SubOK
  <2>3. doing["sub"].at \notin {"none", "exit"} => recipe'[RecursiveJob].at = "run"
    <3>1. doing["sub"].at \notin {"none", "exit"} => j # RecursiveJob
      BY <1>1 DEF SubOK
    <3> QED BY <1>1, <1>6, <3>1, OutNames DEF SubOK
  <2>4. CASE m = "top"
    <3>1. doing'["sub"] = doing["sub"] /\ \A i \in SubJobs : recipe'[i] = recipe[i]
      BY <1>2, <1>3, <1>6, <2>4, OutNames
    <3>2. doing'["top"].at \in {"lock", "next", "idle"}
      BY <1>3, <2>4
    <3> QED BY <1>1, <2>1, <2>2, <2>3, <3>1, <3>2 DEF SubOK
  <2>5. CASE m = "sub"
    <3>1. doing'["top"] = doing["top"] /\ \A i \in OutJobs \ SubJobs : recipe'[i] = recipe[i]
      BY <1>2, <1>3, <1>6, <2>5, OutNames
    <3>2. doing'["sub"].at \in {"lock", "next", "idle"} /\ doing["sub"].at = "idle"
      BY <1>3, <2>5
    <3> QED BY <1>1, <2>1, <2>2, <2>3, <3>1, <3>2 DEF SubOK
  <2> QED BY <2>4, <2>5, OutNames
<1> QED BY <1>2, <1>3, <1>5, <1>6, <1>7, <1>8, <1>9, <1>10, <1>11 DEF Control

----------------------------------------------------------------------------
\* The order of what is shown and kept.
LEMMA PrecedesAppended ==
  ASSUME NEW s \in Seq(Texts), NEW t \in Texts, NEW q
  PROVE  /\ Precedes(s, q) /\ (\A u \in Texts : In(u, q) /\ SameWriter(t, u) => Earlier(t, u))
            => Precedes(Append(s, t), q)
         /\ Precedes(q, s) /\ (\A u \in Texts : In(u, q) /\ SameWriter(u, t) => Earlier(u, t))
            => Precedes(q, Append(s, t))
BY InAppended DEF Precedes

LEMMA PrecedesTail ==
  ASSUME NEW s \in Seq(Texts), s # << >>, NEW q
  PROVE  /\ Precedes(s, q) => Precedes(Tail(s), q)
         /\ Precedes(q, s) => Precedes(q, Tail(s))
BY InTail DEF Precedes

\* The file of job k becomes s.
Becomes(file, k, s, new) ==
    /\ new \in [OutJobs -> Seq(Texts)] /\ new[k] = s
    /\ \A j \in OutJobs : j # k => new[j] = file[j]

\* One text is added at the end of what is shown, or of one file.
LEMMA ShownOrdered ==
  ASSUME NEW shown \in Seq(Texts), NEW file \in [OutJobs -> Seq(Texts)], NEW t \in Texts,
         Ordered(shown, file),
         \A u \in Texts : In(u, shown) /\ SameWriter(u, t) => Earlier(u, t),
         \A k \in OutJobs : \A u \in Texts : In(u, file[k]) /\ SameWriter(t, u) => Earlier(t, u)
  PROVE  /\ Ordered(Append(shown, t), file)
         /\ \A u : Somewhere(u, Append(shown, t), file) <=> Somewhere(u, shown, file) \/ u = t
<1>1. Sorted(Append(shown, t))
  BY SortedAppended DEF Ordered
<1>2. \A j \in OutJobs : Precedes(Append(shown, t), file[j])
  BY PrecedesAppended DEF Ordered
<1>3. \A u : Somewhere(u, Append(shown, t), file) <=> Somewhere(u, shown, file) \/ u = t
  BY InAppended DEF Somewhere
<1> QED BY <1>1, <1>2, <1>3 DEF Ordered

LEMMA KeptOrdered ==
  ASSUME NEW shown \in Seq(Texts), NEW file \in [OutJobs -> Seq(Texts)], NEW t \in Texts,
         NEW k \in OutJobs, Ordered(shown, file),
         \A u \in Texts : (In(u, shown) \/ In(u, file[k]) \/ (k # RecursiveJob /\ In(u, file[RecursiveJob])))
                             /\ SameWriter(u, t) => Earlier(u, t),
         k = RecursiveJob => \A j \in OutJobs : j # k =>
                \A u \in Texts : In(u, file[j]) /\ SameWriter(t, u) => Earlier(t, u),
         NEW longer, Becomes(file, k, Append(file[k], t), longer)
  PROVE  /\ Ordered(shown, longer)
         /\ \A u : Somewhere(u, shown, longer) <=> Somewhere(u, shown, file) \/ u = t
<1>1. file[k] \in Seq(Texts) /\ Append(file[k], t) \in Seq(Texts)
  BY Appended
<1>2. longer \in [OutJobs -> Seq(Texts)] /\ longer[k] = Append(file[k], t)
      /\ \A j \in OutJobs : j # k => longer[j] = file[j]
  BY <1>1 DEF Becomes
<1>3. Sorted(longer[k]) /\ Precedes(shown, longer[k])
  <2>1. Sorted(file[k]) /\ Precedes(shown, file[k])
    BY DEF Ordered
  <2>2. Sorted(Append(file[k], t))
    BY <1>1, <2>1, SortedAppended
  <2>3. Precedes(shown, Append(file[k], t))
    BY <1>1, <2>1, PrecedesAppended
  <2> QED BY <1>2, <2>2, <2>3
<1>4. ASSUME NEW j \in OutJobs, j # RecursiveJob PROVE Precedes(longer[RecursiveJob], longer[j])
  <2>1. Precedes(file[RecursiveJob], file[j])
    BY <1>4 DEF Ordered
  <2>2. CASE j = k
    <3>1. Precedes(file[RecursiveJob], Append(file[k], t))
      BY <1>1, <1>4, <2>1, <2>2, PrecedesAppended
    <3> QED BY <1>2, <1>4, <2>2, <3>1, OutNames
  <2>3. CASE j # k /\ k = RecursiveJob
    <3>1. Precedes(Append(file[k], t), file[j])
      BY <1>1, <2>1, <2>3, PrecedesAppended
    <3> QED BY <1>2, <2>3, <3>1
  <2>4. CASE j # k /\ k # RecursiveJob
    BY <1>2, <2>1, <2>4, OutNames
  <2> QED BY <2>2, <2>3, <2>4
<1>5. ASSUME NEW u PROVE Somewhere(u, shown, longer) <=> Somewhere(u, shown, file) \/ u = t
  <2>1. In(u, longer[k]) <=> In(u, file[k]) \/ u = t
    BY <1>1, <1>2, InAppended
  <2> QED BY <1>2, <2>1 DEF Somewhere
<1>6. ASSUME NEW j \in OutJobs PROVE Sorted(longer[j]) /\ Precedes(shown, longer[j])
  BY <1>2, <1>3, <1>6 DEF Ordered
<1> QED BY <1>2, <1>4, <1>5, <1>6 DEF Ordered

\* The first text of a file is taken out.
LEMMA RestOrdered ==
  ASSUME NEW shown \in Seq(Texts), NEW file \in [OutJobs -> Seq(Texts)], Ordered(shown, file),
         NEW j \in OutJobs, file[j] # << >>, NEW rest, Becomes(file, j, Tail(file[j]), rest)
  PROVE  /\ Ordered(shown, rest)
         /\ \A u : Somewhere(u, shown, file) <=> Somewhere(u, shown, rest) \/ u = Head(file[j])
<1>1. file[j] \in Seq(Texts) /\ Tail(file[j]) \in Seq(Texts)
  BY InTail
<1>2. /\ rest \in [OutJobs -> Seq(Texts)] /\ rest[j] = Tail(file[j])
      /\ \A k \in OutJobs : k # j => rest[k] = file[k]
  BY <1>1 DEF Becomes
<1>3. ASSUME NEW k \in OutJobs PROVE Sorted(rest[k]) /\ Precedes(shown, rest[k])
  <2>1. Sorted(file[k]) /\ Precedes(shown, file[k])
    BY DEF Ordered
  <2>2. k = j => Sorted(Tail(file[j])) /\ Precedes(shown, Tail(file[j]))
    BY <1>1, <2>1, SortedTail, PrecedesTail
  <2> QED BY <1>2, <2>1, <2>2
<1>4. ASSUME NEW k \in OutJobs, k # RecursiveJob PROVE Precedes(rest[RecursiveJob], rest[k])
  <2>1. Precedes(file[RecursiveJob], file[k])
    BY <1>4 DEF Ordered
  <2>2. CASE k = j
    <3>1. Precedes(file[RecursiveJob], Tail(file[j]))
      BY <1>1, <2>1, <2>2, PrecedesTail
    <3> QED BY <1>2, <1>4, <2>2, <3>1, OutNames
  <2>3. CASE RecursiveJob = j
    <3>1. Precedes(Tail(file[j]), file[k])
      BY <1>1, <2>1, <2>3, PrecedesTail
    <3> QED BY <1>2, <1>4, <2>3, <3>1
  <2> QED BY <1>2, <2>1, <2>2, <2>3, OutNames
<1>5. ASSUME NEW u
      PROVE  Somewhere(u, shown, file) <=> Somewhere(u, shown, rest) \/ u = Head(file[j])
  <2>1. In(u, file[j]) <=> u = Head(file[j]) \/ In(u, rest[j])
    BY <1>1, <1>2, InTail
  <2> QED BY <1>2, <2>1 DEF Somewhere
<1> QED BY <1>2, <1>3, <1>4, <1>5 DEF Ordered

\* No text of a job is at two places.
LEMMA OnePlace ==
  ASSUME OutTypes, FilesOK, OrderOK, NEW t \in Texts, t.job # "directory"
  PROVE  /\ \A i, k \in DOMAIN screen : screen[i] = t /\ screen[k] = t => i = k
         /\ \A j \in OutJobs : \A i, k \in DOMAIN tmp[j] : tmp[j][i] = t /\ tmp[j][k] = t => i = k
         /\ \A j \in OutJobs : ~(In(t, screen) /\ In(t, tmp[j]))
         /\ \A j, k \in OutJobs : In(t, tmp[j]) /\ In(t, tmp[k]) => j = k
<1>1. ~Earlier(t, t) /\ SameWriter(t, t)
  <2>1. t.line \in Nat
    BY DEF Texts
  <2> QED BY <2>1 DEF Earlier, SameWriter
<1>2. ASSUME NEW s \in Seq(Texts), Sorted(s), NEW i \in DOMAIN s, NEW k \in DOMAIN s, s[i] = t, s[k] = t
      PROVE  i = k
  <2>1. i \in Nat /\ k \in Nat
    BY <1>2
  <2>2. ~(i < k) /\ ~(k < i)
    BY <1>1, <1>2 DEF Sorted
  <2> QED BY <2>1, <2>2
<1>3. \A j \in OutJobs : ~(In(t, screen) /\ In(t, tmp[j]))
  BY <1>1 DEF OrderOK, Ordered, Precedes
<1>4. ASSUME NEW j \in OutJobs, NEW k \in OutJobs, In(t, tmp[j]), In(t, tmp[k]), j # k PROVE FALSE
  <2>1. Holds(j, t) /\ Holds(k, t)
    BY <1>4 DEF FilesOK, FileOK
  <2>2. ASSUME NEW l \in OutJobs, l # RecursiveJob PROVE ~(In(t, tmp[RecursiveJob]) /\ In(t, tmp[l]))
    BY <1>1, <2>2 DEF OrderOK, Ordered, Precedes
  <2> QED BY <1>4, <2>1, <2>2 DEF Holds
<1>5. \A i, k \in DOMAIN screen : screen[i] = t /\ screen[k] = t => i = k
  <2>1. screen \in Seq(Texts) /\ Sorted(screen)
    BY DEF OrderOK, Ordered, OutTypes
  <2> QED BY <1>2, <2>1
<1>6. \A j \in OutJobs : \A i, k \in DOMAIN tmp[j] : tmp[j][i] = t /\ tmp[j][k] = t => i = k
  <2>1. \A j \in OutJobs : tmp[j] \in Seq(Texts) /\ Sorted(tmp[j])
    BY DEF OrderOK, Ordered, OutTypes
  <2> QED BY <1>2, <2>1
<1> QED BY <1>3, <1>4, <1>5, <1>6

LEMMA DirOrdered ==
  ASSUME NEW shown \in Seq(Texts), NEW file \in [OutJobs -> Seq(Texts)], Ordered(shown, file),
         NEW e, NEW d \in Texts, d.job = "directory", e = << >> \/ e = <<d>>,
         NEW longer, Becomes(file, RecursiveJob, file[RecursiveJob] \o e, longer)
  PROVE  /\ shown \o e \in Seq(Texts)
         /\ Ordered(shown \o e, file) /\ Ordered(shown, longer)
         /\ \A u : u.job # "directory" =>
               /\ Somewhere(u, shown \o e, file) <=> Somewhere(u, shown, file)
               /\ Somewhere(u, shown, longer) <=> Somewhere(u, shown, file)
<1>1. RecursiveJob \in OutJobs /\ file[RecursiveJob] \in Seq(Texts)
  BY OutNames
<1>2. CASE e = << >>
  <2>1. shown \o e = shown /\ file[RecursiveJob] \o e = file[RecursiveJob]
    BY <1>1, <1>2
  <2>2. longer = file
    BY <2>1 DEF Becomes
  <2> QED BY <2>1, <2>2
<1>3. CASE e = <<d>>
  <2>1. shown \o e = Append(shown, d) /\ file[RecursiveJob] \o e = Append(file[RecursiveJob], d)
    BY <1>1, <1>3, AppendJoined
  <2>2. Becomes(file, RecursiveJob, Append(file[RecursiveJob], d), longer)
    BY <2>1
  <2>3. \A u : ~SameWriter(u, d) /\ ~SameWriter(d, u)
    BY DEF SameWriter
  <2>4. /\ Ordered(Append(shown, d), file)
        /\ \A u : Somewhere(u, Append(shown, d), file) <=> Somewhere(u, shown, file) \/ u = d
    BY <2>3, ShownOrdered
  <2>5. /\ Ordered(shown, longer)
        /\ \A u : Somewhere(u, shown, longer) <=> Somewhere(u, shown, file) \/ u = d
    BY <1>1, <2>2, <2>3, KeptOrdered
  <2>6. Append(shown, d) \in Seq(Texts)
    BY Appended
  <2> QED BY <2>1, <2>4, <2>5, <2>6
<1> QED BY <1>2, <1>3

\* Every file holds what it may, and t is later than all texts of its job.
HeldRight(file) == \A k \in OutJobs : \A u \in Texts : In(u, file[k]) => Holds(k, u)
Newest(t, shown, file) == \A u \in Texts : SameWriter(u, t) /\ Somewhere(u, shown, file) => Earlier(u, t)

\* A new text of job j goes to the file of j, to that of the recursive job or
\* to the screen.
LEMMA NewKept ==
  ASSUME NEW shown \in Seq(Texts), NEW file \in [OutJobs -> Seq(Texts)], Ordered(shown, file),
         HeldRight(file), NEW t \in Texts, NEW j \in OutJobs, t.job = j, Newest(t, shown, file),
         NEW k \in OutJobs, k = j \/ (k = RecursiveJob /\ file[j] = << >>),
         NEW longer, Becomes(file, k, Append(file[k], t), longer)
  PROVE  /\ Ordered(shown, longer)
         /\ \A u : Somewhere(u, shown, longer) <=> Somewhere(u, shown, file) \/ u = t
<1>1. ASSUME NEW i \in OutJobs, NEW u \in Texts, In(u, file[i]), SameWriter(t, u)
      PROVE  i = j \/ (i = RecursiveJob /\ j \in SubJobs)
  BY <1>1, OutNames DEF HeldRight, Holds, SameWriter
<1>2. \A u : ~In(u, << >>)
  BY DEF In
<1>3. \A u \in Texts : (In(u, shown) \/ In(u, file[k]) \/ (k # RecursiveJob /\ In(u, file[RecursiveJob])))
                           /\ SameWriter(u, t) => Earlier(u, t)
  BY OutNames DEF Newest, Somewhere
<1>4. k = RecursiveJob => \A i \in OutJobs : i # k =>
              \A u \in Texts : In(u, file[i]) /\ SameWriter(t, u) => Earlier(t, u)
  BY <1>1, <1>2
<1> QED BY <1>3, <1>4, KeptOrdered

LEMMA NewShown ==
  ASSUME NEW shown \in Seq(Texts), NEW file \in [OutJobs -> Seq(Texts)], Ordered(shown, file),
         HeldRight(file), NEW t \in Texts, NEW j \in OutJobs, t.job = j, Newest(t, shown, file),
         file[j] = << >>, j \in SubJobs => file[RecursiveJob] = << >>
  PROVE  /\ Ordered(Append(shown, t), file)
         /\ \A u : Somewhere(u, Append(shown, t), file) <=> Somewhere(u, shown, file) \/ u = t
<1>1. ASSUME NEW i \in OutJobs, NEW u \in Texts, In(u, file[i]), SameWriter(t, u)
      PROVE  i = j \/ (i = RecursiveJob /\ j \in SubJobs)
  BY <1>1, OutNames DEF HeldRight, Holds, SameWriter
<1>2. \A u : ~In(u, << >>)
  BY DEF In
<1>3. \A i \in OutJobs : \A u \in Texts : In(u, file[i]) /\ SameWriter(t, u) => Earlier(t, u)
  BY <1>1, <1>2
<1>4. \A u \in Texts : In(u, shown) /\ SameWriter(u, t) => Earlier(u, t)
  BY DEF Newest, Somewhere
<1> QED BY <1>3, <1>4, ShownOrdered

\* Where standard output of a make goes while it works.
LEMMA SubMakeWorks ==
  ASSUME OutTypes, Control, FilesOK, doing["sub"].at \notin {"none", "exit"}
  PROVE  /\ recipe[RecursiveJob].at = "run" /\ IsRecursive(RecursiveJob) /\ LineBegun(RecursiveJob)
         /\ ~ToParentTmp("sub") => tmp[RecursiveJob] = << >>
         /\ ~WorksFor("top", RecursiveJob)
<1>1. SubOK /\ StageOK("top")
  BY OutNames DEF Control
<1>2. recipe[RecursiveJob].at = "run" /\ IsRecursive(RecursiveJob) /\ LineBegun(RecursiveJob)
  BY <1>1 DEF SubOK
<1>3. FileOK(RecursiveJob)
  BY OutNames DEF FilesOK
<1>4. ~WorksFor("top", RecursiveJob)
  <2>1. doing["top"].then \in Steps
    BY OutFacts, OutNames
  <2> QED BY <1>1, <1>2, <2>1 DEF StageOK, WorksFor, Steps
<1> QED BY <1>2, <1>3, <1>4 DEF FileOK, ToParentTmp

LEMMA Works ==
  ASSUME OutTypes, Control
  PROVE  /\ \A m \in MakeProcs : Working(m) \/ doing[m].at \in {"idle", "start"} =>
               doing[m].at \notin {"none", "exit"}
         /\ \A j \in SubJobs : recipe[j].at \in {"run", "ended"} => doing["sub"].at \notin {"none", "start", "exit"}
<1>1. SubOK
  BY DEF Control
<1>2. \A m \in MakeProcs : Working(m) \/ doing[m].at \in {"idle", "start"} => doing[m].at \notin {"none", "exit"}
  BY DEF Working
<1>3. \A j \in SubJobs : recipe[j].at \in {"run", "ended"} => doing["sub"].at \notin {"none", "start", "exit"}
  BY <1>1 DEF SubOK
<1> QED BY <1>2, <1>3

LEMMA StdoutOrdered ==
  ASSUME OutTypes, OrderOK, NEW m \in MakeProcs, NEW e, NEW d \in Texts, d.job = "directory",
         e = << >> \/ e = <<d>>, WriteStdout(m, e)
  PROVE  OrderOK' /\ \A u : u.job # "directory" => (Somewhere(u, screen, tmp)' <=> Somewhere(u, screen, tmp))
<1>1. PICK scr, f : scr = screen /\ f = tmp
  OBVIOUS
<1>2. scr \in Seq(Texts) /\ f \in [OutJobs -> Seq(Texts)] /\ Ordered(scr, f) /\ RecursiveJob \in OutJobs
  BY <1>1, OutNames DEF OrderOK, OutTypes
<1>3. PICK longer : longer = [f EXCEPT ![RecursiveJob] = @ \o e]
  OBVIOUS
<1>4. << >> \in Seq(Texts) /\ <<d>> \in Seq(Texts)
  OBVIOUS
<1>5. Becomes(f, RecursiveJob, f[RecursiveJob] \o e, longer)
  <2>1. f[RecursiveJob] \o e \in Seq(Texts)
    BY <1>2, <1>4, AppendJoined
  <2> QED BY <1>2, <1>3, <2>1 DEF Becomes
<1>6. /\ Ordered(scr \o e, f) /\ Ordered(scr, longer)
      /\ \A u : u.job # "directory" =>
               /\ Somewhere(u, scr \o e, f) <=> Somewhere(u, scr, f)
               /\ Somewhere(u, scr, longer) <=> Somewhere(u, scr, f)
  BY <1>2, <1>5, DirOrdered
<1>7. \/ screen' = scr /\ tmp' = longer
      \/ screen' = scr \o e /\ tmp' = f
  BY <1>1, <1>3 DEF WriteStdout
<1>8. Ordered(screen', tmp')
      /\ \A u : u.job # "directory" => (Somewhere(u, screen', tmp') <=> Somewhere(u, screen, tmp))
  BY <1>1, <1>6, <1>7
<1> QED BY <1>8 DEF OrderOK

LEMMA TextOrdered ==
  ASSUME OutTypes, Control, FilesOK, OrderOK, NEW m \in MakeProcs, DumpText(m)
  PROVE  OrderOK' /\ \A u : Somewhere(u, screen, tmp)' <=> Somewhere(u, screen, tmp)
<1>1. screen \in Seq(Texts) /\ tmp \in [OutJobs -> Seq(Texts)] /\ Ordered(screen, tmp)
      /\ RecursiveJob \in OutJobs
  BY OutNames DEF OrderOK, OutTypes
<1>2. PICK j \in OutJobs : j = doing[m].job
  BY OutFacts
<1>3. Working(m) /\ OwnerOf(j) = m /\ tmp[j] # << >>
  BY <1>2, OutNames DEF DumpText, Working, Control, StageOK
<1>4. PICK t : t = Head(tmp[j])
  OBVIOUS
<1>a. PICK rest : rest = [tmp EXCEPT ![j] = Tail(@)]
  OBVIOUS
<1>5. rest = [tmp EXCEPT ![j] = Tail(@)] /\ Becomes(tmp, j, Tail(tmp[j]), rest)
  <2>1. Tail(tmp[j]) \in Seq(Texts)
    BY <1>1, <1>3, InTail
  <2> QED BY <1>1, <1>a, <2>1 DEF Becomes
<1>6. /\ rest \in [OutJobs -> Seq(Texts)] /\ rest[j] = Tail(tmp[j]) /\ Ordered(screen, rest)
      /\ \A k \in OutJobs : k # j => rest[k] = tmp[k]
      /\ \A u : Somewhere(u, screen, tmp) <=> Somewhere(u, screen, rest) \/ u = t
  <2>1. PICK scr, f : scr = screen /\ f = tmp
    OBVIOUS
  <2>2. /\ scr \in Seq(Texts) /\ f \in [OutJobs -> Seq(Texts)] /\ Ordered(scr, f) /\ f[j] # << >>
        /\ Becomes(f, j, Tail(f[j]), rest)
    BY <1>1, <1>3, <1>5, <2>1
  <2>3. /\ Ordered(scr, rest) 
        /\ \A u : Somewhere(u, scr, f) <=> Somewhere(u, scr, rest) \/ u = Head(f[j])
    BY <2>2, RestOrdered
  <2> QED BY <1>4, <1>5, <2>1, <2>3 DEF Becomes
<1>7. /\ t \in Texts /\ In(t, tmp[j])
      /\ \A u : In(u, rest[j]) /\ SameWriter(t, u) => Earlier(t, u)
      /\ \A u : In(u, rest[j]) => In(u, tmp[j])
  <2>1. tmp[j] \in Seq(Texts) /\ Sorted(tmp[j])
    BY <1>1 DEF Ordered
  <2> QED BY <1>3, <1>4, <1>6, <2>1, InTail, SortedTail
<1>8. \A u \in Texts : In(u, screen) /\ SameWriter(u, t) => Earlier(u, t)
  BY <1>1, <1>7 DEF Ordered, Precedes
<1>9. \A k \in OutJobs : \A u \in Texts : In(u, tmp[k]) => Holds(k, u)
  BY DEF FilesOK, FileOK
<1>10. CASE ToParentTmp(m)
  <2>1. m = "sub" /\ j \in SubJobs /\ j # RecursiveJob
    BY <1>3, <1>10, OutNames DEF ToParentTmp
  <2>a. PICK longer : longer = [rest EXCEPT ![RecursiveJob] = Append(@, t)]
    OBVIOUS
  <2>2. longer = [rest EXCEPT ![RecursiveJob] = Append(@, t)]
        /\ Becomes(rest, RecursiveJob, Append(rest[RecursiveJob], t), longer)
    <3>1. Append(rest[RecursiveJob], t) \in Seq(Texts)
      BY <1>1, <1>6, <1>7, Appended
    <3> QED BY <1>1, <1>6, <2>a, <3>1 DEF Becomes
  <2>3. tmp' = longer /\ screen' = screen
    BY <1>2, <1>4, <1>5, <1>10, <2>2 DEF DumpText
  <2>4. \A u \in Texts : In(u, rest[RecursiveJob]) /\ SameWriter(u, t) => Earlier(u, t)
    BY <1>1, <1>6, <1>7, <2>1 DEF Ordered, Precedes
  <2>5. \A i \in OutJobs : i # RecursiveJob =>
                \A u \in Texts : In(u, rest[i]) /\ SameWriter(t, u) => Earlier(t, u)
    <3> SUFFICES ASSUME NEW i \in OutJobs, i # RecursiveJob,
                        NEW u \in Texts, In(u, rest[i]), SameWriter(t, u)
                 PROVE  Earlier(t, u)
      OBVIOUS
    <3>1. CASE i = j
      BY <1>7, <3>1
    <3>2. CASE i # j
      <4>1. In(u, tmp[i])
        BY <1>6, <3>2
      <4>2. u.job = i /\ t.job = j
        BY <1>7, <1>9, <2>1, <4>1 DEF Holds
      <4> QED BY <3>2, <4>2 DEF SameWriter
    <3> QED BY <3>1, <3>2
  <2>6. /\ Ordered(screen, longer)
        /\ \A u : Somewhere(u, screen, longer) <=> Somewhere(u, screen, rest) \/ u = t
    <3>1. PICK scr, k : scr = screen /\ k = RecursiveJob
      OBVIOUS
    <3>2. /\ scr \in Seq(Texts) /\ rest \in [OutJobs -> Seq(Texts)] /\ t \in Texts /\ k \in OutJobs
          /\ Ordered(scr, rest) /\ Becomes(rest, k, Append(rest[k], t), longer)
      BY <1>1, <1>6, <1>7, <2>2, <3>1
    <3>3. \A u \in Texts : (In(u, scr) \/ In(u, rest[k]) \/ (k # RecursiveJob /\ In(u, rest[RecursiveJob])))
                             /\ SameWriter(u, t) => Earlier(u, t)
      BY <1>8, <2>4, <3>1
    <3>4. k = RecursiveJob => \A i \in OutJobs : i # k =>
                \A u \in Texts : In(u, rest[i]) /\ SameWriter(t, u) => Earlier(t, u)
      BY <2>5, <3>1
    <3>5. /\ Ordered(scr, longer)
          /\ \A u : Somewhere(u, scr, longer) <=> Somewhere(u, scr, rest) \/ u = t
      BY <3>2, <3>3, <3>4, KeptOrdered
    <3> QED BY <3>1, <3>5
  <2> QED BY <1>6, <2>3, <2>6 DEF OrderOK
<1>11. CASE ~ToParentTmp(m)
  <2>1. tmp' = rest /\ screen' = Append(screen, t)
    BY <1>2, <1>4, <1>5, <1>11 DEF DumpText
  <2>2. ASSUME NEW k \in OutJobs, NEW u \in Texts, In(u, rest[k]), SameWriter(t, u)
        PROVE  Earlier(t, u)
    <3>1. CASE k = j
      BY <1>7, <2>2, <3>1
    <3>2. CASE k # j /\ j = RecursiveJob
      BY <1>1, <1>6, <1>7, <2>2, <3>2 DEF Ordered, Precedes
    <3>3. CASE k # j /\ j # RecursiveJob
      <4>1. k = RecursiveJob /\ j \in SubJobs /\ In(u, tmp[k])
        BY <1>6, <1>7, <1>9, <2>2, <3>3 DEF Holds, SameWriter
      <4>2. m = "sub" /\ doing["sub"].at \notin {"none", "exit"}
        BY <1>3, <4>1, OutNames DEF Working
      <4>3. tmp[RecursiveJob] = << >>
        BY <1>11, <4>2, SubMakeWorks
      <4> QED BY <4>1, <4>3 DEF In
    <3> QED BY <3>1, <3>2, <3>3
  <2>3. /\ Ordered(Append(screen, t), rest)
        /\ \A u : Somewhere(u, Append(screen, t), rest) <=> Somewhere(u, screen, rest) \/ u = t
    BY <1>1, <1>6, <1>7, <1>8, <2>2, ShownOrdered
  <2> QED BY <1>6, <2>1, <2>3 DEF OrderOK
<1> QED BY <1>10, <1>11

LEMMA WrittenBefore ==
  ASSUME OutTypes, WrittenOK, NEW j \in OutJobs, NEW t,
         \/ t = Text(j, "echo") /\ ~LineBegun(j)
         \/ t = Text(j, "text") /\ recipe[j].at = "run"
  PROVE  Newest(t, screen, tmp)
<1>1. t.job = j /\ t.line = recipe[j].line
  BY SomeTexts
<1> SUFFICES ASSUME NEW u \in Texts, SameWriter(u, t), Somewhere(u, screen, tmp) PROVE Earlier(u, t)
  BY DEF Newest
<1>2. u.job = j /\ u.job # "directory" /\ Behind(u)
  BY <1>1 DEF SameWriter, WrittenOK
<1>3. CASE t = Text(j, "echo") /\ ~LineBegun(j)
  BY <1>1, <1>2, <1>3 DEF Behind, Earlier
<1>4. CASE t = Text(j, "text") /\ recipe[j].at = "run"
  <2>1. t.part = "text"
    BY <1>4, SomeTexts
  <2> QED BY <1>1, <1>2, <1>4, <2>1 DEF Behind, Earlier
<1> QED BY <1>3, <1>4

LEMMA CommandOrdered ==
  ASSUME OutTypes, Control, FilesOK, OrderOK, WrittenOK, NEW j \in OutJobs, CommandWrites(j)
  PROVE  /\ OrderOK'
         /\ \A u : Somewhere(u, screen, tmp)' <=> Somewhere(u, screen, tmp) \/ u = Text(j, "text")
<1>1. PICK scr, f, t : scr = screen /\ f = tmp /\ t = Text(j, "text")
  OBVIOUS
<1>2. /\ scr \in Seq(Texts) /\ f \in [OutJobs -> Seq(Texts)] /\ Ordered(scr, f)
      /\ t \in Texts /\ t.job = j /\ RecursiveJob \in OutJobs
      /\ HeldRight(f)
  BY <1>1, SomeTexts, OutNames DEF HeldRight, OutTypes, OrderOK, FilesOK, FileOK
<1>3. recipe[j].at = "run" /\ Newest(t, scr, f)
  <2>1. recipe[j].at = "run"
    BY DEF CommandWrites
  <2> QED BY <1>1, <2>1, WrittenBefore
<1>5. ~to_tmp[j] => f[j] = << >>
  BY <1>1, <1>3 DEF FilesOK, FileOK
<1>6. \A k \in OutJobs : f[k] \in Seq(Texts) /\ Append(f[k], t) \in Seq(Texts)
  BY <1>2, Appended
<1>7. Ordered(screen', tmp') /\ \A u : Somewhere(u, screen', tmp') <=> Somewhere(u, scr, f) \/ u = t
  <2>1. CASE to_tmp[j]
    <3>1. screen' = scr /\ tmp' = [f EXCEPT ![j] = Append(@, t)]
      BY <1>1, <2>1 DEF CommandWrites
    <3>2. Becomes(f, j, Append(f[j], t), tmp')
      BY <1>2, <1>6, <3>1 DEF Becomes
    <3>3. Ordered(scr, tmp') /\ \A u : Somewhere(u, scr, tmp') <=> Somewhere(u, scr, f) \/ u = t
      <4>1. PICK k \in OutJobs : k = j
        OBVIOUS
      <4>2. PICK longer : longer = tmp'
        OBVIOUS
      <4>3. Becomes(f, k, Append(f[k], t), longer)
        BY <3>2, <4>1, <4>2
      <4>4. Ordered(scr, longer) /\ \A u : Somewhere(u, scr, longer) <=> Somewhere(u, scr, f) \/ u = t
        BY <1>2, <1>3, <4>1, <4>3, NewKept
      <4> QED BY <4>2, <4>4
    <3> QED BY <3>1, <3>3
  <2>2. CASE ~to_tmp[j] /\ ToParentTmp(OwnerOf(j))
    <3>1. screen' = scr /\ tmp' = [f EXCEPT ![RecursiveJob] = @ \o <<t>>]
      BY <1>1, <2>2 DEF CommandWrites, WriteStdout
    <3>2. f[RecursiveJob] \o <<t>> = Append(f[RecursiveJob], t)
      BY <1>2, <1>6, AppendJoined
    <3>3. Becomes(f, RecursiveJob, Append(f[RecursiveJob], t), tmp')
      BY <1>2, <1>6, <3>1, <3>2 DEF Becomes
    <3>4. Ordered(scr, tmp') /\ \A u : Somewhere(u, scr, tmp') <=> Somewhere(u, scr, f) \/ u = t
      BY <1>2, <1>3, <1>5, <2>2, <3>3, NewKept
    <3> QED BY <3>1, <3>4
  <2>3. CASE ~to_tmp[j] /\ ~ToParentTmp(OwnerOf(j))
    <3>1. screen' = Append(scr, t) /\ tmp' = f
      <4>1. scr \o <<t>> = Append(scr, t)
        BY <1>2, AppendJoined
      <4> QED BY <1>1, <2>3, <4>1 DEF CommandWrites, WriteStdout
    <3>2. j \in SubJobs => f[RecursiveJob] = << >>
      BY <1>1, <1>3, <2>3, Works, SubMakeWorks, OutNames
    <3>3. /\ Ordered(Append(scr, t), f)
          /\ \A u : Somewhere(u, Append(scr, t), f) <=> Somewhere(u, scr, f) \/ u = t
      BY <1>2, <1>3, <1>5, <2>3, <3>2, NewShown, ZenonT(60)
    <3> QED BY <3>1, <3>3
  <2> QED BY <2>1, <2>2, <2>3
<1> QED BY <1>1, <1>7 DEF OrderOK

LEMMA StartOrdered ==
  ASSUME OutTypes, Control, FilesOK, OrderOK, WrittenOK, NEW m \in MakeProcs, doing[m].at = "echo",
         NEW j \in OutJobs, OwnerOf(j) = m, ~LineBegun(j),
         NEW set \in BOOLEAN, NEW sync, NEW again, StartCommand(m, j, set, sync, again),
         ~set => tmp[j] = << >>
  PROVE  /\ OrderOK'
         /\ \A u : u.job # "directory" =>
               (Somewhere(u, screen, tmp)' <=> Somewhere(u, screen, tmp) \/ u = Text(j, "echo"))
<1>1. PICK scr, f, t, e, d : /\ scr = screen /\ f = tmp /\ t = Text(j, "echo")
                             /\ e = Entering(m, sync) /\ d = Dir("enter")
  OBVIOUS
<1>2. /\ scr \in Seq(Texts) /\ f \in [OutJobs -> Seq(Texts)] /\ Ordered(scr, f)
      /\ t \in Texts /\ t.job = j /\ RecursiveJob \in OutJobs /\ d \in Texts /\ d.job = "directory"
      /\ e = << >> \/ e = <<d>>
      /\ e \in Seq(Texts)
  BY <1>1, SomeTexts, OutNames, DirTexts DEF OutTypes, OrderOK
<1>3. HeldRight(f)
  BY <1>1 DEF FilesOK, FileOK, HeldRight
<1>4. Newest(t, scr, f)
  BY <1>1, WrittenBefore
<1>5. j \in SubJobs /\ ~ToParentTmp(m) => f[RecursiveJob] = << >>
  BY <1>1, SubMakeWorks, OutNames
<1>6. \A k \in OutJobs : f[k] \in Seq(Texts) /\ Append(f[k], t) \in Seq(Texts) /\ f[k] \o e \in Seq(Texts)
  BY <1>2, Appended, AppendJoined
<1>7. Ordered(screen', tmp')
      /\ \A u : u.job # "directory" =>
            (Somewhere(u, screen', tmp') <=> Somewhere(u, scr, f) \/ u = t)
  <2>1. CASE set
    <3>1. PICK own : own = [f EXCEPT ![j] = Append(@, t)]
      OBVIOUS
    <3>2. Becomes(f, j, Append(f[j], t), own)
      BY <1>2, <1>6, <3>1 DEF Becomes
    <3>3. /\ Ordered(scr, own)
          /\ \A u : Somewhere(u, scr, own) <=> Somewhere(u, scr, f) \/ u = t
      BY <1>2, <1>3, <1>4, <3>2, NewKept
    <3>4. own \in [OutJobs -> Seq(Texts)] /\ own[RecursiveJob] \o e \in Seq(Texts)
      BY <1>2, <3>2, AppendJoined DEF Becomes
    <3>5. PICK longer : longer = [own EXCEPT ![RecursiveJob] = @ \o e]
      OBVIOUS
    <3>6. Becomes(own, RecursiveJob, own[RecursiveJob] \o e, longer)
      BY <1>2, <3>4, <3>5 DEF Becomes
    <3>7. /\ Ordered(scr \o e, own) /\ Ordered(scr, longer)
          /\ \A u : u.job # "directory" =>
                   /\ Somewhere(u, scr \o e, own) <=> Somewhere(u, scr, own)
                   /\ Somewhere(u, scr, longer) <=> Somewhere(u, scr, own)
      BY <1>2, <3>3, <3>4, <3>6, DirOrdered
    <3>8. \/ screen' = scr /\ tmp' = longer
          \/ screen' = scr \o e /\ tmp' = own
      BY <1>1, <2>1, <3>1, <3>5 DEF StartCommand
    <3> QED BY <3>3, <3>7, <3>8
  <2>2. CASE ~set /\ ToParentTmp(m)
    <3>1. m = "sub" /\ j \in SubJobs /\ j # RecursiveJob
      BY <2>2, OutNames DEF ToParentTmp
    <3>2. PICK f1 : f1 = [f EXCEPT ![RecursiveJob] = @ \o e]
      OBVIOUS
    <3>3. Becomes(f, RecursiveJob, f[RecursiveJob] \o e, f1)
      BY <1>2, <1>6, <3>2 DEF Becomes
    <3>4. /\ Ordered(scr, f1)
          /\ \A u : u.job # "directory" => (Somewhere(u, scr, f1) <=> Somewhere(u, scr, f))
      BY <1>2, <3>3, DirOrdered
    <3>5. f1 \in [OutJobs -> Seq(Texts)] /\ f1[j] = << >>
          /\ HeldRight(f1)
      <4>1. f1 \in [OutJobs -> Seq(Texts)] /\ f1[RecursiveJob] = f[RecursiveJob] \o e
            /\ \A k \in OutJobs : k # RecursiveJob => f1[k] = f[k]
        BY <3>3 DEF Becomes
      <4>2. \A u \in Texts : In(u, f1[RecursiveJob]) => In(u, f[RecursiveJob]) \/ u = d
        <5>1. CASE e = << >>
          BY <1>2, <1>6, <4>1, <5>1, AppendJoined
        <5>2. CASE e = <<d>>
          <6>1. f1[RecursiveJob] = Append(f[RecursiveJob], d)
            BY <1>2, <1>6, <4>1, <5>2, AppendJoined
          <6> QED BY <1>2, <1>6, <6>1, InAppended
        <5> QED BY <1>2, <5>1, <5>2
      <4>3. Holds(RecursiveJob, d)
        BY <1>2 DEF Holds
      <4> QED BY <1>1, <1>2, <1>3, <2>2, <3>1, <4>1, <4>2, <4>3 DEF HeldRight
    <3>6. Newest(t, scr, f1)
      BY <1>4, <3>4 DEF SameWriter, Newest
    <3>7. Append(f1[RecursiveJob], t) \in Seq(Texts) /\ f1[RecursiveJob] \in Seq(Texts)
      BY <1>2, <3>5, Appended
    <3>8. PICK longer : longer = [f1 EXCEPT ![RecursiveJob] = Append(@, t)]
      OBVIOUS
    <3>9. Becomes(f1, RecursiveJob, Append(f1[RecursiveJob], t), longer)
      BY <1>2, <3>5, <3>7, <3>8 DEF Becomes
    <3>10. /\ Ordered(scr, longer)
           /\ \A u : Somewhere(u, scr, longer) <=> Somewhere(u, scr, f1) \/ u = t
      <4>1. PICK k \in OutJobs : k = RecursiveJob
        BY <1>2
      <4>2. Becomes(f1, k, Append(f1[k], t), longer) /\ (k = j \/ (k = RecursiveJob /\ f1[j] = << >>))
        BY <3>5, <3>9, <4>1
      <4>3. scr \in Seq(Texts) /\ f1 \in [OutJobs -> Seq(Texts)] /\ Ordered(scr, f1) /\ HeldRight(f1)
            /\ t \in Texts /\ t.job = j /\ Newest(t, scr, f1)
        BY <1>2, <3>4, <3>5, <3>6
      <4> QED BY <4>2, <4>3, NewKept
    <3>11. screen' = scr /\ tmp' = longer
      <4>1. screen' = scr /\ tmp' = [f EXCEPT ![RecursiveJob] = @ \o Append(e, t)]
        BY <1>1, <2>2 DEF StartCommand, WriteStdout
      <4>2. f[RecursiveJob] \o Append(e, t) = Append(f[RecursiveJob] \o e, t)
        BY <1>2, <1>6, AppendJoined, SMTT(30)
      <4>3. f1[RecursiveJob] = f[RecursiveJob] \o e
        BY <3>3 DEF Becomes
      <4>4. \A k \in OutJobs : tmp'[k] = longer[k]
        BY <1>2, <3>3, <3>8, <4>1, <4>2, <4>3, <3>9 DEF Becomes
      <4>5. tmp' \in [OutJobs -> Seq(Texts)] /\ longer \in [OutJobs -> Seq(Texts)]
        BY <1>2, <1>6, <3>7, <3>9, <4>1, <4>2, <4>3 DEF Becomes
      <4> QED BY <4>1, <4>4, <4>5
    <3> QED BY <3>4, <3>10, <3>11
  <2>3. CASE ~set /\ ~ToParentTmp(m)
    <3>1. /\ Ordered(scr \o e, f) /\ scr \o e \in Seq(Texts)
          /\ \A u : u.job # "directory" => (Somewhere(u, scr \o e, f) <=> Somewhere(u, scr, f))
      <4>1. PICK longer : longer = [f EXCEPT ![RecursiveJob] = @ \o e]
        OBVIOUS
      <4>2. Becomes(f, RecursiveJob, f[RecursiveJob] \o e, longer)
        BY <1>2, <1>6, <4>1 DEF Becomes
      <4> QED BY <1>2, <4>2, DirOrdered
    <3>2. Newest(t, scr \o e, f)
      BY <1>4, <3>1 DEF SameWriter, Newest
    <3>3. /\ Ordered(Append(scr \o e, t), f)
          /\ \A u : Somewhere(u, Append(scr \o e, t), f) <=> Somewhere(u, scr \o e, f) \/ u = t
      BY <1>1, <1>2, <1>3, <1>5, <2>3, <3>1, <3>2, NewShown, ZenonT(60)
    <3>4. screen' = Append(scr \o e, t) /\ tmp' = f
      <4>1. scr \o Append(e, t) = Append(scr \o e, t)
        BY <1>2, AppendJoined, SMTT(30)
      <4> QED BY <1>1, <2>3, <4>1 DEF StartCommand, WriteStdout
    <3> QED BY <3>1, <3>3, <3>4
  <2> QED BY <2>1, <2>2, <2>3
<1> QED BY <1>1, <1>7 DEF OrderOK

\* No job goes back.
Advances ==
    \A i \in OutJobs :
        /\ recipe'[i].at = "new" => recipe[i].at = "new"
        /\ recipe[i].at = "done" => recipe'[i].at = "done"
        /\ recipe[i].line <= recipe'[i].line
        /\ \/ recipe'[i] = recipe[i] /\ (LineBegun(i)' <=> LineBegun(i))
           \/ recipe'[i].line = recipe[i].line /\ LineBegun(i)' /\ ~LineBegun(i)
           \/ recipe'[i].line = recipe[i].line /\ LineBegun(i)' /\ recipe'[i].at \in {"ended", "done"}
           \/ recipe'[i].line = recipe[i].line + 1

LEMMA MoveAdvances ==
  ASSUME OutTypes, NEW m \in MakeProcs, NEW x, MovesTo(m, x) \/ doing' = doing, recipe' = recipe
  PROVE  Advances /\ \A i \in OutJobs : LineBegun(i)' <=> LineBegun(i)
<1>1. \A i \in OutJobs : LineBegun(i)' <=> LineBegun(i)
  <2>1. CASE doing' = doing
    BY <2>1 DEF LineBegun, Pending
  <2>2. CASE MovesTo(m, x)
    BY <2>2, SamePending DEF LineBegun
  <2> QED BY <2>1, <2>2
<1>2. \A i \in OutJobs : recipe[i].line <= recipe'[i].line
  BY OutFacts
<1> QED BY <1>1, <1>2 DEF Advances

\* The steps that only move a make on.
LEMMA MoveSteps ==
  ASSUME OutTypes, Control, NEW m \in MakeProcs
  PROVE  /\ DumpLock(m) \/ DumpLockFails(m) => Working(m) /\ MovesTo(m, "enter") /\ recipe' = recipe
         /\ DumpEnter(m) => Working(m) /\ MovesTo(m, "pump") /\ recipe' = recipe
         /\ DumpLeave(m) => Working(m) /\ MovesTo(m, "unlock") /\ recipe' = recipe
         /\ DumpUnlock(m) => Working(m) /\ MovesTo(m, doing[m].then) /\ recipe' = recipe
         /\ MakeDies(m) => /\ MovesTo(m, "exit") /\ recipe' = recipe /\ doing[m].at = "idle"
                           /\ \A j \in RecipesOf(m) : recipe[j].at = "done"
         /\ SubMakeStarts => /\ MovesTo("sub", IF mutex_file THEN "idle" ELSE "exit")
                             /\ recipe' = recipe /\ doing["sub"].at = "start"
<1>1. DumpLock(m) \/ DumpLockFails(m) => Working(m) /\ MovesTo(m, "enter") /\ recipe' = recipe
  BY MovedTo DEF DumpLock, DumpLockFails, Working
<1>2. DumpEnter(m) => Working(m) /\ MovesTo(m, "pump") /\ recipe' = recipe
  BY MovedTo DEF DumpEnter, Working
<1>3. DumpLeave(m) => Working(m) /\ MovesTo(m, "unlock") /\ recipe' = recipe
  BY MovedTo DEF DumpLeave, Working
<1>4. DumpUnlock(m) => Working(m) /\ MovesTo(m, doing[m].then) /\ recipe' = recipe
  BY MovedTo DEF DumpUnlock, Working
<1>5. MakeDies(m) => /\ MovesTo(m, "exit") /\ recipe' = recipe /\ doing[m].at = "idle"
                     /\ \A j \in RecipesOf(m) : recipe[j].at = "done"
  BY MovedTo DEF MakeDies
<1>6. SubMakeStarts => /\ MovesTo("sub", IF mutex_file THEN "idle" ELSE "exit")
                       /\ recipe' = recipe /\ doing["sub"].at = "start"
  BY MovedTo, OutNames DEF SubMakeStarts
<1> QED BY <1>1, <1>2, <1>3, <1>4, <1>5, <1>6

LEMMA StartLineFacts ==
  ASSUME OutTypes, Control, NEW m \in MakeProcs, StartLine(m)
  PROVE  /\ \E j \in RecipesOf(m), a \in {"echo", "lock"} :
               /\ \/ doing[m].at = "idle" /\ recipe[j].at = "new"
                  \/ doing[m].at = "next" /\ doing[m].job = j
               /\ doing' = [doing EXCEPT ![m] = [at |-> a, job |-> j, then |-> "echo"]]
               /\ LET synced == output_sync[m] # "none"
                                   /\ (output_sync[m] = "recurse" \/ ~IsRecursive(j)) IN
                  /\ syncout' = [syncout EXCEPT ![j] = synced]
                  /\ a = "lock" => ~synced
                  /\ a = "echo" /\ ~synced => ~(tmp_set[j] /\ tmp[j] # << >>)
         /\ recipe' = recipe
BY DEF StartLine, DumpBefore, Dump

LEMMA ReapFacts ==
  ASSUME OutTypes, Control, NEW m \in MakeProcs, Reap(m)
  PROVE  /\ Control' /\ doing[m].at = "idle"
         /\ \E j \in OutJobs, a \in {"lock", "next", "idle"} :
               /\ OwnerOf(j) = m /\ recipe[j].at = "ended" /\ LineBegun(j)
               /\ \A i \in OutJobs : i # j => recipe'[i] = recipe[i] /\ (LineBegun(i)' <=> LineBegun(i))
               /\ doing'[m].at = a /\ doing'[m].job = j
               /\ \A n \in MakeProcs : n # m => doing'[n] = doing[n]
               /\ \/ /\ recipe'[j].at = "ended" /\ recipe'[j].line = recipe[j].line + 1 /\ ~LineBegun(j)'
                     /\ doing'[m].then = "next" /\ a \in {"lock", "next"}
                     /\ a = "lock" => output_sync[m] = "line"
                  \/ /\ recipe'[j].at = "done" /\ recipe'[j].line = recipe[j].line /\ LineBegun(j)'
                     /\ doing'[m].then = "idle" /\ a \in {"lock", "idle"}
                     /\ a = "idle" => ~(tmp_set[j] /\ tmp[j] # << >>)
<1>1. doing[m].at = "idle"
  BY DEF Reap
<1>2. PICK j \in RecipesOf(m) :
         /\ recipe[j].at = "ended"
         /\ IF LinesLeft(j)
            THEN /\ recipe' = [recipe EXCEPT ![j].line = @ + 1]
                 /\ IF DumpsBetweenLines(m) THEN Dump(m, j, "next")
                    ELSE doing' = [doing EXCEPT ![m] = [at |-> "next", job |-> j, then |-> "next"]]
            ELSE recipe' = [recipe EXCEPT ![j].at = "done"] /\ Dump(m, j, "idle")
  BY DEF Reap
<1>3. CASE LinesLeft(j)
  <2>1. PICK a \in {"lock", "next"} :
           /\ TurnsTo(m, j, a, "next")
           /\ a = "lock" => output_sync[m] = "line"
    <3>1. CASE DumpsBetweenLines(m)
      BY <1>2, <1>3, <3>1 DEF Dump, DumpsBetweenLines, TurnsTo
    <3>2. CASE ~DumpsBetweenLines(m)
      BY <1>2, <1>3, <3>2 DEF TurnsTo
    <3> QED BY <3>1, <3>2
  <2>2. NextLine(j) /\ recipe[j].at = "ended"
    BY <1>2, <1>3 DEF NextLine
  <2>3. /\ Control' /\ j \in OutJobs /\ OwnerOf(j) = m /\ LineBegun(j)
        /\ \A i \in OutJobs : i # j => recipe'[i] = recipe[i] /\ (LineBegun(i)' <=> LineBegun(i))
        /\ doing'[m].at = a /\ doing'[m].job = j /\ doing'[m].then = "next"
        /\ \A n \in MakeProcs : n # m => doing'[n] = doing[n]
        /\ recipe'[j].at = "ended" /\ recipe'[j].line = recipe[j].line + 1 /\ ~LineBegun(j)'
    BY <1>1, <1>3, <2>1, <2>2, ReapControl
  <2> QED BY <1>1, <1>2, <2>1, <2>3
<1>4. CASE ~LinesLeft(j)
  <2>1. PICK a \in {"lock", "idle"} :
           /\ TurnsTo(m, j, a, "idle")
           /\ a = "idle" => ~(tmp_set[j] /\ tmp[j] # << >>)
    BY <1>2, <1>4 DEF Dump, TurnsTo
  <2>2. LastLine(j) /\ recipe[j].at = "ended"
    BY <1>2, <1>4 DEF LastLine
  <2>3. /\ Control' /\ j \in OutJobs /\ OwnerOf(j) = m /\ LineBegun(j)
        /\ \A i \in OutJobs : i # j => recipe'[i] = recipe[i] /\ (LineBegun(i)' <=> LineBegun(i))
        /\ doing'[m].at = a /\ doing'[m].job = j /\ doing'[m].then = "idle"
        /\ \A n \in MakeProcs : n # m => doing'[n] = doing[n]
        /\ recipe'[j].at = "done" /\ recipe'[j].line = recipe[j].line /\ LineBegun(j)'
    BY <1>1, <1>4, <2>1, <2>2, ReapControl
  <2> QED BY <1>1, <1>2, <2>1, <2>3
<1> QED BY <1>3, <1>4

LEMMA EchoFacts ==
  ASSUME OutTypes, Control, NEW m \in MakeProcs, Echo(m) \/ EchoWithoutTmpfile(m)
  PROVE  \E j \in OutJobs, set \in BOOLEAN, again \in BOOLEAN, sync \in {mode, "none"} :
            /\ doing[m].at = "echo" /\ j = doing[m].job
            /\ StartCommand(m, j, set, sync, again)
            /\ \/ Echo(m) /\ set = syncout[j] /\ sync = output_sync[m] /\ again = syncout[j]
               \/ EchoWithoutTmpfile(m) /\ set = FALSE /\ sync = "none" /\ ~tmp_set[j]
<1>1. PICK j \in OutJobs : j = doing[m].job
  BY OutFacts
<1>2. syncout[j] \in BOOLEAN /\ output_sync[m] \in {mode, "none"}
  BY OutFacts
<1>3. CASE Echo(m)
  BY <1>1, <1>2, <1>3 DEF Echo
<1>4. CASE EchoWithoutTmpfile(m)
  BY <1>1, <1>4 DEF EchoWithoutTmpfile
<1> QED BY <1>3, <1>4

LEMMA ControlStays ==
  ASSUME OutTypes, Control, OutNext
  PROVE  Control' /\ Advances
<1>1. ASSUME NEW m \in MakeProcs, \/ DumpLock(m) \/ DumpLockFails(m) \/ DumpEnter(m) \/ DumpLeave(m)
                                  \/ DumpUnlock(m) \/ MakeDies(m)
      PROVE  Control' /\ Advances
  <2>1. PICK x : /\ MovesTo(m, x) /\ recipe' = recipe
                 /\ \/ Working(m) /\ (x \in DumpSteps \/ x = doing[m].then)
                    \/ doing[m].at = "idle" /\ x = "exit" /\ \A j \in RecipesOf(m) : recipe[j].at = "done"
    BY <1>1, MoveSteps DEF DumpSteps
  <2> QED BY <2>1, MoveControl, MoveAdvances
<1>2. ASSUME SubMakeStarts PROVE Control' /\ Advances
  <2>1. PICK x \in {"idle", "exit"} : MovesTo("sub", x) /\ recipe' = recipe /\ doing["sub"].at = "start"
    BY <1>2, MoveSteps, OutNames
  <2> QED BY <2>1, MoveControl, MoveAdvances, OutNames
<1>3. ASSUME NEW m \in MakeProcs, DumpText(m) PROVE Control' /\ Advances
  <2>1. doing' = doing /\ recipe' = recipe
    BY <1>3 DEF DumpText
  <2>2. Control'
    BY <2>1 DEF Control, StageOK, SubOK, Working, IsRecursive, LineBegun, Pending
  <2> QED BY <2>1, <2>2, MoveAdvances
<1>4. ASSUME NEW m \in MakeProcs, StartLine(m) PROVE Control' /\ Advances
  <2>1. PICK j \in RecipesOf(m), a \in {"echo", "lock"} :
               /\ \/ doing[m].at = "idle" /\ recipe[j].at = "new"
                  \/ doing[m].at = "next" /\ doing[m].job = j
               /\ doing' = [doing EXCEPT ![m] = [at |-> a, job |-> j, then |-> "echo"]]
               /\ recipe' = recipe
    BY <1>4, StartLineFacts
  <2>2. Control' /\ \A i \in OutJobs : LineBegun(i)' <=> LineBegun(i)
    BY <2>1, StartLineControl
  <2>3. \A i \in OutJobs : recipe[i].line <= recipe[i].line
    BY OutFacts
  <2> QED BY <2>1, <2>2, <2>3 DEF Advances
<1>5. ASSUME NEW m \in MakeProcs, Echo(m) \/ EchoWithoutTmpfile(m) PROVE Control' /\ Advances
  <2>1. PICK j, set, again, sync : doing[m].at = "echo" /\ j = doing[m].job /\ StartCommand(m, j, set, sync, again)
    BY <1>5, EchoFacts
  <2>2. /\ Control' /\ j \in OutJobs /\ recipe[j].at \in {"new", "ended"} /\ ~LineBegun(j) /\ LineBegun(j)'
        /\ recipe'[j].at = "run" /\ recipe'[j].line = recipe[j].line
        /\ \A i \in OutJobs : i # j => recipe'[i] = recipe[i] /\ (LineBegun(i)' <=> LineBegun(i))
    BY <2>1, StartControl, ZenonT(60) DEF Started
  <2>3. \A i \in OutJobs : recipe[i].line <= recipe[i].line
    BY OutFacts
  <2> QED BY <2>2, <2>3 DEF Advances
<1>6. ASSUME NEW j \in OutJobs, CommandWrites(j) \/ (SubMakeEnds /\ j = RecursiveJob)
      PROVE  Control' /\ Advances
  <2>1. /\ recipe[j].at = "run" /\ doing' = doing /\ recipe' = [recipe EXCEPT ![j].at = "ended"]
        /\ ~IsRecursive(j) \/ doing["sub"].at = "exit"
    BY <1>6 DEF CommandWrites, SubMakeEnds
  <2>2. /\ Control' /\ LineBegun(j) /\ recipe'[j].at = "ended" /\ recipe'[j].line = recipe[j].line
        /\ \A i \in OutJobs : LineBegun(i)' <=> LineBegun(i)
        /\ \A i \in OutJobs : i # j => recipe'[i] = recipe[i]
    BY <2>1, EndedControl
  <2>3. \A i \in OutJobs : recipe[i].line <= recipe[i].line
    BY OutFacts
  <2> QED BY <2>1, <2>2, <2>3 DEF Advances
<1>7. ASSUME NEW m \in MakeProcs, Reap(m) PROVE Control' /\ Advances
  <2>1. Control'
    BY <1>7, ReapFacts
  <2>2. PICK j \in OutJobs :
           /\ recipe[j].at = "ended" /\ LineBegun(j)
           /\ \A i \in OutJobs : i # j => recipe'[i] = recipe[i] /\ (LineBegun(i)' <=> LineBegun(i))
           /\ \/ recipe'[j].at = "ended" /\ recipe'[j].line = recipe[j].line + 1
              \/ recipe'[j].at = "done" /\ recipe'[j].line = recipe[j].line /\ LineBegun(j)'
    BY <1>7, ReapFacts
  <2>3. \A i \in OutJobs : recipe[i].line <= recipe[i].line /\ recipe[i].line <= recipe[i].line + 1
    BY OutFacts
  <2> QED BY <2>1, <2>2, <2>3 DEF Advances
<1> QED BY <1>1, <1>2, <1>3, <1>4, <1>5, <1>6, <1>7, OutNames DEF OutNext, output_dump

LEMMA BehindStays ==
  ASSUME OutTypes, Advances, NEW u \in Texts, u.job \in OutJobs, Behind(u)
  PROVE  Behind(u)'
<1>1. PICK i \in OutJobs : i = u.job
  OBVIOUS
<1>2. u.line \in Nat /\ recipe[i].line \in Nat
  BY OutFacts DEF Texts
<1> QED BY <1>1, <1>2 DEF Behind, Advances

\* The texts that a step writes.
Writes(fresh) == texts_written' = texts_written \cup fresh

LEMMA WrittenStays ==
  ASSUME OutTypes, Advances, WrittenOK, NEW fresh, Writes(fresh),
         \A t \in fresh : t \in Texts /\ Behind(t)',
         \A u \in Texts : u.job # "directory" =>
            (Somewhere(u, screen, tmp)' <=> Somewhere(u, screen, tmp) \/ u \in fresh)
  PROVE  WrittenOK'
<1>1. \A t \in texts_written' : Behind(t)'
  <2> SUFFICES ASSUME NEW t \in texts_written' PROVE Behind(t)'
    OBVIOUS
  <2>0. texts_written' = texts_written \cup fresh
    BY DEF Writes
  <2>1. CASE t \in fresh
    BY <2>1
  <2>2. CASE t \in texts_written
    <3>1. t \in Texts /\ t.job \in OutJobs /\ Behind(t)
      BY <2>2 DEF OutTypes, WrittenOK, Texts
    <3> QED BY <3>1, BehindStays
  <2> QED BY <2>0, <2>1, <2>2
<1>2. \A u \in Texts : u.job # "directory" => (u \in texts_written' <=> Somewhere(u, screen, tmp)')
  BY DEF WrittenOK, Writes
<1> QED BY <1>1, <1>2 DEF WrittenOK

LEMMA OrderStays ==
  ASSUME OutTypes, Control, FilesOK, OrderOK, WrittenOK, OutNext
  PROVE  OrderOK' /\ WrittenOK'
<1>1. Advances
  BY ControlStays
<1>2. ASSUME texts_written' = texts_written, OrderOK',
             \A u : u.job # "directory" => (Somewhere(u, screen, tmp)' <=> Somewhere(u, screen, tmp))
      PROVE  OrderOK' /\ WrittenOK'
  <2>1. PICK fresh : fresh = {}
    OBVIOUS
  <2>2. Writes(fresh) /\ \A t \in fresh : t \in Texts /\ Behind(t)'
    BY <1>2, <2>1 DEF Writes
  <2>3. \A u \in Texts : u.job # "directory" =>
            (Somewhere(u, screen, tmp)' <=> Somewhere(u, screen, tmp) \/ u \in fresh)
    BY <1>2, <2>1
  <2> QED BY <1>1, <1>2, <2>2, <2>3, WrittenStays
<1>3. ASSUME texts_written' = texts_written, screen' = screen, tmp' = tmp
      PROVE  OrderOK' /\ WrittenOK'
  <2>1. OrderOK' /\ \A u : (Somewhere(u, screen, tmp)' <=> Somewhere(u, screen, tmp))
    BY <1>3 DEF OrderOK, Somewhere, Ordered
  <2> QED BY <1>2, <1>3, <2>1
<1>4. ASSUME NEW m \in MakeProcs, DumpLock(m) \/ DumpLockFails(m) \/ DumpUnlock(m) \/ StartLine(m) \/ Reap(m)
      PROVE  OrderOK' /\ WrittenOK'
  BY <1>3, <1>4 DEF DumpLock, DumpLockFails, DumpUnlock, StartLine, Reap, files
<1>5. ASSUME SubMakeEnds \/ SubMakeStarts PROVE OrderOK' /\ WrittenOK'
  BY <1>3, <1>5 DEF SubMakeEnds, SubMakeStarts, files
<1>6. ASSUME NEW m \in MakeProcs, DumpEnter(m) \/ DumpLeave(m) \/ MakeDies(m)
      PROVE  OrderOK' /\ WrittenOK'
  <2>1. PICK d, e : /\ d \in Texts /\ d.job = "directory" /\ (e = << >> \/ e = <<d>>)
                    /\ WriteStdout(m, e)
    <3>1. /\ Dir("enter") \in Texts /\ Dir("enter").job = "directory"
          /\ Dir("leave") \in Texts /\ Dir("leave").job = "directory"
      BY SomeTexts
    <3>2. CASE DumpEnter(m)
      BY <3>1, <3>2 DEF DumpEnter
    <3>3. CASE DumpLeave(m)
      BY <3>1, <3>3 DEF DumpLeave
    <3>4. CASE MakeDies(m)
      BY <3>1, <3>4 DEF MakeDies
    <3> QED BY <1>6, <3>2, <3>3, <3>4
  <2>2. texts_written' = texts_written
    BY <1>6 DEF DumpEnter, DumpLeave, MakeDies
  <2> QED BY <1>2, <2>1, <2>2, StdoutOrdered
<1>7. ASSUME NEW m \in MakeProcs, DumpText(m) PROVE OrderOK' /\ WrittenOK'
  <2>1. texts_written' = texts_written
    BY <1>7 DEF DumpText
  <2> QED BY <1>2, <1>7, <2>1, TextOrdered
<1>8. ASSUME NEW m \in MakeProcs, Echo(m) \/ EchoWithoutTmpfile(m) PROVE OrderOK' /\ WrittenOK'
  <2>1. PICK j \in OutJobs, set \in BOOLEAN, again \in BOOLEAN, sync \in {mode, "none"} :
            /\ doing[m].at = "echo" /\ j = doing[m].job
            /\ StartCommand(m, j, set, sync, again)
            /\ \/ Echo(m) /\ set = syncout[j] /\ sync = output_sync[m] /\ again = syncout[j]
               \/ EchoWithoutTmpfile(m) /\ set = FALSE /\ sync = "none" /\ ~tmp_set[j]
    BY <1>8, EchoFacts
  <2>2. /\ OwnerOf(j) = m /\ ~LineBegun(j) /\ LineBegun(j)'
        /\ recipe'[j].at = "run" /\ recipe'[j].line = recipe[j].line
    BY <2>1, StartControl DEF Started
  <2>3. ~set => tmp[j] = << >>
    <3>1. FileOK(j) /\ WorksFor(OwnerOf(j), j)
      BY <2>1, <2>2 DEF FilesOK, WorksFor, Working
    <3> QED BY <2>1, <2>2, <3>1 DEF FileOK
  <2>4. PICK t : t = Text(j, "echo")
    OBVIOUS
  <2>5. /\ OrderOK'
        /\ \A u : u.job # "directory" =>
               (Somewhere(u, screen, tmp)' <=> Somewhere(u, screen, tmp) \/ u = t)
    BY <2>1, <2>2, <2>3, <2>4, StartOrdered
  <2>6. t \in Texts /\ t.job = j /\ t.line = recipe[j].line /\ t.part = "echo"
    BY <2>4, SomeTexts
  <2>7. Behind(t)'
    BY <2>2, <2>6 DEF Behind
  <2>a. PICK fresh : fresh = {t}
    OBVIOUS
  <2>8. Writes(fresh)
    BY <2>1, <2>4, <2>a DEF StartCommand, Writes
  <2>9. /\ \A u \in fresh : u \in Texts /\ Behind(u)'
        /\ \A u \in Texts : u.job # "directory" =>
            (Somewhere(u, screen, tmp)' <=> Somewhere(u, screen, tmp) \/ u \in fresh)
    BY <2>5, <2>6, <2>7, <2>a
  <2> QED BY <1>1, <2>5, <2>8, <2>9, WrittenStays
<1>9. ASSUME NEW j \in OutJobs, CommandWrites(j) PROVE OrderOK' /\ WrittenOK'
  <2>1. PICK t : t = Text(j, "text")
    OBVIOUS
  <2>2. OrderOK' /\ \A u : Somewhere(u, screen, tmp)' <=> Somewhere(u, screen, tmp) \/ u = t
    BY <1>9, <2>1, CommandOrdered
  <2>3. t \in Texts /\ t.job = j /\ t.line = recipe[j].line /\ t.part = "text"
    BY <2>1, SomeTexts
  <2>4. Behind(t)'
    <3>1. /\ recipe[j].at = "run" /\ doing' = doing /\ recipe' = [recipe EXCEPT ![j].at = "ended"]
          /\ ~IsRecursive(j)
      BY <1>9 DEF CommandWrites
    <3>2. /\ LineBegun(j)' /\ recipe'[j].at = "ended" /\ recipe'[j].line = recipe[j].line
      BY <3>1, EndedControl
    <3> QED BY <2>3, <3>2 DEF Behind
  <2>a. PICK fresh : fresh = {t}
    OBVIOUS
  <2>5. Writes(fresh)
    BY <1>9, <2>1, <2>a DEF CommandWrites, Writes
  <2>6. /\ \A u \in fresh : u \in Texts /\ Behind(u)'
        /\ \A u \in Texts : u.job # "directory" =>
            (Somewhere(u, screen, tmp)' <=> Somewhere(u, screen, tmp) \/ u \in fresh)
    BY <2>2, <2>3, <2>4, <2>a
  <2> QED BY <1>1, <2>2, <2>5, <2>6, WrittenStays
<1> QED BY <1>4, <1>5, <1>6, <1>7, <1>8, <1>9 DEF OutNext, output_dump

----------------------------------------------------------------------------
\* The temporary files.
LEMMA InJoined ==
  ASSUME NEW s \in Seq(Texts), NEW e \in Seq(Texts), NEW u
  PROVE  In(u, s \o e) <=> In(u, s) \/ In(u, e)
<1>1. /\ DOMAIN (s \o e) = 1 .. Len(s) + Len(e) /\ Len(s) \in Nat /\ Len(e) \in Nat
      /\ DOMAIN s = 1 .. Len(s) /\ DOMAIN e = 1 .. Len(e)
      /\ \A i \in 1 .. Len(s) + Len(e) : (s \o e)[i] = IF i <= Len(s) THEN s[i] ELSE e[i - Len(s)]
  OBVIOUS
<1>2. ASSUME In(u, s \o e) PROVE In(u, s) \/ In(u, e)
  <2>1. PICK i \in 1 .. Len(s) + Len(e) : (s \o e)[i] = u
    BY <1>1, <1>2 DEF In
  <2>2. CASE i <= Len(s)
    BY <1>1, <2>1, <2>2 DEF In
  <2>3. CASE ~(i <= Len(s))
    <3>1. i - Len(s) \in 1 .. Len(e) /\ e[i - Len(s)] = u
      BY <1>1, <2>1, <2>3
    <3> QED BY <1>1, <3>1 DEF In
  <2> QED BY <2>2, <2>3
<1>3. ASSUME In(u, s) PROVE In(u, s \o e)
  <2>1. PICK i \in 1 .. Len(s) : s[i] = u
    BY <1>1, <1>3 DEF In
  <2>2. i \in 1 .. Len(s) + Len(e) /\ (s \o e)[i] = u
    BY <1>1, <2>1
  <2> QED BY <1>1, <2>2 DEF In
<1>4. ASSUME In(u, e) PROVE In(u, s \o e)
  <2>1. PICK i \in 1 .. Len(e) : e[i] = u
    BY <1>1, <1>4 DEF In
  <2>2. /\ i + Len(s) \in 1 .. Len(s) + Len(e) /\ ~(i + Len(s) <= Len(s)) /\ (i + Len(s)) - Len(s) = i
    BY <1>1, <2>1
  <2>3. (s \o e)[i + Len(s)] = u
    BY <1>1, <2>1, <2>2
  <2> QED BY <1>1, <2>2, <2>3 DEF In
<1> QED BY <1>2, <1>3, <1>4

LEMMA StdoutFiles ==
  ASSUME OutTypes, FilesOK, NEW m \in MakeProcs, NEW e \in Seq(Texts),
         \A u \in Texts : In(u, e) => Holds(RecursiveJob, u), WriteStdout(m, e)
  PROVE  /\ \A i \in OutJobs : i # RecursiveJob => tmp'[i] = tmp[i]
         /\ tmp' = tmp \/ (m = "sub" /\ to_tmp[RecursiveJob])
         /\ \A u \in Texts : In(u, tmp'[RecursiveJob]) => Holds(RecursiveJob, u)
<1>1. tmp \in [OutJobs -> Seq(Texts)] /\ RecursiveJob \in OutJobs /\ tmp[RecursiveJob] \in Seq(Texts)
  BY OutNames DEF OutTypes
<1>2. \A u \in Texts : In(u, tmp[RecursiveJob]) => Holds(RecursiveJob, u)
  BY <1>1 DEF FilesOK, FileOK
<1>3. \A u \in Texts : In(u, tmp[RecursiveJob] \o e) => Holds(RecursiveJob, u)
  BY <1>1, <1>2, InJoined
<1> QED BY <1>1, <1>2, <1>3 DEF WriteStdout, ToParentTmp

LEMMA FileKept ==
  ASSUME NEW i \in OutJobs, FileOK(i), recipe'[i].at = recipe[i].at, tmp_set'[i] = tmp_set[i],
         to_tmp'[i] = to_tmp[i], syncout'[i] = syncout[i], tmp'[i] = tmp[i],
         \/ /\ doing'[OwnerOf(i)].at = doing[OwnerOf(i)].at
            /\ doing'[OwnerOf(i)].job = doing[OwnerOf(i)].job
         \/ ~WorksFor(OwnerOf(i), i) /\ ~WorksFor(OwnerOf(i), i)'
  PROVE  FileOK(i)'
BY DEF FileOK, WorksFor, Working

LEMMA ParentGrows ==
  ASSUME OutTypes, Control, FilesOK, doing["sub"].at \notin {"none", "exit"}, to_tmp[RecursiveJob],
         recipe'[RecursiveJob].at = recipe[RecursiveJob].at,
         tmp_set'[RecursiveJob] = tmp_set[RecursiveJob], to_tmp'[RecursiveJob] = to_tmp[RecursiveJob],
         doing'["top"] = doing["top"],
         \A u \in Texts : In(u, tmp'[RecursiveJob]) => Holds(RecursiveJob, u)
  PROVE  FileOK(RecursiveJob)'
<1>1. FileOK(RecursiveJob) /\ OwnerOf(RecursiveJob) = "top"
  BY OutNames DEF FilesOK
<1>2. recipe[RecursiveJob].at = "run" /\ ~WorksFor("top", RecursiveJob)
  BY SubMakeWorks
<1>3. ~WorksFor("top", RecursiveJob)'
  BY <1>2 DEF WorksFor, Working
<1> QED BY <1>1, <1>2, <1>3 DEF FileOK

\* A step that only moves make m on, and may write to its standard output.
LEMMA MoveFiles ==
  ASSUME OutTypes, Control, FilesOK, NEW m \in MakeProcs, NEW x, MovesTo(m, x), recipe' = recipe,
         syncout' = syncout, tmp_set' = tmp_set, to_tmp' = to_tmp,
         \A i \in OutJobs : i # RecursiveJob => tmp'[i] = tmp[i],
         tmp' = tmp \/ (m = "sub" /\ to_tmp[RecursiveJob] /\ doing["sub"].at \notin {"none", "exit"}),
         \A u \in Texts : In(u, tmp'[RecursiveJob]) => Holds(RecursiveJob, u),
         \/ ~Working(m) /\ x \in {"idle", "exit"}
         \/ x \in {"enter", "pump"} /\ doing[m].at \in DumpSteps
         \/ Working(m) /\ x = "unlock" /\ tmp[doing[m].job] = << >>
         \/ doing[m].at = "unlock"
  PROVE  FilesOK'
<1>1. /\ doing'[m].at = x /\ doing'[m].job = doing[m].job
      /\ \A n \in MakeProcs : n # m => doing'[n] = doing[n]
  BY DEF MovesTo
<1>2. ASSUME NEW i \in OutJobs, tmp'[i] = tmp[i] PROVE FileOK(i)'
  <2>1. FileOK(i) /\ OwnerOf(i) \in MakeProcs
    BY OutNames DEF FilesOK
  <2>2. CASE OwnerOf(i) # m \/ doing[m].job # i \/ ~Working(m)
    <3>1. \/ /\ doing'[OwnerOf(i)].at = doing[OwnerOf(i)].at
             /\ doing'[OwnerOf(i)].job = doing[OwnerOf(i)].job
          \/ ~WorksFor(OwnerOf(i), i) /\ ~WorksFor(OwnerOf(i), i)'
      BY <1>1, <2>1, <2>2 DEF WorksFor, Working, DumpSteps
    <3> QED BY <1>2, <2>1, <3>1, FileKept
  <2>3. CASE OwnerOf(i) = m /\ doing[m].job = i /\ Working(m)
    <3>1. WorksFor(m, i) /\ doing[m].at # "idle"
      BY <2>3 DEF WorksFor, Working
    <3>2. CASE x \in {"enter", "pump"} /\ doing[m].at \in DumpSteps
      <4>1. WorksFor(m, i)'
        BY <1>1, <2>3, <3>2 DEF WorksFor, Working
      <4> QED BY <1>1, <1>2, <2>1, <2>3, <3>2, <4>1 DEF FileOK, DumpSteps
    <3>3. CASE tmp[i] = << >>
      <4>1. \A u \in Texts : ~In(u, << >>)
        BY DEF In
      <4> QED BY <1>2, <2>1, <3>3, <4>1 DEF FileOK
    <3>4. doing[m].at = "unlock" => tmp[i] = << >>
      BY <2>1, <2>3, <3>1 DEF FileOK
    <3> QED BY <2>3, <3>2, <3>3, <3>4
  <2> QED BY <2>2, <2>3
<1>3. tmp' # tmp => FileOK(RecursiveJob)'
  <2>1. tmp' # tmp => doing'["top"] = doing["top"]
    BY <1>1, OutNames
  <2> QED BY <2>1, ParentGrows
<1> QED BY <1>2, <1>3 DEF FilesOK

LEMMA DumpFiles ==
  ASSUME OutTypes, Control, FilesOK, NEW m \in MakeProcs,
         DumpLock(m) \/ DumpLockFails(m) \/ DumpEnter(m) \/ DumpLeave(m) \/ DumpUnlock(m) \/ MakeDies(m)
  PROVE  FilesOK'
<1>1. PICK x : MovesTo(m, x) /\ recipe' = recipe
               /\ \/ ~Working(m) /\ x \in {"idle", "exit"}
                  \/ x \in {"enter", "pump"} /\ doing[m].at \in DumpSteps
                  \/ Working(m) /\ x = "unlock" /\ tmp[doing[m].job] = << >>
                  \/ doing[m].at = "unlock"
  <2>1. CASE DumpLock(m) \/ DumpLockFails(m)
    BY <2>1, MoveSteps DEF DumpLock, DumpLockFails, DumpSteps
  <2>2. CASE DumpEnter(m)
    BY <2>2, MoveSteps DEF DumpEnter, DumpSteps
  <2>3. CASE DumpLeave(m)
    BY <2>3, MoveSteps DEF DumpLeave
  <2>4. CASE DumpUnlock(m)
    BY <2>4, MoveSteps DEF DumpUnlock
  <2>5. CASE MakeDies(m)
    BY <2>5, MoveSteps DEF Working
  <2> QED BY <2>1, <2>2, <2>3, <2>4, <2>5
<1>2. syncout' = syncout /\ tmp_set' = tmp_set /\ to_tmp' = to_tmp
  BY DEF DumpLock, DumpLockFails, DumpEnter, DumpLeave, DumpUnlock, MakeDies, files
<1>3. doing[m].at \notin {"none", "exit"}
  BY DEF DumpLock, DumpLockFails, DumpEnter, DumpLeave, DumpUnlock, MakeDies
<1>4. /\ \A i \in OutJobs : i # RecursiveJob => tmp'[i] = tmp[i]
      /\ tmp' = tmp \/ (m = "sub" /\ to_tmp[RecursiveJob])
      /\ \A u \in Texts : In(u, tmp'[RecursiveJob]) => Holds(RecursiveJob, u)
  <2>1. CASE tmp' = tmp
    BY <2>1, OutNames DEF FilesOK, FileOK
  <2>2. CASE DumpEnter(m) \/ DumpLeave(m) \/ MakeDies(m)
    <3>1. PICK e : /\ WriteStdout(m, e)
                   /\ e = << >> \/ e = <<Dir("enter")>> \/ e = <<Dir("leave")>>
      BY <2>2 DEF DumpEnter, DumpLeave, MakeDies
    <3>2. /\ Dir("enter") \in Texts /\ Dir("leave") \in Texts
          /\ Holds(RecursiveJob, Dir("enter")) /\ Holds(RecursiveJob, Dir("leave"))
      BY SomeTexts DEF Holds
    <3>3. e \in Seq(Texts) /\ \A u \in Texts : In(u, e) => Holds(RecursiveJob, u)
      <4>1. \A d \in Texts : <<d>> \in Seq(Texts) /\ \A u : In(u, <<d>>) => u = d
        BY DEF In
      <4>2. << >> \in Seq(Texts) /\ \A u : ~In(u, << >>)
        BY DEF In
      <4> QED BY <3>1, <3>2, <4>1, <4>2
    <3> QED BY <3>1, <3>3, StdoutFiles
  <2> QED BY <2>1, <2>2 DEF DumpLock, DumpLockFails, DumpUnlock, files
<1> QED BY <1>1, <1>2, <1>3, <1>4, MoveFiles

LEMMA TextFiles ==
  ASSUME OutTypes, Control, FilesOK, NEW m \in MakeProcs, DumpText(m)
  PROVE  FilesOK'
<1>1. PICK j \in OutJobs : j = doing[m].job
  BY OutFacts
<1>2. /\ doing' = doing /\ recipe' = recipe /\ syncout' = syncout /\ tmp_set' = tmp_set /\ to_tmp' = to_tmp
      /\ doing[m].at = "pump" /\ tmp[j] # << >>
  BY <1>1 DEF DumpText
<1>3. OwnerOf(j) = m /\ tmp[j] \in Seq(Texts)
  BY <1>1, <1>2, OutFacts, OutNames DEF Control, StageOK, Working
<1>4. PICK t : t = Head(tmp[j])
  OBVIOUS
<1>5. /\ t \in Texts /\ Tail(tmp[j]) \in Seq(Texts) /\ In(t, tmp[j])
      /\ \A u : In(u, Tail(tmp[j])) => In(u, tmp[j])
  BY <1>2, <1>3, <1>4, InTail
<1>6. /\ tmp'[j] = Tail(tmp[j])
      /\ \A i \in OutJobs : i # j /\ i # RecursiveJob => tmp'[i] = tmp[i]
      /\ j # RecursiveJob => \/ tmp'[RecursiveJob] = tmp[RecursiveJob]
                             \/ ToParentTmp(m) /\ tmp'[RecursiveJob] = Append(tmp[RecursiveJob], t)
  <2>1. tmp \in [OutJobs -> Seq(Texts)]
    BY DEF OutTypes
  <2>2. CASE ToParentTmp(m)
    <3>1. j # RecursiveJob
      BY <1>3, <2>2, OutNames DEF ToParentTmp
    <3>2. tmp' = [[tmp EXCEPT ![j] = Tail(@)] EXCEPT ![RecursiveJob] = Append(@, t)]
      BY <1>1, <1>4, <2>2 DEF DumpText
    <3> QED BY <2>1, <2>2, <3>1, <3>2, OutNames
  <2>3. CASE ~ToParentTmp(m)
    <3>1. tmp' = [tmp EXCEPT ![j] = Tail(@)]
      BY <1>1, <2>3 DEF DumpText
    <3> QED BY <2>1, <3>1, OutNames
  <2> QED BY <2>2, <2>3
<1>7. FileOK(j)'
  <2>1. FileOK(j)
    BY DEF FilesOK
  <2> QED BY <1>1, <1>2, <1>3, <1>5, <1>6, <2>1 DEF FileOK, WorksFor, Working, DumpSteps
<1>8. ASSUME NEW i \in OutJobs, i # j PROVE FileOK(i)'
  <2>1. CASE tmp'[i] = tmp[i]
    BY <1>2, <2>1, FileKept DEF FilesOK
  <2>2. CASE tmp'[i] # tmp[i]
    <3>1. /\ i = RecursiveJob /\ j # RecursiveJob /\ ToParentTmp(m)
          /\ tmp'[RecursiveJob] = Append(tmp[RecursiveJob], t)
      BY <1>6, <1>8, <2>2
    <3>2. m = "sub" /\ j \in SubJobs /\ to_tmp[RecursiveJob]
      BY <1>3, <3>1, OutNames DEF ToParentTmp
    <3>3. Holds(RecursiveJob, t)
      BY <1>5, <3>2, OutNames DEF FilesOK, FileOK, Holds
    <3>4. \A u \in Texts : In(u, tmp'[RecursiveJob]) => Holds(RecursiveJob, u)
      <4>1. tmp[RecursiveJob] \in Seq(Texts) /\ FileOK(RecursiveJob)
        BY OutFacts, OutNames DEF FilesOK
      <4> QED BY <1>5, <3>1, <3>3, <4>1, InAppended DEF FileOK
    <3> QED BY <1>2, <3>1, <3>2, <3>4, ParentGrows
  <2> QED BY <2>1, <2>2
<1> QED BY <1>7, <1>8 DEF FilesOK

LEMMA StartLineDone ==
  ASSUME OutTypes, Control, NEW m \in MakeProcs, StartLine(m)
  PROVE  /\ recipe' = recipe /\ \A i \in OutJobs : LineBegun(i)' <=> LineBegun(i)
         /\ \E j \in OutJobs, a \in {"echo", "lock"}, synced \in BOOLEAN :
               /\ OwnerOf(j) = m /\ recipe[j].at \in {"new", "ended"} /\ ~LineBegun(j)
               /\ doing[m].at = "idle" \/ (doing[m].at = "next" /\ doing[m].job = j)
               /\ doing'[m].at = a /\ doing'[m].job = j /\ doing'[m].then = "echo"
               /\ \A n \in MakeProcs : n # m => doing'[n] = doing[n]
               /\ synced <=> (output_sync[m] # "none" /\ (output_sync[m] = "recurse" \/ ~IsRecursive(j)))
               /\ syncout'[j] = synced /\ \A i \in OutJobs : i # j => syncout'[i] = syncout[i]
               /\ a = "lock" => ~synced
               /\ a = "echo" /\ ~synced => ~(tmp_set[j] /\ tmp[j] # << >>)
<1>1. PICK j \in RecipesOf(m), a \in {"echo", "lock"} :
               /\ \/ doing[m].at = "idle" /\ recipe[j].at = "new"
                  \/ doing[m].at = "next" /\ doing[m].job = j
               /\ doing' = [doing EXCEPT ![m] = [at |-> a, job |-> j, then |-> "echo"]]
               /\ LET synced == output_sync[m] # "none"
                                   /\ (output_sync[m] = "recurse" \/ ~IsRecursive(j)) IN
                  /\ syncout' = [syncout EXCEPT ![j] = synced]
                  /\ a = "lock" => ~synced
                  /\ a = "echo" /\ ~synced => ~(tmp_set[j] /\ tmp[j] # << >>)
  BY StartLineFacts
<1>2. recipe' = recipe
  BY StartLineFacts
<1>3. ~LineBegun(j) /\ \A i \in OutJobs : LineBegun(i)' <=> LineBegun(i)
  BY <1>1, <1>2, StartLineControl
<1>4. j \in OutJobs /\ OwnerOf(j) = m
  BY OutNames
<1>5. recipe[j].at \in {"new", "ended"}
  BY <1>1, <1>4 DEF Control, StageOK, Working
<1>6. /\ doing'[m].at = a /\ doing'[m].job = j /\ doing'[m].then = "echo"
      /\ \A n \in MakeProcs : n # m => doing'[n] = doing[n]
  BY <1>1 DEF OutTypes
<1>7. PICK synced \in BOOLEAN :
         synced <=> (output_sync[m] # "none" /\ (output_sync[m] = "recurse" \/ ~IsRecursive(j)))
  OBVIOUS
<1>8. syncout'[j] = synced /\ \A i \in OutJobs : i # j => syncout'[i] = syncout[i]
  BY <1>1, <1>4, <1>7 DEF OutTypes
<1> QED BY <1>1, <1>2, <1>3, <1>4, <1>5, <1>6, <1>7, <1>8

LEMMA StartLineFiles ==
  ASSUME OutTypes, Control, FilesOK, NEW m \in MakeProcs, StartLine(m)
  PROVE  FilesOK'
<1>1. PICK j \in OutJobs, a \in {"echo", "lock"}, synced \in BOOLEAN :
               /\ OwnerOf(j) = m /\ recipe[j].at \in {"new", "ended"}
               /\ doing[m].at = "idle" \/ (doing[m].at = "next" /\ doing[m].job = j)
               /\ doing'[m].at = a /\ doing'[m].job = j
               /\ \A n \in MakeProcs : n # m => doing'[n] = doing[n]
               /\ syncout'[j] = synced /\ \A i \in OutJobs : i # j => syncout'[i] = syncout[i]
               /\ a = "echo" /\ ~synced => ~(tmp_set[j] /\ tmp[j] # << >>)
  BY StartLineDone
<1>2. recipe' = recipe /\ tmp' = tmp /\ tmp_set' = tmp_set /\ to_tmp' = to_tmp
  BY DEF StartLine, files
<1>3. FileOK(j)'
  BY <1>1, <1>2 DEF FilesOK, FileOK, WorksFor, Working
<1>4. ASSUME NEW i \in OutJobs, i # j PROVE FileOK(i)'
  <2>1. \/ /\ doing'[OwnerOf(i)].at = doing[OwnerOf(i)].at
           /\ doing'[OwnerOf(i)].job = doing[OwnerOf(i)].job
        \/ ~WorksFor(OwnerOf(i), i) /\ ~WorksFor(OwnerOf(i), i)'
    BY <1>1, <1>4, OutNames DEF WorksFor, Working
  <2> QED BY <1>1, <1>2, <1>4, <2>1, FileKept DEF FilesOK
<1> QED BY <1>3, <1>4 DEF FilesOK

LEMMA ReapFiles ==
  ASSUME OutTypes, Control, FilesOK, NEW m \in MakeProcs, Reap(m)
  PROVE  FilesOK'
<1>1. PICK j \in OutJobs, a \in {"lock", "next", "idle"} :
               /\ OwnerOf(j) = m /\ recipe[j].at = "ended"
               /\ \A i \in OutJobs : i # j => recipe'[i] = recipe[i]
               /\ doing'[m].at = a /\ doing'[m].job = j
               /\ \A n \in MakeProcs : n # m => doing'[n] = doing[n]
               /\ \/ recipe'[j].at = "ended" /\ a \in {"lock", "next"}
                  \/ /\ recipe'[j].at = "done" /\ a \in {"lock", "idle"}
                     /\ a = "idle" => ~(tmp_set[j] /\ tmp[j] # << >>)
  BY ReapFacts
<1>2. doing[m].at = "idle" /\ syncout' = syncout /\ tmp' = tmp /\ tmp_set' = tmp_set /\ to_tmp' = to_tmp
  BY DEF Reap, files
<1>3. FileOK(j)'
  BY <1>1, <1>2 DEF FilesOK, FileOK, WorksFor, Working, DumpSteps
<1>4. ASSUME NEW i \in OutJobs, i # j PROVE FileOK(i)'
  <2>1. \/ /\ doing'[OwnerOf(i)].at = doing[OwnerOf(i)].at
           /\ doing'[OwnerOf(i)].job = doing[OwnerOf(i)].job
        \/ ~WorksFor(OwnerOf(i), i) /\ ~WorksFor(OwnerOf(i), i)'
    BY <1>1, <1>2, <1>4, OutNames DEF WorksFor, Working
  <2> QED BY <1>1, <1>2, <1>4, <2>1, FileKept DEF FilesOK
<1> QED BY <1>3, <1>4 DEF FilesOK

LEMMA EndFiles ==
  ASSUME OutTypes, Control, FilesOK, NEW j \in OutJobs, recipe[j].at = "run", doing' = doing,
         recipe' = [recipe EXCEPT ![j].at = "ended"], syncout' = syncout, tmp_set' = tmp_set,
         to_tmp' = to_tmp, tmp'[j] = tmp[j] \/ to_tmp[j],
         \A u \in Texts : In(u, tmp'[j]) => Holds(j, u),
         \A i \in OutJobs : i # j => \/ tmp'[i] = tmp[i]
                                     \/ i = RecursiveJob /\ j \in SubJobs /\ to_tmp[RecursiveJob],
         \A u \in Texts : In(u, tmp'[RecursiveJob]) => Holds(RecursiveJob, u)
  PROVE  FilesOK'
<1>1. recipe'[j].at = "ended" /\ \A i \in OutJobs : i # j => recipe'[i] = recipe[i]
  BY DEF OutTypes, Recipes
<1>2. ~WorksFor(OwnerOf(j), j) /\ OwnerOf(j) \in MakeProcs
  <2>1. StageOK(OwnerOf(j)) /\ doing[OwnerOf(j)].then \in Steps
    BY OutNames, OutFacts DEF Control
  <2> QED BY <2>1, OutNames DEF StageOK, WorksFor, Steps
<1>3. FileOK(j)'
  <2>1. FileOK(j)
    BY DEF FilesOK
  <2> QED BY <1>1, <1>2, <2>1 DEF FileOK, WorksFor, Working
<1>4. ASSUME NEW i \in OutJobs, i # j PROVE FileOK(i)'
  <2>1. CASE tmp'[i] = tmp[i]
    BY <1>1, <1>4, <2>1, FileKept DEF FilesOK
  <2>2. CASE tmp'[i] # tmp[i]
    <3>1. i = RecursiveJob /\ j \in SubJobs /\ to_tmp[RecursiveJob]
      BY <1>4, <2>2
    <3>2. doing["sub"].at \notin {"none", "exit"}
      BY <3>1, Works
    <3> QED BY <1>1, <1>4, <3>1, <3>2, ParentGrows
  <2> QED BY <2>1, <2>2
<1> QED BY <1>3, <1>4 DEF FilesOK

LEMMA CommandFiles ==
  ASSUME OutTypes, Control, FilesOK, NEW j \in OutJobs, CommandWrites(j)
  PROVE  FilesOK'
<1>1. PICK t : t = Text(j, "text")
  OBVIOUS
<1>2. /\ recipe[j].at = "run" /\ doing' = doing /\ recipe' = [recipe EXCEPT ![j].at = "ended"]
      /\ syncout' = syncout /\ tmp_set' = tmp_set /\ to_tmp' = to_tmp
  BY DEF CommandWrites
<1>3. t \in Texts /\ t.job = j /\ <<t>> \in Seq(Texts) /\ Holds(j, t) /\ OwnerOf(j) \in MakeProcs
  BY <1>1, SomeTexts, OutNames DEF Holds
<1>4. \A i \in OutJobs : tmp[i] \in Seq(Texts) /\ \A u \in Texts : In(u, tmp[i]) => Holds(i, u)
  BY OutFacts DEF FilesOK, FileOK
<1>5. CASE to_tmp[j]
  <2>1. tmp'[j] = Append(tmp[j], t) /\ \A i \in OutJobs : i # j => tmp'[i] = tmp[i]
    <3>1. tmp' = [tmp EXCEPT ![j] = Append(@, t)]
      BY <1>1, <1>5 DEF CommandWrites
    <3> QED BY <3>1 DEF OutTypes
  <2>2. \A u \in Texts : In(u, tmp'[j]) => Holds(j, u)
    BY <1>3, <1>4, <2>1, InAppended
  <2>3. \A u \in Texts : In(u, tmp'[RecursiveJob]) => Holds(RecursiveJob, u)
    <3>1. CASE j = RecursiveJob
      BY <2>2, <3>1
    <3>2. CASE j # RecursiveJob
      <4>1. tmp'[RecursiveJob] = tmp[RecursiveJob] /\ RecursiveJob \in OutJobs
        BY <2>1, <3>2, OutNames
      <4> QED BY <1>4, <4>1
    <3> QED BY <3>1, <3>2
  <2> QED BY <1>2, <1>5, <2>1, <2>2, <2>3, EndFiles
<1>6. CASE ~to_tmp[j] /\ OwnerOf(j) = "sub"
  <2>1. j \in SubJobs /\ j # RecursiveJob /\ WriteStdout("sub", <<t>>) /\ "sub" \in MakeProcs
    BY <1>1, <1>6, OutNames DEF CommandWrites
  <2>2. \A u \in Texts : In(u, <<t>>) => Holds(RecursiveJob, u)
    BY <1>3, <2>1 DEF In, Holds
  <2>3. /\ \A i \in OutJobs : i # RecursiveJob => tmp'[i] = tmp[i]
        /\ tmp' = tmp \/ to_tmp[RecursiveJob]
        /\ \A u \in Texts : In(u, tmp'[RecursiveJob]) => Holds(RecursiveJob, u)
    BY <1>3, <2>1, <2>2, StdoutFiles
  <2>4. \A u \in Texts : In(u, tmp'[j]) => Holds(j, u)
    BY <1>4, <2>1, <2>3
  <2>5. \A i \in OutJobs : i # j => \/ tmp'[i] = tmp[i]
                                    \/ i = RecursiveJob /\ j \in SubJobs /\ to_tmp[RecursiveJob]
    BY <2>1, <2>3
  <2> QED BY <1>2, <2>1, <2>3, <2>4, <2>5, EndFiles
<1>7. CASE ~to_tmp[j] /\ OwnerOf(j) # "sub"
  <2>1. tmp' = tmp
    BY <1>7 DEF CommandWrites, WriteStdout, ToParentTmp
  <2> QED BY <1>2, <1>4, <2>1, EndFiles, OutNames
<1> QED BY <1>5, <1>6, <1>7

\* What StartCommand does to the files: e is what make prints first.
LEMMA StartTmp ==
  ASSUME OutTypes, NEW m \in MakeProcs, NEW j \in OutJobs, OwnerOf(j) = m, NEW set \in BOOLEAN, NEW sync,
         NEW again \in BOOLEAN, StartCommand(m, j, set, sync, again), NEW t, t = Text(j, "echo"),
         NEW e, e = Entering(m, sync)
  PROVE  /\ t \in Texts /\ t.job = j /\ e \in Seq(Texts) /\ (e = << >> \/ e = <<Dir("enter")>>)
         /\ m = "top" => e = << >>
         /\ to_tmp'[j] = again /\ tmp_set'[j] = (again \/ tmp_set[j])
         /\ \A i \in OutJobs : i # j => to_tmp'[i] = to_tmp[i] /\ tmp_set'[i] = tmp_set[i]
         /\ \A i \in OutJobs : i # j /\ i # RecursiveJob => tmp'[i] = tmp[i]
         /\ tmp'[j] = IF set THEN Append(tmp[j], t) ELSE tmp[j]
         /\ ~ToParentTmp(m) =>
               /\ screen' = IF set THEN screen \o e ELSE screen \o Append(e, t)
               /\ j # RecursiveJob => tmp'[RecursiveJob] = tmp[RecursiveJob]
         /\ ToParentTmp(m) =>
               /\ screen' = screen /\ m = "sub" /\ j \in SubJobs /\ j # RecursiveJob
               /\ tmp'[RecursiveJob] = IF set THEN tmp[RecursiveJob] \o e
                                       ELSE tmp[RecursiveJob] \o Append(e, t)
<1>1. /\ tmp \in [OutJobs -> Seq(Texts)] /\ t \in Texts /\ t.job = j /\ e \in Seq(Texts)
      /\ e = << >> \/ e = <<Dir("enter")>>
      /\ m = "top" => e = << >>
      /\ RecursiveJob \in OutJobs
  BY SomeTexts, DirTexts, OutNames DEF OutTypes, Entering, should_print_dir
<1>2. /\ to_tmp' = [to_tmp EXCEPT ![j] = again] /\ tmp_set' = [tmp_set EXCEPT ![j] = again \/ @]
  BY DEF StartCommand
<1>3. /\ to_tmp'[j] = again /\ tmp_set'[j] = (again \/ tmp_set[j])
      /\ \A i \in OutJobs : i # j => to_tmp'[i] = to_tmp[i] /\ tmp_set'[i] = tmp_set[i]
  BY <1>2 DEF OutTypes
<1>4. ToParentTmp(m) => m = "sub" /\ j \in SubJobs /\ j # RecursiveJob
  BY OutNames DEF ToParentTmp
<1>5. CASE set /\ ToParentTmp(m)
  <2>1. screen' = screen
        /\ tmp' = [[tmp EXCEPT ![j] = Append(@, t)] EXCEPT ![RecursiveJob] = @ \o e]
    BY <1>5 DEF StartCommand
  <2> QED BY <1>1, <1>3, <1>4, <1>5, <2>1
<1>6. CASE set /\ ~ToParentTmp(m)
  <2>1. screen' = screen \o e /\ tmp' = [tmp EXCEPT ![j] = Append(@, t)]
    BY <1>6 DEF StartCommand
  <2> QED BY <1>1, <1>3, <1>6, <2>1
<1>7. CASE ~set /\ ToParentTmp(m)
  <2>1. screen' = screen /\ tmp' = [tmp EXCEPT ![RecursiveJob] = @ \o Append(e, t)]
    BY <1>7 DEF StartCommand, WriteStdout
  <2> QED BY <1>1, <1>3, <1>4, <1>7, <2>1
<1>8. CASE ~set /\ ~ToParentTmp(m)
  <2>1. screen' = screen \o Append(e, t) /\ tmp' = tmp
    BY <1>8 DEF StartCommand, WriteStdout
  <2> QED BY <1>1, <1>3, <1>8, <2>1
<1> QED BY <1>5, <1>6, <1>7, <1>8

LEMMA StartFiles ==
  ASSUME OutTypes, Control, FilesOK, NEW m \in MakeProcs, Echo(m) \/ EchoWithoutTmpfile(m)
  PROVE  FilesOK'
<1>1. PICK j \in OutJobs, set \in BOOLEAN, again \in BOOLEAN, sync \in {mode, "none"} :
            /\ doing[m].at = "echo" /\ j = doing[m].job
            /\ StartCommand(m, j, set, sync, again)
            /\ \/ Echo(m) /\ set = syncout[j] /\ sync = output_sync[m] /\ again = syncout[j]
               \/ EchoWithoutTmpfile(m) /\ set = FALSE /\ sync = "none" /\ ~tmp_set[j]
  BY EchoFacts
<1>2. /\ OwnerOf(j) = m /\ recipe'[j].at = "run"
      /\ \A i \in OutJobs : i # j => recipe'[i] = recipe[i]
      /\ doing'[m].at = "idle"
      /\ \A n \in MakeProcs : n # m => /\ doing'[n].at \in {doing[n].at, "start"}
                                       /\ doing'[n].job = doing[n].job
      /\ \A n \in MakeProcs : n # m /\ doing'[n].at = "start" /\ doing[n].at # "start" =>
                doing[n].at = "none"
  <2>1. doing[m].at = "echo" /\ j = doing[m].job /\ StartCommand(m, j, set, sync, again)
    BY <1>1
  <2>2. Started(m, j)
    BY <2>1, StartControl
  <2> QED BY <2>2 DEF Started
<1>3. syncout' = syncout
  BY <1>1 DEF Echo, EchoWithoutTmpfile
<1>4. (set => again) /\ (~set => tmp[j] = << >>)
  <2>1. FileOK(j) /\ WorksFor(OwnerOf(j), j)
    BY <1>1, <1>2 DEF FilesOK, WorksFor, Working
  <2> QED BY <1>1, <1>2, <2>1 DEF FileOK
<1>5. PICK t, e : t = Text(j, "echo") /\ e = Entering(m, sync)
  OBVIOUS
<1>6. /\ t \in Texts /\ t.job = j /\ e \in Seq(Texts) /\ (e = << >> \/ e = <<Dir("enter")>>)
      /\ to_tmp'[j] = again /\ tmp_set'[j] = (again \/ tmp_set[j])
      /\ \A i \in OutJobs : i # j => to_tmp'[i] = to_tmp[i] /\ tmp_set'[i] = tmp_set[i]
      /\ \A i \in OutJobs : i # j /\ i # RecursiveJob => tmp'[i] = tmp[i]
      /\ tmp'[j] = IF set THEN Append(tmp[j], t) ELSE tmp[j]
      /\ ~ToParentTmp(m) => (j # RecursiveJob => tmp'[RecursiveJob] = tmp[RecursiveJob])
      /\ ToParentTmp(m) =>
               /\ m = "sub" /\ j \in SubJobs /\ j # RecursiveJob
               /\ tmp'[RecursiveJob] = IF set THEN tmp[RecursiveJob] \o e
                                       ELSE tmp[RecursiveJob] \o Append(e, t)
  BY <1>1, <1>2, <1>5, StartTmp
<1>7. FileOK(j)'
  <2>1. FileOK(j) /\ tmp[j] \in Seq(Texts)
    BY OutFacts DEF FilesOK
  <2>2. \A u \in Texts : In(u, tmp'[j]) => Holds(j, u)
    BY <1>6, <2>1, InAppended DEF FileOK, Holds
  <2>3. ~WorksFor(OwnerOf(j), j)'
    BY <1>2 DEF WorksFor, Working
  <2>4. set => tmp'[j] # << >>
    BY <1>6, <2>1, Appended
  <2> QED BY <1>2, <1>4, <1>6, <2>1, <2>2, <2>3 DEF FileOK
<1>8. ASSUME NEW i \in OutJobs, i # j PROVE FileOK(i)'
  <2>1. CASE tmp'[i] = tmp[i]
    <3>1. \/ /\ doing'[OwnerOf(i)].at = doing[OwnerOf(i)].at
             /\ doing'[OwnerOf(i)].job = doing[OwnerOf(i)].job
          \/ ~WorksFor(OwnerOf(i), i) /\ ~WorksFor(OwnerOf(i), i)'
      <4>1. OwnerOf(i) \in MakeProcs
        BY OutNames
      <4>2. CASE OwnerOf(i) = m
        BY <1>1, <1>2, <1>8, <4>2 DEF WorksFor, Working
      <4>3. CASE OwnerOf(i) # m
        BY <1>2, <4>1, <4>3 DEF WorksFor, Working
      <4> QED BY <4>2, <4>3
    <3> QED BY <1>2, <1>3, <1>6, <1>8, <2>1, <3>1, FileKept DEF FilesOK
  <2>2. CASE tmp'[i] # tmp[i]
    <3>1. i = RecursiveJob /\ j # RecursiveJob /\ ToParentTmp(m)
      BY <1>6, <1>8, <2>2
    <3>2. /\ m = "sub" /\ j \in SubJobs /\ to_tmp[RecursiveJob]
          /\ tmp'[RecursiveJob] = IF set THEN tmp[RecursiveJob] \o e
                                  ELSE tmp[RecursiveJob] \o Append(e, t)
      BY <1>6, <3>1 DEF ToParentTmp
    <3>3. doing'["top"] = doing["top"]
      <4>1. doing' = [doing EXCEPT ![m] = IdleMake,
                        !["sub"] = IF IsRecursive(j) THEN [@ EXCEPT !.at = "start"]
                                   ELSE IF m = "sub" THEN IdleMake ELSE @]
        BY <1>1 DEF StartCommand
      <4> QED BY <3>2, <4>1, OutNames DEF OutTypes
    <3>4. \A u \in Texts : In(u, tmp'[RecursiveJob]) => Holds(RecursiveJob, u)
      <4>1. tmp[RecursiveJob] \in Seq(Texts) /\ FileOK(RecursiveJob) /\ Append(e, t) \in Seq(Texts)
        BY <1>6, OutFacts, OutNames, Appended DEF FilesOK
      <4>2. \A u : In(u, e) => u = Dir("enter")
        BY <1>6 DEF In
      <4>3. Holds(RecursiveJob, Dir("enter")) /\ Holds(RecursiveJob, t)
        BY <1>6, <3>2, SomeTexts DEF Holds
      <4>4. \A u : In(u, Append(e, t)) => u = Dir("enter") \/ u = t
        BY <1>6, <4>2, InAppended
      <4>5. \A u \in Texts : In(u, tmp[RecursiveJob] \o e) \/ In(u, tmp[RecursiveJob] \o Append(e, t))
                => In(u, tmp[RecursiveJob]) \/ u = Dir("enter") \/ u = t
        BY <1>6, <4>1, <4>2, <4>4, InJoined
      <4> QED BY <3>2, <4>1, <4>3, <4>5 DEF FileOK
    <3>5. doing["sub"].at \notin {"none", "exit"}
      BY <1>1, <3>2
    <3> QED BY <1>2, <1>6, <3>1, <3>2, <3>3, <3>4, <3>5, ParentGrows
  <2> QED BY <2>1, <2>2
<1> QED BY <1>7, <1>8 DEF FilesOK

LEMMA FilesStay ==
  ASSUME OutTypes, Control, FilesOK, OutNext
  PROVE  FilesOK'
<1>1. ASSUME SubMakeEnds PROVE FilesOK'
  <2>1. /\ recipe[RecursiveJob].at = "run" /\ doing' = doing
        /\ recipe' = [recipe EXCEPT ![RecursiveJob].at = "ended"] /\ syncout' = syncout
        /\ tmp_set' = tmp_set /\ to_tmp' = to_tmp /\ tmp' = tmp
    BY <1>1 DEF SubMakeEnds, files
  <2>2. \A u \in Texts : In(u, tmp'[RecursiveJob]) => Holds(RecursiveJob, u)
    BY <2>1, OutNames DEF FilesOK, FileOK
  <2> QED BY <2>1, <2>2, EndFiles, OutNames
<1>2. ASSUME SubMakeStarts PROVE FilesOK'
  <2>1. PICK x \in {"idle", "exit"} : MovesTo("sub", x) /\ recipe' = recipe /\ doing["sub"].at = "start"
    BY <1>2, MoveSteps, OutNames
  <2>2. syncout' = syncout /\ tmp_set' = tmp_set /\ to_tmp' = to_tmp /\ tmp' = tmp
    BY <1>2 DEF SubMakeStarts, files
  <2>3. \A u \in Texts : In(u, tmp'[RecursiveJob]) => Holds(RecursiveJob, u)
    BY <2>2, OutNames DEF FilesOK, FileOK
  <2>4. ~Working("sub") /\ "sub" \in MakeProcs
    BY <2>1, OutNames DEF Working
  <2> QED BY <2>1, <2>2, <2>3, <2>4, MoveFiles
<1> QED BY <1>1, <1>2, DumpFiles, TextFiles, StartLineFiles, ReapFiles, CommandFiles, StartFiles
        DEF OutNext, output_dump

----------------------------------------------------------------------------
\* The lock.
LEMMA DumpMoves ==
  ASSUME OutTypes, Control, LockOK, NEW m \in MakeProcs,
         DumpLock(m) \/ DumpEnter(m) \/ DumpLeave(m) \/ DumpUnlock(m)
  PROVE  LockOK'
<1>1. PICK x : MovesTo(m, x) /\ recipe' = recipe /\ x \in DumpSteps \cup Steps
               /\ Working(m) /\ doing[m].at \in DumpSteps
               /\ (Dumping(m) \/ (DumpLock(m) /\ x = "enter"))
               /\ (DumpUnlock(m) => x \in Steps)
  <2>1. doing[m].then \in Steps
    BY OutFacts
  <2>2. CASE DumpLock(m)
    BY <2>2, MoveSteps DEF DumpLock, DumpSteps, DumpUnlock
  <2>3. CASE DumpEnter(m)
    BY <2>3, MoveSteps DEF DumpEnter, DumpSteps, DumpUnlock, Dumping
  <2>4. CASE DumpLeave(m)
    BY <2>4, MoveSteps DEF DumpLeave, DumpSteps, DumpUnlock, Dumping
  <2>5. CASE DumpUnlock(m)
    BY <2>1, <2>5, MoveSteps DEF DumpUnlock, DumpSteps, Dumping
  <2> QED BY <2>2, <2>3, <2>4, <2>5
<1>2. /\ doing'[m].at = x /\ doing'[m].job = doing[m].job /\ doing'[m].then = doing[m].then
      /\ \A n \in MakeProcs : n # m => doing'[n] = doing[n]
  BY <1>1 DEF MovesTo
<1>3. /\ mode' = mode /\ output_sync' = output_sync /\ osync_handle' = osync_handle
      /\ mutex_file' = mutex_file /\ faults' = faults /\ syncout' = syncout /\ to_tmp' = to_tmp
      /\ traced' = traced
  BY DEF DumpLock, DumpEnter, DumpLeave, DumpUnlock, files, locking
<1>4. ASSUME NEW n \in MakeProcs PROVE DumpOK(n)'
  BY <1>1, <1>2, <1>3, <1>4 DEF LockOK, DumpOK
<1>5. GivenUpOK'
  <2>1. \A n \in {"top", "sub"} : /\ doing'[n].at = "exit" => doing[n].at = "exit"
                                  /\ doing[n].at = "exit" => doing'[n].at = "exit"
    BY <1>1, <1>2, OutNames DEF DumpSteps, Steps, Working
  <2> QED BY <1>1, <1>3, <2>1 DEF LockOK, GivenUpOK
<1>6. ASSUME faults = 0, NEW n \in MakeProcs PROVE HeldOK(n)'
  <2>1. HeldOK(n) /\ HeldOK(m)
    BY <1>6 DEF LockOK
  <2>2. doing'[n].job = doing[n].job /\ doing'[n].then = doing[n].then
    BY <1>2
  <2>3. doing'[n].at \notin {"none", "start", "exit"} => osync_handle'[n]
    BY <1>1, <1>2, <1>3, <2>1 DEF HeldOK, Working
  <2>4. Dumping(n)' => lock' = n
    <3>1. CASE DumpLock(m)
      <4>1. osync_handle[m] /\ lock = "none" /\ lock' = m
        BY <2>1, <3>1 DEF HeldOK, DumpLock, osync_acquire
      <4>2. n # m => ~Dumping(n)
        BY <2>1, <4>1, OutNames DEF HeldOK
      <4> QED BY <1>2, <4>1, <4>2 DEF Dumping
    <3>2. CASE DumpEnter(m) \/ DumpLeave(m)
      <4>1. lock' = lock /\ Dumping(m)
        BY <1>1, <3>2 DEF DumpEnter, DumpLeave, locking, DumpLock
      <4> QED BY <1>2, <2>1, <4>1 DEF HeldOK, Dumping
    <3>3. CASE DumpUnlock(m)
      <4>1. lock = m /\ n # m => ~Dumping(n)
        BY <2>1 DEF HeldOK
      <4>2. lock = m /\ doing'[m].at \in Steps
        BY <1>1, <1>2, <2>1, <3>3 DEF HeldOK, DumpUnlock, Dumping
      <4> QED BY <1>2, <4>1, <4>2 DEF Dumping, Steps
    <3> QED BY <3>1, <3>2, <3>3
  <2> QED BY <1>1, <1>3, <2>1, <2>2, <2>3, <2>4 DEF HeldOK, Wished, IsRecursive
<1>7. faults = 0 => SyncedOK'
  BY <1>1, <1>3 DEF LockOK, SyncedOK, Wished, IsRecursive
<1> QED BY <1>3, <1>4, <1>5, <1>6, <1>7 DEF LockOK

\* A make gives up syncing when a call fails.
LEMMA FailLock ==
  ASSUME OutTypes, Control, LockOK, Advances, NEW m \in MakeProcs, DumpLockFails(m) \/ EchoWithoutTmpfile(m)
  PROVE  LockOK'
<1>1. osync_clear(m) /\ faults' = faults + 1 /\ faults \in Nat /\ mode' = mode /\ syncout' = syncout
  BY DEF DumpLockFails, EchoWithoutTmpfile, OutTypes, StartCommand
<1>2. /\ \A n \in MakeProcs : doing'[n].at \in DumpSteps =>
            /\ doing[n].at \in DumpSteps /\ doing'[n].then = doing[n].then
            /\ doing'[n].job = doing[n].job
      /\ \A n \in MakeProcs : doing'[n].at = "exit" => doing[n].at = "exit"
  <2>1. CASE DumpLockFails(m)
    <3>1. MovesTo(m, "enter") /\ doing[m].at \in DumpSteps
      BY <2>1, MoveSteps DEF DumpLockFails, DumpSteps
    <3> QED BY <3>1 DEF MovesTo
  <2>2. CASE EchoWithoutTmpfile(m)
    <3>1. PICK j, set, sync, again : doing[m].at = "echo" /\ j = doing[m].job /\ StartCommand(m, j, set, sync, again)
      BY <2>2 DEF EchoWithoutTmpfile
    <3>2. Started(m, j)
      BY <3>1, StartControl
    <3> QED BY <3>2 DEF Started, DumpSteps
  <2> QED BY <2>1, <2>2
<1>3. \A n \in MakeProcs : DumpOK(n)'
  BY <1>1, <1>2 DEF LockOK, DumpOK
<1>4. osync_handle' = [osync_handle EXCEPT ![m] = FALSE] /\ mutex_file' = (mutex_file /\ m # "top")
  BY <1>1 DEF osync_clear
<1>5. (osync_handle'["top"] <=> mutex_file')
  BY <1>4, OutNames DEF LockOK, GivenUpOK, OutTypes
<1>6. GivenUpOK'
  BY <1>1, <1>2, <1>4, <1>5, OutNames DEF LockOK, GivenUpOK, Advances
<1> QED BY <1>1, <1>3, <1>6 DEF LockOK

LEMMA StartLineLock ==
  ASSUME OutTypes, Control, LockOK, NEW m \in MakeProcs, StartLine(m)
  PROVE  LockOK'
<1>1. PICK j \in OutJobs, a \in {"echo", "lock"}, synced \in BOOLEAN :
               /\ OwnerOf(j) = m /\ recipe[j].at \in {"new", "ended"} /\ ~LineBegun(j)
               /\ doing[m].at = "idle" \/ (doing[m].at = "next" /\ doing[m].job = j)
               /\ doing'[m].at = a /\ doing'[m].job = j /\ doing'[m].then = "echo"
               /\ \A n \in MakeProcs : n # m => doing'[n] = doing[n]
               /\ synced <=> (output_sync[m] # "none" /\ (output_sync[m] = "recurse" \/ ~IsRecursive(j)))
               /\ syncout'[j] = synced /\ \A i \in OutJobs : i # j => syncout'[i] = syncout[i]
               /\ a = "lock" => ~synced
               /\ a = "echo" /\ ~synced => ~(tmp_set[j] /\ tmp[j] # << >>)
  BY StartLineDone
<1>2. /\ recipe' = recipe /\ mode' = mode /\ output_sync' = output_sync /\ osync_handle' = osync_handle
      /\ mutex_file' = mutex_file /\ lock' = lock /\ faults' = faults /\ to_tmp' = to_tmp /\ traced' = traced
  BY DEF StartLine, files, locking
<1>3. ASSUME NEW n \in MakeProcs, n # m, Working(n) PROVE syncout'[doing[n].job] = syncout[doing[n].job]
  <2>1. OwnerOf(doing[n].job) = n /\ doing[n].job \in OutJobs
    BY <1>3, OutFacts DEF Control, StageOK
  <2> QED BY <1>1, <1>3, <2>1
<1>4. ASSUME NEW n \in MakeProcs PROVE DumpOK(n)'
  <2>1. doing[n].at \in DumpSteps => Working(n)
    BY DEF DumpSteps, Working
  <2>2. CASE n = m
    <3>1. doing'[n].then = "echo" /\ doing'[n].job = j
      BY <1>1, <2>2
    <3>2. doing'[n].at \in DumpSteps => ~syncout'[j]
      BY <1>1, <2>2 DEF DumpSteps
    <3> QED BY <3>1, <3>2 DEF DumpOK
  <2>3. CASE n # m
    <3>1. doing'[n] = doing[n] /\ DumpOK(n)
      BY <1>1, <1>4, <2>3 DEF LockOK
    <3>2. doing[n].at \in DumpSteps => syncout'[doing[n].job] = syncout[doing[n].job]
      BY <1>3, <1>4, <2>1, <2>3
    <3> QED BY <1>2, <3>1, <3>2 DEF DumpOK
  <2> QED BY <2>2, <2>3
<1>5. GivenUpOK'
  BY <1>1, <1>2, OutNames DEF LockOK, GivenUpOK
<1>6. ASSUME faults = 0, NEW n \in MakeProcs PROVE HeldOK(n)'
  <2>1. HeldOK(n) /\ HeldOK(m)
    BY <1>6 DEF LockOK
  <2>2. CASE n = m
    <3>1. synced <=> Wished(j)
      BY <1>1, <2>1 DEF HeldOK, Wished, OutTypes
    <3>2. Wished(j)' <=> Wished(j)
      BY <1>2 DEF Wished, IsRecursive
    <3> QED BY <1>1, <1>2, <2>1, <2>2, <3>1, <3>2 DEF HeldOK, Dumping
  <2>3. CASE n # m
    <3>1. doing[n].then = "echo" => Working(n)
      BY DEF Control, StageOK
    <3> QED BY <1>1, <1>2, <1>3, <2>1, <2>3, <3>1 DEF HeldOK, Dumping, Wished, IsRecursive
  <2> QED BY <2>2, <2>3
<1>7. faults = 0 => SyncedOK'
  BY <1>2 DEF LockOK, SyncedOK, Wished, IsRecursive
<1> QED BY <1>2, <1>4, <1>5, <1>6, <1>7 DEF LockOK

LEMMA EchoLock ==
  ASSUME OutTypes, Control, LockOK, NEW m \in MakeProcs, Echo(m)
  PROVE  LockOK'
<1>1. PICK j \in OutJobs : /\ doing[m].at = "echo" /\ j = doing[m].job
                           /\ StartCommand(m, j, syncout[j], output_sync[m], syncout[j])
  BY OutFacts DEF Echo
<1>2. Started(m, j)
  BY <1>1, StartControl
<1>3. /\ mode' = mode /\ output_sync' = output_sync /\ osync_handle' = osync_handle /\ syncout' = syncout
      /\ mutex_file' = mutex_file /\ lock' = lock /\ faults' = faults
  BY DEF Echo, StartCommand, locking
<1>4. to_tmp'[j] = syncout[j] /\ \A i \in OutJobs : i # j => to_tmp'[i] = to_tmp[i]
  BY <1>1 DEF StartCommand, OutTypes
<1>5. /\ \A i \in OutJobs : recipe'[i].line = recipe[i].line
      /\ \A i \in OutJobs : recipe'[i].at = "new" => recipe[i].at = "new"
  BY <1>2 DEF Started
<1>6. \A i \in OutJobs : Wished(i)' <=> Wished(i)
  BY <1>3, <1>5 DEF Wished, IsRecursive
<1>7. ASSUME NEW n \in MakeProcs PROVE DumpOK(n)'
  <2>1. doing'[n].at \in DumpSteps => /\ doing'[n].at = doing[n].at /\ doing'[n].job = doing[n].job
                                      /\ doing'[n].then = doing[n].then
    BY <1>2 DEF Started, DumpSteps
  <2> QED BY <1>3, <2>1 DEF LockOK, DumpOK
<1>8. GivenUpOK'
  <2>1. doing'["sub"].at = "exit" => doing["sub"].at = "exit"
    BY <1>2, OutNames DEF Started
  <2>2. doing["top"].at # "exit" \/ doing'["top"].at = "exit"
    BY <1>1, <1>2, OutNames DEF Started, Control, SubOK
  <2> QED BY <1>3, <1>5, <2>1, <2>2, OutNames DEF LockOK, GivenUpOK
<1>9. ASSUME faults = 0, NEW n \in MakeProcs PROVE HeldOK(n)'
  <2>1. HeldOK(n) /\ HeldOK(m)
    BY <1>9 DEF LockOK
  <2>2. CASE n = m
    BY <1>1, <1>2, <1>3, <2>1, <2>2 DEF HeldOK, Dumping, Started
  <2>3. CASE n # m
    <3>1. doing'[n].then = doing[n].then /\ doing'[n].job = doing[n].job
          /\ doing'[n].at \in {doing[n].at, "start"} /\ doing[n].job \in OutJobs
      BY <1>2, <2>3, OutFacts DEF Started
    <3> QED BY <1>3, <1>6, <2>1, <3>1 DEF HeldOK, Dumping
  <2> QED BY <2>2, <2>3
<1>10. faults = 0 => SyncedOK'
  <2> SUFFICES ASSUME faults = 0 PROVE SyncedOK'
    OBVIOUS
  <2>1. syncout[j] <=> Wished(j)
    <3>1. doing[m].then = "echo"
      BY <1>1 DEF Control, StageOK
    <3> QED BY <1>1, <3>1 DEF LockOK, HeldOK
  <2>2. traced' => mode = "recurse"
    <3>1. output_sync[m] = mode /\ traced' = (traced \/ Entering(m, output_sync[m]) # << >>)
      BY <1>1 DEF LockOK, HeldOK, StartCommand
    <3> QED BY <3>1 DEF LockOK, SyncedOK, Entering, OutTypes
  <2> QED BY <1>2, <1>3, <1>4, <1>6, <2>1, <2>2 DEF LockOK, SyncedOK, Started
<1> QED BY <1>3, <1>7, <1>8, <1>9, <1>10 DEF LockOK

LEMMA EndLock ==
  ASSUME OutTypes, Control, LockOK, NEW j \in OutJobs, CommandWrites(j) \/ (SubMakeEnds /\ j = RecursiveJob)
  PROVE  LockOK'
<1>1. recipe'[j].at = "ended" /\ recipe'[j].line = recipe[j].line
      /\ \A i \in OutJobs : i # j => recipe'[i] = recipe[i]
  BY DEF CommandWrites, SubMakeEnds, OutTypes, Recipes
<1>2. /\ mode' = mode /\ output_sync' = output_sync /\ osync_handle' = osync_handle
      /\ mutex_file' = mutex_file /\ faults' = faults /\ syncout' = syncout /\ to_tmp' = to_tmp
      /\ traced' = traced /\ lock' = lock /\ doing' = doing
  BY DEF CommandWrites, SubMakeEnds, files, locking
<1>3. \A i \in OutJobs : (Wished(i)' <=> Wished(i)) /\ (recipe'[i].at = "new" => recipe[i].at = "new")
  BY <1>1, <1>2 DEF Wished, IsRecursive
<1>4. \A n \in MakeProcs : DumpOK(n)'
  BY <1>2 DEF LockOK, DumpOK
<1>5. GivenUpOK'
  BY <1>2, <1>3, OutNames DEF LockOK, GivenUpOK
<1>6. ASSUME faults = 0, NEW n \in MakeProcs PROVE HeldOK(n)'
  BY <1>2, <1>3, <1>6, OutFacts DEF LockOK, HeldOK, Dumping
<1>7. faults = 0 => SyncedOK'
  BY <1>1, <1>2, <1>3 DEF LockOK, SyncedOK
<1> QED BY <1>2, <1>4, <1>5, <1>6, <1>7 DEF LockOK

LEMMA ReapLock ==
  ASSUME OutTypes, Control, LockOK, NEW m \in MakeProcs, Reap(m)
  PROVE  LockOK'
<1>1. PICK j \in OutJobs, a \in {"lock", "next", "idle"} :
               /\ OwnerOf(j) = m /\ recipe[j].at = "ended" /\ LineBegun(j)
               /\ \A i \in OutJobs : i # j => recipe'[i] = recipe[i] /\ (LineBegun(i)' <=> LineBegun(i))
               /\ doing'[m].at = a /\ doing'[m].job = j
               /\ \A n \in MakeProcs : n # m => doing'[n] = doing[n]
               /\ \/ /\ recipe'[j].at = "ended" /\ recipe'[j].line = recipe[j].line + 1 /\ ~LineBegun(j)'
                     /\ doing'[m].then = "next" /\ a \in {"lock", "next"}
                     /\ a = "lock" => output_sync[m] = "line"
                  \/ /\ recipe'[j].at = "done" /\ recipe'[j].line = recipe[j].line /\ LineBegun(j)'
                     /\ doing'[m].then = "idle" /\ a \in {"lock", "idle"}
                     /\ a = "idle" => ~(tmp_set[j] /\ tmp[j] # << >>)
  BY ReapFacts
<1>2. /\ mode' = mode /\ output_sync' = output_sync /\ osync_handle' = osync_handle
      /\ mutex_file' = mutex_file /\ faults' = faults /\ syncout' = syncout /\ to_tmp' = to_tmp
      /\ traced' = traced /\ lock' = lock /\ doing[m].at = "idle"
  BY DEF Reap, files, locking
<1>3. \A i \in OutJobs : i # j => (Wished(i)' <=> Wished(i))
  BY <1>1, <1>2 DEF Wished, IsRecursive
<1>4. ASSUME NEW n \in MakeProcs PROVE DumpOK(n)'
  <2>1. output_sync[m] \in {mode, "none"}
    BY OutFacts
  <2>2. CASE n = m
    <3>1. /\ doing'[n].then = "next" /\ doing'[n].at = "lock" => output_sync[m] = "line"
          /\ doing'[n].then # "echo"
      BY <1>1, <2>2
    <3>2. doing'[n].at \in {"lock", "next", "idle"}
      BY <1>1, <2>2
    <3>3. output_sync[m] = "line" => mode = "line"
      BY <2>1
    <3> QED BY <1>2, <3>1, <3>2, <3>3 DEF DumpOK, DumpSteps
  <2>3. CASE n # m
    <3>1. doing'[n] = doing[n] /\ DumpOK(n)
      BY <1>1, <1>4, <2>3 DEF LockOK
    <3> QED BY <1>2, <3>1 DEF DumpOK
  <2> QED BY <2>2, <2>3
<1>5. GivenUpOK'
  <2>1. \A i \in OutJobs : recipe'[i].at = "new" => recipe[i].at = "new"
    BY <1>1
  <2> QED BY <1>1, <1>2, <2>1, OutNames DEF LockOK, GivenUpOK
<1>6. ASSUME faults = 0, NEW n \in MakeProcs PROVE HeldOK(n)'
  <2>1. HeldOK(n)
    BY <1>6 DEF LockOK
  <2>2. CASE n = m
    BY <1>1, <1>2, <2>1, <2>2 DEF HeldOK, Dumping
  <2>3. CASE n # m
    <3>1. doing[n].then = "echo" => OwnerOf(doing[n].job) = n /\ doing[n].job \in OutJobs
      BY OutFacts DEF Control, StageOK
    <3> QED BY <1>1, <1>2, <1>3, <2>1, <2>3, <3>1 DEF HeldOK, Dumping
  <2> QED BY <2>2, <2>3
<1>7. faults = 0 => SyncedOK'
  BY <1>1, <1>2, <1>3 DEF LockOK, SyncedOK
<1> QED BY <1>2, <1>4, <1>5, <1>6, <1>7 DEF LockOK

LEMMA LockStays ==
  ASSUME OutTypes, Control, LockOK, OutNext
  PROVE  LockOK'
<1>1. Advances
  BY ControlStays
<1>2. ASSUME NEW m \in MakeProcs, DumpText(m) PROVE LockOK'
  <2>1. /\ mode' = mode /\ output_sync' = output_sync /\ osync_handle' = osync_handle
        /\ mutex_file' = mutex_file /\ faults' = faults /\ syncout' = syncout /\ to_tmp' = to_tmp
        /\ traced' = traced /\ lock' = lock /\ doing' = doing /\ recipe' = recipe
    BY <1>2 DEF DumpText, locking
  <2> QED BY <2>1 DEF LockOK, DumpOK, GivenUpOK, HeldOK, SyncedOK, Dumping, Wished, IsRecursive
<1>3. ASSUME SubMakeStarts PROVE LockOK'
  <2>1. PICK x \in {"idle", "exit"} : /\ MovesTo("sub", x) /\ recipe' = recipe /\ doing["sub"].at = "start"
                                      /\ x = IF mutex_file THEN "idle" ELSE "exit"
    BY <1>3, MoveSteps, OutNames
  <2>2. /\ mode' = mode /\ output_sync' = output_sync /\ syncout' = syncout /\ to_tmp' = to_tmp
        /\ mutex_file' = mutex_file /\ faults' = faults /\ traced' = traced /\ lock' = lock
        /\ osync_handle' = [osync_handle EXCEPT !["sub"] = mutex_file]
    BY <1>3 DEF SubMakeStarts, files
  <2>3. osync_handle'["top"] = osync_handle["top"] /\ osync_handle'["sub"] = mutex_file
    BY <2>2, OutNames DEF OutTypes
  <2>4. /\ doing'["sub"].at = x /\ doing'["sub"].job = doing["sub"].job
        /\ doing'["sub"].then = doing["sub"].then /\ doing'["top"] = doing["top"]
    BY <2>1, OutNames DEF MovesTo
  <2>5. doing["top"].at # "exit"
    BY <2>1, OutNames DEF Control, SubOK
  <2>6. DumpOK("top")' /\ DumpOK("sub")'
    BY <2>1, <2>2, <2>4, OutNames DEF LockOK, DumpOK, DumpSteps
  <2>7. GivenUpOK'
    BY <2>1, <2>2, <2>3, <2>4, <2>5 DEF LockOK, GivenUpOK
  <2>8. ASSUME faults = 0 PROVE HeldOK("top")' /\ HeldOK("sub")' /\ SyncedOK'
    <3>1. HeldOK("top") /\ HeldOK("sub") /\ SyncedOK
      BY <2>8, OutNames DEF LockOK
    <3>2. HeldOK("top")'
      BY <2>1, <2>2, <2>3, <2>4, <3>1 DEF HeldOK, Dumping, Wished, IsRecursive
    <3>3. HeldOK("sub")'
      BY <2>1, <2>2, <2>3, <2>4, <3>1 DEF HeldOK, Dumping, Wished, IsRecursive
    <3>4. SyncedOK'
      BY <2>1, <2>2, <3>1 DEF SyncedOK, Wished, IsRecursive
    <3> QED BY <3>2, <3>3, <3>4
  <2> QED BY <2>2, <2>6, <2>7, <2>8, OutNames DEF LockOK
<1>4. ASSUME NEW m \in MakeProcs, MakeDies(m) PROVE LockOK'
  <2>1. /\ MovesTo(m, "exit") /\ recipe' = recipe /\ doing[m].at = "idle"
        /\ \A j \in RecipesOf(m) : recipe[j].at = "done"
    BY <1>4, MoveSteps
  <2>2. /\ mode' = mode /\ output_sync' = output_sync /\ syncout' = syncout /\ to_tmp' = to_tmp
        /\ faults' = faults /\ traced' = traced /\ osync_clear(m)
    BY <1>4 DEF MakeDies
  <2>3. /\ \A n \in MakeProcs : n # m => osync_handle'[n] = osync_handle[n]
        /\ osync_handle'[m] = FALSE /\ mutex_file' = (mutex_file /\ m # "top")
        /\ lock # m => lock' = lock
    BY <2>2 DEF osync_clear, OutTypes
  <2>4. /\ doing'[m].at = "exit" /\ doing'[m].job = doing[m].job /\ doing'[m].then = doing[m].then
        /\ \A n \in MakeProcs : n # m => doing'[n] = doing[n]
    BY <2>1 DEF MovesTo
  <2>5. ASSUME NEW n \in MakeProcs PROVE DumpOK(n)'
    BY <2>2, <2>4, <2>5 DEF LockOK, DumpOK, DumpSteps
  <2>6. GivenUpOK'
    <3>1. CASE m = "top"
      BY <2>1, <2>2, <2>3, <2>4, <3>1, OutNames DEF LockOK, GivenUpOK
    <3>2. CASE m = "sub"
      <4>1. \A j \in SubJobs : recipe[j].at = "done"
        BY <2>1, <3>2, OutNames
      <4> QED BY <2>1, <2>2, <2>3, <2>4, <3>2, <4>1, OutNames DEF LockOK, GivenUpOK
    <3> QED BY <3>1, <3>2, OutNames
  <2>7. ASSUME faults = 0, NEW n \in MakeProcs PROVE HeldOK(n)'
    <3>1. HeldOK(n)
      BY <2>7 DEF LockOK
    <3>2. CASE n = m
      BY <2>1, <2>2, <2>4, <3>1, <3>2 DEF HeldOK, Dumping, Wished, IsRecursive
    <3>3. CASE n # m
      BY <2>1, <2>2, <2>3, <2>4, <3>1, <3>3 DEF HeldOK, Dumping, Wished, IsRecursive
    <3> QED BY <3>2, <3>3
  <2>8. faults = 0 => SyncedOK'
    BY <2>1, <2>2 DEF LockOK, SyncedOK, Wished, IsRecursive
  <2> QED BY <2>2, <2>5, <2>6, <2>7, <2>8 DEF LockOK
<1> QED BY <1>1, <1>2, <1>3, <1>4, DumpMoves, FailLock, StartLineLock, EchoLock, EndLock, ReapLock, OutNames
        DEF OutNext, output_dump

----------------------------------------------------------------------------
\* Directory messages.
LEMMA InsideAppended ==
  ASSUME NEW s \in Seq(Texts), NEW t \in Texts, NEW k \in DOMAIN s
  PROVE  Inside(Append(s, t), k) <=> Inside(s, k)
<1>1. /\ k \in 1 .. Len(s) /\ Len(s) \in Nat
      /\ \A i \in 1 .. Len(s) : Append(s, t)[i] = s[i]
  BY Appended
<1>2. \A i \in 1 .. k : i \in 1 .. Len(s) /\ \A l \in i .. k : l \in 1 .. Len(s)
  BY <1>1
<1>3. \A i \in 1 .. k : /\ Append(s, t)[i] = s[i]
                        /\ \A l \in i .. k : Append(s, t)[l] = s[l]
  BY <1>1, <1>2
<1> QED BY <1>3 DEF Inside

LEMMA OpenAppended ==
  ASSUME NEW s \in Seq(Texts), NEW t \in Texts, t = Dir("enter") \/ (Open(s) /\ OfSub(t))
  PROVE  Open(Append(s, t))
<1>1. /\ Len(s) \in Nat /\ Len(Append(s, t)) = Len(s) + 1 /\ Append(s, t)[Len(s) + 1] = t
      /\ \A i \in 1 .. Len(s) : Append(s, t)[i] = s[i]
  BY Appended
<1>2. CASE t = Dir("enter")
  <2>1. OfSub(t)
    BY <1>2 DEF OfSub, Dir
  <2>2. Len(s) + 1 \in 1 .. Len(s) + 1 /\ \A l \in Len(s) + 1 .. Len(s) + 1 : l = Len(s) + 1
    BY <1>1
  <2> QED BY <1>1, <1>2, <2>1, <2>2 DEF Open, Inside
<1>3. CASE Open(s) /\ OfSub(t)
  <2>1. PICK i \in 1 .. Len(s) : s[i] = Dir("enter") /\ \A l \in i .. Len(s) : OfSub(s[l])
    BY <1>3 DEF Open, Inside
  <2>2. i \in 1 .. Len(s) + 1 /\ Append(s, t)[i] = Dir("enter")
    BY <1>1, <2>1
  <2>3. ASSUME NEW l \in i .. Len(s) + 1 PROVE OfSub(Append(s, t)[l])
    <3>1. l = Len(s) + 1 \/ (l \in i .. Len(s) /\ l \in 1 .. Len(s))
      BY <1>1, <2>1
    <3> QED BY <1>1, <1>3, <2>1, <3>1
  <2> QED BY <1>1, <2>2, <2>3 DEF Open, Inside
<1> QED BY <1>2, <1>3

LEMMA ToldAppended ==
  ASSUME NEW s \in Seq(Texts), NEW t \in Texts, Told(s), t.job \in SubJobs => Open(s)
  PROVE  Told(Append(s, t))
<1> SUFFICES ASSUME NEW k \in DOMAIN Append(s, t), Append(s, t)[k].job \in SubJobs
             PROVE  Inside(Append(s, t), k)
  BY DEF Told
<1>1. CASE k \in DOMAIN s
  BY <1>1, Appended, InsideAppended DEF Told
<1>2. CASE k = Len(s) + 1
  <2>1. t.job \in SubJobs
    BY <1>2, Appended
  <2>2. OfSub(t)
    BY <2>1, OutNames DEF OfSub, Dir
  <2>3. Open(Append(s, t))
    BY <2>1, <2>2, OpenAppended
  <2> QED BY <1>2, <2>3, Appended DEF Open
<1> QED BY <1>1, <1>2, Appended

LEMMA ToldAfterAppended ==
  ASSUME NEW s, NEW q \in Seq(Texts), NEW t \in Texts, ToldAfter(s, q), t.job \in SubJobs => Open(q)
  PROVE  ToldAfter(s, Append(q, t))
<1> SUFFICES ASSUME NEW k \in DOMAIN Append(q, t), Append(q, t)[k].job \in SubJobs
             PROVE  Inside(Append(q, t), k) \/ (Open(s) /\ \A l \in 1 .. k : OfSub(Append(q, t)[l]))
  BY DEF ToldAfter
<1>1. CASE k \in DOMAIN q
  <2>1. k \in 1 .. Len(q) /\ Append(q, t)[k] = q[k] /\ Len(q) \in Nat
    BY <1>1, Appended
  <2>2. \A l \in 1 .. k : l \in DOMAIN q /\ Append(q, t)[l] = q[l]
    BY <2>1, Appended
  <2> QED BY <1>1, <2>1, <2>2, InsideAppended DEF ToldAfter
<1>2. CASE k = Len(q) + 1
  <2>1. t.job \in SubJobs
    BY <1>2, Appended
  <2>2. OfSub(t)
    BY <2>1, OutNames DEF OfSub, Dir
  <2>3. Open(Append(q, t))
    BY <2>1, <2>2, OpenAppended
  <2> QED BY <1>2, <2>3, Appended DEF Open
<1> QED BY <1>1, <1>2, Appended

LEMMA ToldAfterTold ==
  ASSUME NEW s, NEW q, Told(q)
  PROVE  ToldAfter(s, q)
BY DEF Told, ToldAfter

LEMMA ToldNothing == Told(<< >>) /\ \A s : ToldAfter(s, << >>)
BY DEF Told, ToldAfter

LEMMA ToldAfterHead ==
  ASSUME NEW s \in Seq(Texts), NEW q \in Seq(Texts), q # << >>, ToldAfter(s, q)
  PROVE  /\ Head(q).job \in SubJobs => Open(s)
         /\ ToldAfter(Append(s, Head(q)), Tail(q))
<1>1. /\ Head(q) \in Texts /\ Tail(q) \in Seq(Texts) /\ Head(q) = q[1] /\ 1 \in DOMAIN q
      /\ \A i \in DOMAIN Tail(q) : i \in Nat /\ i + 1 \in DOMAIN q /\ Tail(q)[i] = q[i + 1]
      /\ DOMAIN Tail(q) = 1 .. Len(q) - 1 /\ Len(q) \in Nat \ {0}
  BY InTail
<1>2. Dir("enter").job = "directory" /\ "directory" \notin SubJobs
  BY OutNames DEF Dir
<1>3. Head(q).job \in SubJobs => Open(s)
  <2> SUFFICES ASSUME q[1].job \in SubJobs PROVE Open(s)
    BY <1>1
  <2>1. Inside(q, 1) \/ Open(s)
    BY <1>1 DEF ToldAfter
  <2>2. ASSUME Inside(q, 1) PROVE FALSE
    <3>1. PICK i \in 1 .. 1 : q[i] = Dir("enter")
      BY <2>2 DEF Inside
    <3>2. i = 1
      OBVIOUS
    <3> QED BY <1>2, <3>1, <3>2
  <2> QED BY <2>1, <2>2
<1>4. ASSUME NEW k \in DOMAIN Tail(q), Tail(q)[k].job \in SubJobs
      PROVE  Inside(Tail(q), k)
             \/ (Open(Append(s, Head(q))) /\ \A l \in 1 .. k : OfSub(Tail(q)[l]))
  <2>1. /\ k \in Nat /\ k >= 1 /\ k \in 1 .. Len(q) - 1 /\ k + 1 \in DOMAIN q /\ q[k + 1].job \in SubJobs
        /\ \A l \in 1 .. k : l \in DOMAIN Tail(q) /\ Tail(q)[l] = q[l + 1] /\ l + 1 \in 1 .. k + 1
    BY <1>1, <1>4
  <2>2. Inside(q, k + 1) \/ (Open(s) /\ \A l \in 1 .. k + 1 : OfSub(q[l]))
    BY <2>1 DEF ToldAfter
  <2>3. CASE Open(s) /\ \A l \in 1 .. k + 1 : OfSub(q[l])
    <3>1. OfSub(Head(q))
      BY <1>1, <2>1, <2>3
    <3>2. Open(Append(s, Head(q)))
      BY <1>1, <2>3, <3>1, OpenAppended
    <3>3. \A l \in 1 .. k : OfSub(Tail(q)[l])
      BY <2>1, <2>3
    <3> QED BY <3>2, <3>3
  <2>4. CASE Inside(q, k + 1)
    <3>1. PICK i \in 1 .. k + 1 : q[i] = Dir("enter") /\ \A l \in i .. k + 1 : OfSub(q[l])
      BY <2>4 DEF Inside
    <3>2. CASE i = 1
      <4>1. Open(Append(s, Head(q)))
        BY <1>1, <3>1, <3>2, OpenAppended
      <4>2. \A l \in 1 .. k : OfSub(Tail(q)[l])
        BY <2>1, <3>1, <3>2
      <4> QED BY <4>1, <4>2
    <3>3. CASE i # 1
      <4>1. i - 1 \in 1 .. k /\ (i - 1) + 1 = i
        BY <2>1, <3>1, <3>3
      <4>2. Tail(q)[i - 1] = Dir("enter")
        BY <2>1, <3>1, <4>1
      <4>3. ASSUME NEW l \in i - 1 .. k PROVE OfSub(Tail(q)[l])
        <5>1. l \in 1 .. k /\ l + 1 \in i .. k + 1
          BY <2>1, <4>1
        <5> QED BY <2>1, <3>1, <5>1
      <4> QED BY <4>1, <4>2, <4>3 DEF Inside
    <3> QED BY <3>2, <3>3
  <2> QED BY <2>2, <2>3, <2>4
<1> QED BY <1>3, <1>4 DEF ToldAfter

----------------------------------------------------------------------------
\* Units.
LEMMA UnitIs ==
  ASSUME OutTypes, NEW t \in Texts, NEW u \in Texts
  PROVE  /\ Unit(t) = Unit(u) <=> FileOf(t) = FileOf(u) /\ (mode = "line" => t.line = u.line)
         /\ Unit(t) = Unit(u) => (Synced(t) <=> Synced(u))
         /\ Synced(t) => FileOf(t) \in OutJobs
<1>1. mode \in {"line", "target", "recurse"} /\ t.job \in OutJobs \cup {"directory"}
  BY DEF OutTypes, Texts
<1>2. CASE mode = "line"
  BY <1>1, <1>2 DEF Unit, FileOf, Synced
<1>3. CASE mode = "target"
  BY <1>1, <1>3 DEF Unit, FileOf, Synced
<1>4. CASE mode = "recurse"
  BY <1>1, <1>4, OutNames DEF Unit, FileOf, Synced
<1> QED BY <1>1, <1>2, <1>3, <1>4

LEMMA SameUnits ==
  ASSUME mode' = mode, NEW t
  PROVE  FileOf(t)' = FileOf(t) /\ Unit(t)' = Unit(t) /\ (Synced(t)' <=> Synced(t))
BY DEF FileOf, Unit, Synced

\* A text that the job of file k goes on to write.
NewIn(u, k) == recipe[k].at # "done" /\ (mode = "line" => u.line >= recipe[k].line)

LEMMA PassedStays ==
  ASSUME OutTypes, Advances, mode' = mode, NEW t \in Texts, Synced(t), Passed(t)
  PROVE  Passed(t)'
<1>1. PICK k \in OutJobs : k = FileOf(t)
  BY UnitIs
<1>2. recipe[k].line \in Nat /\ t.line \in Nat /\ recipe[k].line <= recipe'[k].line
  BY OutFacts DEF Advances, Texts
<1>3. recipe'[k].line \in Int \/ recipe'[k].line \notin Int
  OBVIOUS
<1>4. recipe[k].at = "done" => recipe'[k].at = "done"
  BY DEF Advances
<1>5. t.line < recipe[k].line => t.line < recipe'[k].line
  <2>1. \/ recipe'[k].line = recipe[k].line \/ recipe'[k].line = recipe[k].line + 1
    BY DEF Advances
  <2> QED BY <1>2, <2>1
<1>6. FileOf(t)' = k
  BY <1>1, SameUnits
<1> QED BY <1>1, <1>4, <1>5, <1>6 DEF Passed

LEMMA OverStays ==
  ASSUME OutTypes, mode' = mode, NEW t \in Texts, Synced(t), Passed(t), Over(t),
         \A k \in OutJobs : \A u \in Texts : In(u, tmp'[k]) => In(u, tmp[k]) \/ NewIn(u, k)
  PROVE  Over(t)'
<1>1. PICK k \in OutJobs : k = FileOf(t)
  BY UnitIs
<1>2. FileOf(t)' = k /\ Unit(t)' = Unit(t)
  BY <1>1, SameUnits
<1>3. ASSUME NEW u \in Texts, In(u, tmp'[k]), Unit(u) = Unit(t) PROVE FALSE
  <2>1. CASE In(u, tmp[k])
    BY <1>1, <1>3, <2>1 DEF Over
  <2>2. CASE NewIn(u, k)
    <3>1. mode = "line" /\ t.line < recipe[k].line
      BY <1>1, <2>2 DEF NewIn, Passed
    <3>2. t.line = u.line
      BY <1>3, <3>1, UnitIs
    <3>3. u.line >= recipe[k].line /\ u.line \in Nat /\ recipe[k].line \in Nat
      BY <2>2, <3>1, OutFacts DEF NewIn, Texts
    <3> QED BY <3>1, <3>2, <3>3
  <2> QED BY <1>3, <2>1, <2>2
<1>4. \A u \in Texts : Unit(u)' = Unit(u)
  BY SameUnits
<1> QED BY <1>2, <1>3, <1>4 DEF Over

\* Nothing is shown.
LEMMA UnitsKept ==
  ASSUME OutTypes, Advances, UnitsOK, OutputKeptTogether, faults = 0, mode' = mode, screen' = screen,
         \A n \in MakeProcs : doing[n].at = "pump" =>
            \/ doing'[n].at = "pump" /\ doing'[n].job = doing[n].job
            \/ tmp'[doing[n].job] = << >>,
         \A k \in OutJobs : \A u \in Texts : In(u, tmp'[k]) => In(u, tmp[k]) \/ NewIn(u, k)
  PROVE  OutputKeptTogether' /\ UnitsOK'
<1>1. OutputKeptTogether'
  BY SameUnits DEF OutputKeptTogether
<1>2. ASSUME NEW t \in Texts, In(t, screen), Synced(t) PROVE UnitOK(t)'
  <2>1. UnitOK(t)
    BY <1>2 DEF UnitsOK
  <2>2. Passed(t)'
    BY <1>2, <2>1, PassedStays DEF UnitOK
  <2>3. CASE Over(t)
    <3>1. Over(t)'
      BY <1>2, <2>1, <2>3, OverStays DEF UnitOK
    <3> QED BY <2>2, <3>1 DEF UnitOK
  <2>4. CASE /\ doing[OwnerOf(FileOf(t))].at = "pump" /\ doing[OwnerOf(FileOf(t))].job = FileOf(t)
             /\ Unit(LastOf(screen)) = Unit(t)
    <3>1. PICK k \in OutJobs : k = FileOf(t)
      BY <1>2, UnitIs
    <3>2. FileOf(t)' = k /\ Unit(t)' = Unit(t) /\ OwnerOf(k) \in MakeProcs
          /\ Unit(LastOf(screen))' = Unit(LastOf(screen)) /\ LastOf(screen') = LastOf(screen)
      BY <3>1, SameUnits, OutNames DEF Unit, LastOf
    <3>3. CASE doing'[OwnerOf(k)].at = "pump" /\ doing'[OwnerOf(k)].job = k
      BY <2>2, <2>4, <3>1, <3>2, <3>3 DEF UnitOK
    <3>4. CASE tmp'[k] = << >>
      <4>1. \A u : ~In(u, << >>)
        BY DEF In
      <4>2. Over(t)'
        BY <3>2, <3>4, <4>1 DEF Over
      <4> QED BY <2>2, <4>2 DEF UnitOK
    <3> QED BY <2>4, <3>1, <3>2, <3>3, <3>4
  <2> QED BY <2>1, <2>3, <2>4 DEF UnitOK
<1>3. UnitsOK'
  BY <1>2, SameUnits DEF UnitsOK
<1> QED BY <1>1, <1>3

\* A text is shown, of a unit in which nothing else could still be shown.
LEMMA StillTogether ==
  ASSUME OutTypes, OutputKeptTogether, faults = 0, mode' = mode, NEW d \in Texts, screen' = Append(screen, d),
         \A t \in Texts : In(t, screen) /\ Synced(t) /\ Unit(t) = Unit(d) => Unit(LastOf(screen)) = Unit(t)
  PROVE  OutputKeptTogether'
<1>1. screen \in Seq(Texts)
  BY OutFacts
<1>2. PICK s : s = Append(screen, d)
  OBVIOUS
<1>3. /\ \A i \in DOMAIN screen : i \in 1 .. Len(screen) /\ s[i] = screen[i] /\ screen[i] \in Texts
      /\ \A i \in DOMAIN s : i \in DOMAIN screen \/ i = Len(screen) + 1
      /\ s[Len(screen) + 1] = d /\ Len(screen) \in Nat /\ DOMAIN screen = 1 .. Len(screen)
  BY <1>1, <1>2, Appended
<1>4. ASSUME NEW i \in DOMAIN s, NEW k \in DOMAIN s, NEW l \in DOMAIN s, i < k, k < l,
             Synced(s[i]), Unit(s[i]) = Unit(s[l])
      PROVE  Unit(s[k]) = Unit(s[i])
  <2>1. i \in DOMAIN screen /\ k \in DOMAIN screen /\ s[i] = screen[i] /\ s[k] = screen[k]
    BY <1>3, <1>4
  <2>2. CASE l \in DOMAIN screen
    <3>1. s[l] = screen[l]
      BY <1>3, <2>2
    <3> QED BY <1>4, <2>1, <2>2, <3>1 DEF OutputKeptTogether
  <2>3. CASE l = Len(screen) + 1
    <3>1. In(screen[i], screen) /\ screen[i] \in Texts
      BY <1>3, <2>1 DEF In
    <3>2. Unit(LastOf(screen)) = Unit(screen[i])
      BY <1>3, <1>4, <2>1, <2>3, <3>1
    <3>3. Len(screen) \in DOMAIN screen /\ (k = Len(screen) \/ k < Len(screen))
      BY <1>3, <2>1
    <3> QED BY <1>4, <2>1, <3>2, <3>3 DEF OutputKeptTogether, LastOf
  <2> QED BY <1>3, <2>2, <2>3
<1>5. \A t : Unit(t)' = Unit(t) /\ (Synced(t)' <=> Synced(t))
  BY SameUnits
<1> QED BY <1>2, <1>4, <1>5 DEF OutputKeptTogether

\* What is not synced is shown.
LEMMA UnsyncedShown ==
  ASSUME OutTypes, Advances, UnitsOK, OutputKeptTogether, faults = 0, mode' = mode, NEW d \in Texts,
         screen' = Append(screen, d), ~Synced(d), \A k \in OutJobs : tmp'[k] = tmp[k],
         \A n \in MakeProcs : doing[n].at = "pump" => tmp[doing[n].job] = << >>
  PROVE  OutputKeptTogether' /\ UnitsOK'
<1>1. OutputKeptTogether'
  <2>1. \A t \in Texts : Synced(t) => Unit(t) # Unit(d)
    BY UnitIs
  <2> QED BY <2>1, StillTogether
<1>2. ASSUME NEW t \in Texts, In(t, screen'), Synced(t) PROVE UnitOK(t)'
  <2>1. screen \in Seq(Texts)
    BY OutFacts
  <2>2. In(t, screen)
    BY <1>2, <2>1, InAppended
  <2>3. UnitOK(t)
    BY <1>2, <2>2 DEF UnitsOK
  <2>4. Over(t)
    <3>1. PICK k \in OutJobs : k = FileOf(t)
      BY <1>2, UnitIs
    <3>2. OwnerOf(k) \in MakeProcs /\ \A u : ~In(u, << >>)
      BY OutNames DEF In
    <3> QED BY <2>3, <3>1, <3>2 DEF UnitOK, Over
  <2>5. Passed(t)' /\ Over(t)'
    BY <1>2, <2>3, <2>4, PassedStays, OverStays DEF UnitOK
  <2> QED BY <2>5 DEF UnitOK
<1>3. UnitsOK'
  BY <1>2, SameUnits DEF UnitsOK
<1> QED BY <1>1, <1>3

\* The sub-make writes to the file of the recursive job if that is synced.
LEMMA SubStdout ==
  ASSUME OutTypes, Control, FilesOK, LockOK, faults = 0, doing["sub"].at \notin {"none", "exit"}
  PROVE  ToParentTmp("sub") <=> mode = "recurse"
<1>1. recipe[RecursiveJob].at = "run" /\ IsRecursive(RecursiveJob)
  BY SubMakeWorks
<1> QED BY <1>1, OutNames DEF LockOK, SyncedOK, Wished, ToParentTmp

\* What is in the files.
LEMMA InFile ==
  ASSUME OutTypes, FilesOK, DirsOK, NEW k \in OutJobs, NEW u \in Texts, In(u, tmp[k])
  PROVE  /\ k \notin SubJobs \/ mode # "recurse" => FileOf(u) = k
         /\ mode # "recurse" => u.job = k
         /\ k # RecursiveJob => u.job = k
<1>1. Holds(k, u)
  BY DEF FilesOK, FileOK
<1>2. mode # "recurse" /\ k = RecursiveJob => u.job = k
  BY DEF DirsOK, PlainOK
<1> QED BY <1>1, <1>2, OutNames DEF Holds, FileOf

\* What one make has shown of a unit is complete before it shows it.
LEMMA ShownPassed ==
  ASSUME OutTypes, Control, FilesOK, WrittenOK, LockOK, faults = 0, DirsOK, NEW m \in MakeProcs,
         doing[m].at = "pump", NEW j \in OutJobs, j = doing[m].job, NEW d \in Texts, In(d, tmp[j]),
         FileOf(d) = j, Synced(d)
  PROVE  Passed(d)
<1>1. OwnerOf(j) = m /\ StageOK(m) /\ Working(m) /\ doing[m].then \in Steps
  <2>1. StageOK(m) /\ Working(m)
    BY DEF Control, Working
  <2> QED BY <2>1, OutFacts DEF StageOK
<1>2. DumpOK(m) /\ HeldOK(m) /\ doing[m].at \in DumpSteps
  BY DEF LockOK, DumpSteps
<1>3. CASE doing[m].then = "idle"
  BY <1>1, <1>3 DEF StageOK, Passed
<1>4. CASE doing[m].then = "next"
  <2>1. mode = "line" /\ d.job = j
    BY <1>2, <1>4, InFile DEF DumpOK
  <2>2. d \in texts_written
    BY <2>1, OutNames DEF WrittenOK, Somewhere
  <2>3. ~LineBegun(j)
    BY <1>1, <1>4 DEF LineBegun, Pending
  <2> QED BY <2>1, <2>2, <2>3 DEF WrittenOK, Behind, Passed
<1>5. CASE doing[m].then = "echo"
  <2>1. mode # "recurse" /\ j = RecursiveJob
    BY <1>2, <1>5 DEF DumpOK, HeldOK, Wished, IsRecursive
  <2>2. d.job = RecursiveJob
    BY <2>1, InFile
  <2> QED BY <2>1, <2>2 DEF Synced
<1> QED BY <1>1, <1>3, <1>4, <1>5 DEF Steps

LEMMA OneDump ==
  ASSUME OutTypes, LockOK, faults = 0, NEW m \in MakeProcs, Dumping(m), NEW n \in MakeProcs, n # m
  PROVE  doing[n].at # "pump" /\ ~Dumping(n)
BY DEF LockOK, HeldOK, Dumping

\* The next text of a file is shown.
LEMMA TextShown ==
  ASSUME OutTypes, Control, Advances, FilesOK, OrderOK, WrittenOK, LockOK, faults = 0, Kept, mode' = mode,
         doing' = doing, recipe' = recipe,
         NEW m \in MakeProcs, doing[m].at = "pump", NEW j \in OutJobs, j = doing[m].job,
         m = "top" \/ mode # "recurse",
         NEW d \in Texts, In(d, tmp[j]), screen' = Append(screen, d),
         \A u \in Texts : In(u, tmp'[j]) => In(u, tmp[j]) /\ (SameWriter(d, u) => Earlier(d, u)),
         \A k \in OutJobs : k # j => tmp'[k] = tmp[k]
  PROVE  OutputKeptTogether' /\ UnitsOK'
<1>1. OutputKeptTogether /\ UnitsOK /\ DirsOK
  BY DEF Kept
<1>2. OwnerOf(j) = m /\ screen \in Seq(Texts)
  <2>1. StageOK(m) /\ Working(m)
    BY DEF Control, Working
  <2> QED BY <2>1, OutFacts DEF StageOK
<1>3. FileOf(d) = j /\ (mode # "recurse" => d.job = j)
  <2>1. j \notin SubJobs \/ mode # "recurse"
    BY <1>2, OutNames
  <2> QED BY <1>1, <2>1, InFile
<1>4. ASSUME NEW t \in Texts, In(t, screen), Synced(t), Unit(t) = Unit(d)
      PROVE  Unit(LastOf(screen)) = Unit(t)
  <2>1. FileOf(t) = j /\ UnitOK(t)
    BY <1>1, <1>3, <1>4, UnitIs DEF UnitsOK
  <2>2. ~Over(t)
    BY <1>4, <2>1 DEF Over
  <2> QED BY <2>1, <2>2 DEF UnitOK
<1>5. OutputKeptTogether'
  BY <1>1, <1>4, StillTogether
<1>6. LastOf(screen') = d
  BY <1>2, Appended DEF LastOf
<1>7. \A k \in OutJobs : \A u \in Texts : In(u, tmp'[k]) => In(u, tmp[k])
  OBVIOUS
<1>8. ASSUME NEW t \in Texts, In(t, screen'), Synced(t) PROVE UnitOK(t)'
  <2>1. \A u \in Texts : FileOf(u)' = FileOf(u) /\ Unit(u)' = Unit(u)
    BY SameUnits
  <2>2. CASE Unit(t) = Unit(d)
    <3>1. FileOf(t) = j /\ Synced(d)
      BY <1>3, <1>8, <2>2, UnitIs
    <3>2. Passed(d)
      BY <1>1, <1>3, <3>1, ShownPassed
    <3>3. Passed(t)
      BY <1>3, <2>2, <3>1, <3>2, UnitIs DEF Passed
    <3>4. Passed(t)'
      BY <1>8, <3>3, PassedStays
    <3>5. Unit(LastOf(screen))' = Unit(t)'
      BY <1>6, <2>1, <2>2 DEF Unit
    <3> QED BY <1>2, <2>1, <3>1, <3>4, <3>5 DEF UnitOK
  <2>3. CASE Unit(t) # Unit(d)
    <3>1. In(t, screen) /\ UnitOK(t)
      BY <1>1, <1>2, <1>8, <2>3, InAppended DEF UnitsOK
    <3>2. Passed(t)'
      BY <1>8, <3>1, PassedStays DEF UnitOK
    <3>3. CASE Over(t)
      <4>1. Over(t)'
        BY <1>7, <1>8, <3>1, <3>3, OverStays DEF UnitOK
      <4> QED BY <3>2, <4>1 DEF UnitOK
    <3>4. CASE ~Over(t)
      <4>1. doing[OwnerOf(FileOf(t))].at = "pump" /\ doing[OwnerOf(FileOf(t))].job = FileOf(t)
        BY <3>1, <3>4 DEF UnitOK
      <4>2. FileOf(t) = j
        <5>1. FileOf(t) \in OutJobs /\ OwnerOf(FileOf(t)) \in MakeProcs
          BY <1>8, UnitIs, OutNames
        <5>2. Dumping(m)
          BY DEF Dumping
        <5>3. OwnerOf(FileOf(t)) = m
          BY <4>1, <5>1, <5>2, OneDump
        <5> QED BY <4>1, <5>3
      <4>3. mode = "line" /\ t.line # d.line /\ d.job = j
        BY <1>3, <2>3, <4>2, UnitIs
      <4>4. t.job = j
        BY <4>2, <4>3 DEF FileOf
      <4>5. SameWriter(t, d) /\ Earlier(t, d)
        BY <3>1, <4>3, <4>4, OutNames DEF SameWriter, OrderOK, Ordered, Precedes
      <4>6. t.line < d.line
        BY <4>3, <4>5 DEF Earlier
      <4>7. ASSUME NEW u \in Texts, In(u, tmp'[j]), Unit(u) = Unit(t) PROVE FALSE
        <5>1. In(u, tmp[j]) /\ u.job = j /\ u.line = t.line
          BY <1>1, <4>3, <4>7, InFile, UnitIs
        <5>2. Earlier(d, u)
          BY <4>3, <4>7, <5>1, OutNames DEF SameWriter
        <5>3. d.line <= u.line /\ u.line \in Nat /\ d.line \in Nat /\ t.line \in Nat
          BY <5>2 DEF Earlier, Texts
        <5> QED BY <4>6, <5>1, <5>3
      <4>8. Over(t)'
        BY <2>1, <4>2, <4>7 DEF Over
      <4> QED BY <3>2, <4>8 DEF UnitOK
    <3> QED BY <3>3, <3>4
  <2> QED BY <2>2, <2>3
<1>9. UnitsOK'
  BY <1>8, SameUnits DEF UnitsOK
<1> QED BY <1>5, <1>9

----------------------------------------------------------------------------
\* What is kept together stays together: the steps that show and keep nothing.
NestingDone == ~(WorksFor("top", RecursiveJob) /\ Dumping("top"))

LEMMA QuietKept ==
  ASSUME OutTypes, Advances, faults = 0, Kept, mode' = mode, screen' = screen, traced' = traced,
         \A k \in OutJobs : tmp'[k] = tmp[k],
         \A n \in MakeProcs : doing[n].at = "pump" =>
            \/ doing'[n].at = "pump" /\ doing'[n].job = doing[n].job
            \/ tmp[doing[n].job] = << >>,
         mode # "recurse" /\ doing'["sub"].at = "pump" => doing["sub"].at = "pump",
         NestingDone' => NestingDone \/ tmp[RecursiveJob] = << >>,
         \A j \in SubJobs : recipe'[j].at # "new" => recipe[j].at # "new",
         mode = "recurse" /\ traced =>
            /\ doing'["sub"].at # "exit" => doing["sub"].at # "exit"
            /\ doing["sub"].at \notin {"none", "start"} => doing'["sub"].at \notin {"none", "start"}
  PROVE  Kept'
<1>1. OutputKeptTogether /\ UnitsOK /\ DirsOK
  BY DEF Kept
<1>2. OutputKeptTogether' /\ UnitsOK'
  <2>1. \A n \in MakeProcs : doing[n].job \in OutJobs
    BY OutFacts
  <2> QED BY <1>1, <2>1, UnitsKept
<1>3. Told(screen)' /\ tmp'[RecursiveJob] = tmp[RecursiveJob]
  BY <1>1, OutNames DEF DirsOK
<1>4. mode # "recurse" => PlainOK'
  BY <1>1, <1>3 DEF DirsOK, PlainOK
<1>5. mode = "recurse" => NestedOK'
  <2> SUFFICES ASSUME mode = "recurse" PROVE NestedOK'
    OBVIOUS
  <2>1. NestedOK
    BY <1>1 DEF DirsOK
  <2>2. NestingDone' => Told(tmp[RecursiveJob])
    BY <2>1, ToldNothing DEF NestedOK, NestingDone
  <2> QED BY <1>3, <2>1, <2>2 DEF NestedOK, NestingDone
<1> QED BY <1>2, <1>3, <1>4, <1>5 DEF Kept, DirsOK

LEMMA StdoutIs ==
  ASSUME OutTypes, NEW m \in MakeProcs, NEW d \in Texts, NEW e, e = << >> \/ e = <<d>>, WriteStdout(m, e)
  PROVE  /\ e = << >> => screen' = screen /\ \A k \in OutJobs : tmp'[k] = tmp[k]
         /\ e = <<d>> /\ ~ToParentTmp(m) => screen' = Append(screen, d) /\ \A k \in OutJobs : tmp'[k] = tmp[k]
         /\ e = <<d>> /\ ToParentTmp(m) =>
               /\ screen' = screen /\ tmp'[RecursiveJob] = Append(tmp[RecursiveJob], d)
               /\ \A k \in OutJobs : k # RecursiveJob => tmp'[k] = tmp[k]
<1>1. /\ screen \in Seq(Texts) /\ tmp[RecursiveJob] \in Seq(Texts) /\ tmp \in [OutJobs -> Seq(Texts)]
      /\ RecursiveJob \in OutJobs
  BY OutFacts, OutNames DEF OutTypes
<1>2. << >> \in Seq(Texts)
  OBVIOUS
<1>3. /\ screen \o << >> = screen /\ tmp[RecursiveJob] \o << >> = tmp[RecursiveJob]
      /\ screen \o <<d>> = Append(screen, d) /\ tmp[RecursiveJob] \o <<d>> = Append(tmp[RecursiveJob], d)
  BY <1>1, <1>2, AppendJoined
<1>4. CASE ToParentTmp(m)
  BY <1>1, <1>3, <1>4 DEF WriteStdout
<1>5. CASE ~ToParentTmp(m)
  BY <1>3, <1>5 DEF WriteStdout
<1> QED BY <1>4, <1>5

LEMMA QuietSteps ==
  ASSUME Sound, Kept, faults = 0, Advances, NEW m \in MakeProcs,
         DumpLock(m) \/ DumpUnlock(m) \/ StartLine(m) \/ Reap(m)
  PROVE  Kept'
<1>0. OutTypes /\ Control /\ FilesOK /\ LockOK
  BY DEF Sound
<1>1. mode' = mode /\ screen' = screen /\ traced' = traced /\ tmp' = tmp
  BY DEF DumpLock, DumpUnlock, StartLine, Reap, files
<1>2. PICK x, y : /\ doing'[m].at = x /\ doing'[m].job = y /\ \A n \in MakeProcs : n # m => doing'[n] = doing[n]
                  /\ doing[m].at \notin {"none", "start", "pump", "exit"}
                  /\ x \in Steps \cup {"lock", "enter"}
                  /\ \/ x = "enter" /\ doing[m].at = "lock"
                     \/ doing[m].at = "unlock" /\ y = doing[m].job
                     \/ doing[m].at \in Steps
  <2>1. CASE DumpLock(m)
    <3>1. MovesTo(m, "enter")
      BY <1>0, <2>1, MoveSteps
    <3> QED BY <2>1, <3>1 DEF DumpLock, MovesTo
  <2>2. CASE DumpUnlock(m)
    <3>1. MovesTo(m, doing[m].then) /\ doing[m].then \in Steps
      BY <1>0, <2>2, MoveSteps, OutFacts
    <3> QED BY <2>2, <3>1 DEF DumpUnlock, MovesTo
  <2>3. CASE StartLine(m)
    <3>1. PICK i \in OutJobs, a \in {"echo", "lock"} :
               /\ doing[m].at = "idle" \/ (doing[m].at = "next" /\ doing[m].job = i)
               /\ doing'[m].at = a /\ doing'[m].job = i
               /\ \A n \in MakeProcs : n # m => doing'[n] = doing[n]
      BY <1>0, <2>3, StartLineDone
    <3> QED BY <3>1 DEF Steps
  <2>4. CASE Reap(m)
    <3>1. PICK i \in OutJobs, a \in {"lock", "next", "idle"} :
               /\ doing'[m].at = a /\ doing'[m].job = i
               /\ \A n \in MakeProcs : n # m => doing'[n] = doing[n]
      BY <1>0, <2>4, ReapFacts
    <3>2. doing[m].at = "idle"
      BY <1>0, <2>4, ReapFacts
    <3> QED BY <3>1, <3>2 DEF Steps
  <2> QED BY <2>1, <2>2, <2>3, <2>4
<1>3. \A n \in MakeProcs : doing[n].at = "pump" => doing'[n].at = "pump" /\ doing'[n].job = doing[n].job
  BY <1>2
<1>4. doing'["sub"].at = "pump" => doing["sub"].at = "pump"
  BY <1>2, OutNames DEF Steps
<1>5. NestingDone' => NestingDone \/ tmp[RecursiveJob] = << >>
  <2>1. CASE m = "sub"
    BY <1>2, <2>1, OutNames DEF NestingDone, WorksFor, Working, Dumping
  <2>2. CASE m = "top"
    <3>1. CASE doing[m].at = "unlock"
      <4>1. FileOK(RecursiveJob) /\ OwnerOf(RecursiveJob) = "top"
        BY <1>0, OutNames DEF FilesOK
      <4> QED BY <2>2, <3>1, <4>1 DEF FileOK, NestingDone
    <3>2. CASE doing[m].at # "unlock"
      BY <1>2, <2>2, <3>2 DEF NestingDone, Dumping, Steps
    <3> QED BY <3>1, <3>2
  <2> QED BY <2>1, <2>2, OutNames
<1>6. \A j \in SubJobs : recipe'[j].at # "new" => recipe[j].at # "new"
  <2>1. CASE Reap(m)
    <3>1. PICK k \in OutJobs :
               /\ recipe[k].at = "ended" /\ \A i \in OutJobs : i # k => recipe'[i] = recipe[i]
      BY <1>0, <2>1, ReapFacts
    <3> QED BY <3>1, OutNames
  <2>2. CASE recipe' = recipe
    BY <2>2
  <2> QED BY <2>1, <2>2 DEF DumpLock, DumpUnlock, StartLine
<1>7. /\ doing'["sub"].at # "exit" => doing["sub"].at # "exit"
      /\ doing["sub"].at \notin {"none", "start"} => doing'["sub"].at \notin {"none", "start"}
  BY <1>2, OutNames DEF Steps
<1> QED BY <1>0, <1>1, <1>3, <1>4, <1>5, <1>6, <1>7, QuietKept

LEMMA EnterKept ==
  ASSUME Sound, Kept, faults = 0, Advances, NEW m \in MakeProcs, DumpEnter(m)
  PROVE  Kept'
<1>0. OutTypes /\ Control /\ FilesOK /\ LockOK /\ OutputKeptTogether /\ UnitsOK /\ DirsOK
  BY DEF Sound, Kept
<1>1. /\ mode' = mode /\ traced' = traced /\ recipe' = recipe /\ doing[m].at = "enter"
      /\ doing'[m].at = "pump" /\ doing'[m].job = doing[m].job
      /\ \A n \in MakeProcs : n # m => doing'[n] = doing[n]
  BY <1>0, MoveSteps DEF DumpEnter, MovesTo
<1>2. PICK d, e : /\ d = Dir("enter") /\ e = IF DumpTraces(m) THEN <<d>> ELSE << >>
                  /\ WriteStdout(m, e)
  BY DEF DumpEnter
<1>3. d \in Texts /\ d.job = "directory"
  BY <1>0, <1>2, SomeTexts
<1>4. DumpTraces(m) <=> m = "sub" /\ mode # "recurse"
  BY <1>0 DEF DumpTraces, should_print_dir, LockOK, HeldOK
<1>5. \A n \in MakeProcs : doing[n].at # "pump"
  BY <1>0, <1>1, OneDump DEF Dumping
<1>6. CASE ~DumpTraces(m)
  <2>1. screen' = screen /\ \A k \in OutJobs : tmp'[k] = tmp[k]
    BY <1>0, <1>2, <1>3, <1>6, StdoutIs
  <2>2. mode # "recurse" /\ doing'["sub"].at = "pump" => doing["sub"].at = "pump"
    BY <1>1, <1>4, <1>6, OutNames
  <2>3. NestingDone' => NestingDone
    BY <1>1, OutNames DEF NestingDone, WorksFor, Working, Dumping
  <2>4. /\ doing'["sub"].at # "exit" => doing["sub"].at # "exit"
        /\ doing["sub"].at \notin {"none", "start"} => doing'["sub"].at \notin {"none", "start"}
    BY <1>1, OutNames
  <2> QED BY <1>0, <1>1, <1>5, <2>1, <2>2, <2>3, <2>4, QuietKept
<1>7. CASE DumpTraces(m)
  <2>1. m = "sub" /\ mode # "recurse" /\ ~ToParentTmp(m)
    BY <1>0, <1>1, <1>4, <1>7, SubStdout
  <2>2. screen' = Append(screen, d) /\ \A k \in OutJobs : tmp'[k] = tmp[k]
    BY <1>0, <1>2, <1>3, <1>7, <2>1, StdoutIs
  <2>3. ~Synced(d)
    BY <1>3, <2>1 DEF Synced
  <2>4. OutputKeptTogether' /\ UnitsOK'
    BY <1>0, <1>1, <1>3, <1>5, <2>2, <2>3, UnsyncedShown
  <2>5. d.job \notin SubJobs /\ screen \in Seq(Texts) /\ tmp'[RecursiveJob] = tmp[RecursiveJob]
    BY <1>0, <1>3, <2>2, OutNames, OutFacts
  <2>6. Told(screen')
    BY <1>0, <1>3, <2>2, <2>5, ToldAppended DEF DirsOK
  <2>7. Open(screen')
    BY <1>2, <1>3, <2>2, <2>5, OpenAppended
  <2>8. PlainOK'
    BY <1>0, <2>1, <2>5, <2>7 DEF DirsOK, PlainOK
  <2> QED BY <1>1, <2>1, <2>4, <2>6, <2>8 DEF Kept, DirsOK
<1> QED BY <1>6, <1>7

LEMMA LeaveKept ==
  ASSUME Sound, Kept, faults = 0, Advances, NEW m \in MakeProcs, DumpLeave(m)
  PROVE  Kept'
<1>0. OutTypes /\ Control /\ FilesOK /\ LockOK /\ OutputKeptTogether /\ UnitsOK /\ DirsOK
  BY DEF Sound, Kept
<1>1. /\ mode' = mode /\ traced' = traced /\ recipe' = recipe /\ doing[m].at = "pump"
      /\ tmp[doing[m].job] = << >>
      /\ doing'[m].at = "unlock" /\ doing'[m].job = doing[m].job
      /\ \A n \in MakeProcs : n # m => doing'[n] = doing[n]
  BY <1>0, MoveSteps DEF DumpLeave, MovesTo
<1>2. PICK d, e : /\ d = Dir("leave") /\ e = IF DumpTraces(m) THEN <<d>> ELSE << >>
                  /\ WriteStdout(m, e)
  BY DEF DumpLeave
<1>3. d \in Texts /\ d.job = "directory"
  BY <1>0, <1>2, SomeTexts
<1>4. DumpTraces(m) <=> m = "sub" /\ mode # "recurse"
  BY <1>0 DEF DumpTraces, should_print_dir, LockOK, HeldOK
<1>5. \A n \in MakeProcs : doing[n].at = "pump" => tmp[doing[n].job] = << >>
  BY <1>0, <1>1, OneDump DEF Dumping
<1>6. CASE ~DumpTraces(m)
  <2>1. screen' = screen /\ \A k \in OutJobs : tmp'[k] = tmp[k]
    BY <1>0, <1>2, <1>3, <1>6, StdoutIs
  <2>2. doing'["sub"].at = "pump" => doing["sub"].at = "pump"
    BY <1>1, OutNames
  <2>3. NestingDone' => NestingDone
    BY <1>1, OutNames DEF NestingDone, WorksFor, Working, Dumping
  <2>4. /\ doing'["sub"].at # "exit" => doing["sub"].at # "exit"
        /\ doing["sub"].at \notin {"none", "start"} => doing'["sub"].at \notin {"none", "start"}
    BY <1>1, OutNames
  <2> QED BY <1>0, <1>1, <1>5, <2>1, <2>2, <2>3, <2>4, QuietKept
<1>7. CASE DumpTraces(m)
  <2>1. m = "sub" /\ mode # "recurse" /\ ~ToParentTmp(m)
    BY <1>0, <1>1, <1>4, <1>7, SubStdout
  <2>2. screen' = Append(screen, d) /\ \A k \in OutJobs : tmp'[k] = tmp[k]
    BY <1>0, <1>2, <1>3, <1>7, <2>1, StdoutIs
  <2>3. ~Synced(d)
    BY <1>3, <2>1 DEF Synced
  <2>4. OutputKeptTogether' /\ UnitsOK'
    BY <1>0, <1>1, <1>3, <1>5, <2>2, <2>3, UnsyncedShown
  <2>5. d.job \notin SubJobs /\ screen \in Seq(Texts) /\ tmp'[RecursiveJob] = tmp[RecursiveJob]
    BY <1>0, <1>3, <2>2, OutNames, OutFacts
  <2>6. Told(screen')
    BY <1>0, <1>3, <2>2, <2>5, ToldAppended DEF DirsOK
  <2>7. PlainOK'
    BY <1>0, <1>1, <2>1, <2>5 DEF DirsOK, PlainOK
  <2> QED BY <1>1, <2>1, <2>4, <2>6, <2>7 DEF Kept, DirsOK
<1> QED BY <1>6, <1>7

\* What a make does when it goes.
LEMMA DiesKept ==
  ASSUME Sound, Kept, faults = 0, Advances, NEW m \in MakeProcs, MakeDies(m)
  PROVE  Kept'
<1>0. OutTypes /\ Control /\ FilesOK /\ LockOK /\ OutputKeptTogether /\ UnitsOK /\ DirsOK
  BY DEF Sound, Kept
<1>1. /\ mode' = mode /\ traced' = traced /\ recipe' = recipe /\ doing[m].at = "idle"
      /\ doing'[m].at = "exit"
      /\ \A n \in MakeProcs : n # m => doing'[n] = doing[n]
  BY <1>0, MoveSteps DEF MakeDies, MovesTo
<1>2. PICK d, e : /\ d = Dir("leave") /\ e = IF m = "sub" /\ traced THEN <<d>> ELSE << >>
                  /\ WriteStdout(m, e)
  BY DEF MakeDies
<1>3. d \in Texts /\ d.job = "directory"
  BY <1>0, <1>2, SomeTexts
<1>4. \A n \in MakeProcs : doing[n].at = "pump" => doing'[n].at = "pump" /\ doing'[n].job = doing[n].job
  BY <1>1
<1>5. CASE ~(m = "sub" /\ traced)
  <2>1. screen' = screen /\ \A k \in OutJobs : tmp'[k] = tmp[k]
    BY <1>0, <1>2, <1>3, <1>5, StdoutIs
  <2>2. doing'["sub"].at = "pump" => doing["sub"].at = "pump"
    BY <1>1, OutNames
  <2>3. NestingDone' => NestingDone
    BY <1>1, OutNames DEF NestingDone, WorksFor, Working, Dumping
  <2>4. /\ doing'["sub"].at # "exit" => doing["sub"].at # "exit"
        /\ doing["sub"].at \notin {"none", "start"} => doing'["sub"].at \notin {"none", "start"}
    BY <1>1, OutNames
  <2> QED BY <1>0, <1>1, <1>4, <2>1, <2>2, <2>3, <2>4, QuietKept
<1>6. CASE m = "sub" /\ traced
  <2>1. mode = "recurse" /\ ToParentTmp(m) /\ recipe[RecursiveJob].at = "run"
    BY <1>0, <1>1, <1>6, SubStdout, SubMakeWorks DEF LockOK, SyncedOK
  <2>2. /\ screen' = screen /\ tmp'[RecursiveJob] = Append(tmp[RecursiveJob], d)
        /\ \A k \in OutJobs : k # RecursiveJob => tmp'[k] = tmp[k]
    BY <1>0, <1>2, <1>3, <1>6, <2>1, StdoutIs
  <2>3. d.job \notin SubJobs /\ tmp[RecursiveJob] \in Seq(Texts)
    BY <1>0, <1>3, OutNames, OutFacts
  <2>4. \A k \in OutJobs : \A u \in Texts : In(u, tmp'[k]) => In(u, tmp[k]) \/ NewIn(u, k)
    BY <1>3, <2>1, <2>2, <2>3, InAppended DEF NewIn
  <2>5. OutputKeptTogether' /\ UnitsOK'
    BY <1>0, <1>1, <1>4, <2>2, <2>4, UnitsKept
  <2>6. NestedOK
    BY <1>0, <2>1 DEF DirsOK
  <2>7. doing["sub"].at \notin {"none", "exit"} /\ ~WorksFor("top", RecursiveJob)
    BY <1>0, <1>1, <1>6, SubMakeWorks
  <2>8. Told(tmp[RecursiveJob]) /\ ToldAfter(screen, tmp[RecursiveJob])
    BY <2>6, <2>7 DEF NestedOK
  <2>9. Told(tmp'[RecursiveJob]) /\ ToldAfter(screen', tmp'[RecursiveJob])
    BY <1>3, <2>2, <2>3, <2>8, ToldAppended, ToldAfterAppended
  <2>10. NestedOK'
    BY <1>1, <1>6, <2>6, <2>9 DEF NestedOK
  <2> QED BY <1>0, <1>1, <2>1, <2>2, <2>5, <2>10 DEF Kept, DirsOK
<1> QED BY <1>5, <1>6

\* What DumpText does with the next text of the file.
LEMMA DumpTextIs ==
  ASSUME OutTypes, Control, NEW m \in MakeProcs, DumpText(m), NEW j, j = doing[m].job,
         NEW d, d = Head(tmp[j])
  PROVE  /\ j \in OutJobs /\ OwnerOf(j) = m /\ tmp[j] \in Seq(Texts) /\ tmp[j] # << >> /\ d \in Texts
         /\ tmp'[j] = Tail(tmp[j])
         /\ \A k \in OutJobs : k # j /\ k # RecursiveJob => tmp'[k] = tmp[k]
         /\ ~ToParentTmp(m) => screen' = Append(screen, d) /\ \A k \in OutJobs : k # j => tmp'[k] = tmp[k]
         /\ ToParentTmp(m) =>
               /\ screen' = screen /\ j # RecursiveJob
               /\ tmp'[RecursiveJob] = Append(tmp[RecursiveJob], d)
<1>1. doing[m].at = "pump" /\ tmp[j] # << >> /\ j \in OutJobs
  BY OutFacts DEF DumpText
<1>2. OwnerOf(j) = m /\ tmp[j] \in Seq(Texts)
  <2>1. StageOK(m) /\ Working(m)
    BY <1>1 DEF Control, Working
  <2> QED BY <1>1, <2>1, OutFacts DEF StageOK
<1>3. d \in Texts
  BY <1>1, <1>2, InTail
<1>4. tmp \in [OutJobs -> Seq(Texts)] /\ RecursiveJob \in OutJobs
  BY OutNames DEF OutTypes
<1>5. CASE ToParentTmp(m)
  <2>1. j # RecursiveJob
    BY <1>2, <1>5, OutNames DEF ToParentTmp
  <2>2. /\ tmp' = [[tmp EXCEPT ![j] = Tail(@)] EXCEPT ![RecursiveJob] = Append(@, d)]
        /\ screen' = screen
    BY <1>5 DEF DumpText
  <2> QED BY <1>1, <1>2, <1>3, <1>4, <1>5, <2>1, <2>2
<1>6. CASE ~ToParentTmp(m)
  <2>1. tmp' = [tmp EXCEPT ![j] = Tail(@)] /\ screen' = Append(screen, d)
    BY <1>6 DEF DumpText
  <2> QED BY <1>1, <1>2, <1>3, <1>4, <1>6, <2>1
<1> QED BY <1>5, <1>6

LEMMA TextKept ==
  ASSUME Sound, Kept, faults = 0, Advances, NEW m \in MakeProcs, DumpText(m)
  PROVE  Kept'
<1>0. /\ OutTypes /\ Control /\ FilesOK /\ LockOK /\ OrderOK /\ WrittenOK
      /\ OutputKeptTogether /\ UnitsOK /\ DirsOK
  BY DEF Sound, Kept
<1>1. PICK j, d : j = doing[m].job /\ d = Head(tmp[j])
  OBVIOUS
<1>2. /\ j \in OutJobs /\ OwnerOf(j) = m /\ tmp[j] \in Seq(Texts) /\ tmp[j] # << >> /\ d \in Texts
      /\ tmp'[j] = Tail(tmp[j])
      /\ \A k \in OutJobs : k # j /\ k # RecursiveJob => tmp'[k] = tmp[k]
      /\ ~ToParentTmp(m) => screen' = Append(screen, d) /\ \A k \in OutJobs : k # j => tmp'[k] = tmp[k]
      /\ ToParentTmp(m) =>
               /\ screen' = screen /\ j # RecursiveJob
               /\ tmp'[RecursiveJob] = Append(tmp[RecursiveJob], d)
  BY <1>0, <1>1, DumpTextIs
<1>3. mode' = mode /\ traced' = traced /\ recipe' = recipe /\ doing' = doing /\ doing[m].at = "pump"
  BY DEF DumpText
<1>4. /\ In(d, tmp[j]) /\ \A u : In(u, Tail(tmp[j])) => In(u, tmp[j]) /\ (SameWriter(d, u) => Earlier(d, u))
  <2>1. Sorted(tmp[j])
    BY <1>0, <1>2 DEF OrderOK, Ordered
  <2> QED BY <1>1, <1>2, <2>1, InTail, SortedTail
<1>5. screen \in Seq(Texts) /\ tmp[RecursiveJob] \in Seq(Texts) /\ RecursiveJob \in OutJobs
  BY <1>0, OutFacts, OutNames
<1>6. m = "sub" => /\ ToParentTmp(m) <=> mode = "recurse"
                   /\ recipe[RecursiveJob].at = "run"
                   /\ j \in SubJobs /\ j # RecursiveJob
  BY <1>0, <1>2, <1>3, SubStdout, SubMakeWorks, OutNames
<1>7. CASE ToParentTmp(m)
  <2>1. m = "sub" /\ mode = "recurse" /\ NestedOK
    BY <1>0, <1>6, <1>7 DEF ToParentTmp, DirsOK
  <2>2. d.job = j
    BY <1>0, <1>2, <1>4, <1>6, <2>1, InFile
  <2>3. ASSUME NEW k \in OutJobs, NEW u \in Texts, In(u, tmp'[k]) PROVE In(u, tmp[k]) \/ NewIn(u, k)
    <3>1. CASE k = j
      BY <1>2, <1>4, <2>3, <3>1
    <3>2. CASE k = RecursiveJob
      BY <1>2, <1>5, <1>6, <1>7, <2>1, <2>3, <3>2, InAppended DEF NewIn
    <3>3. CASE k # j /\ k # RecursiveJob
      BY <1>2, <2>3, <3>3
    <3> QED BY <3>1, <3>2, <3>3
  <2>4. OutputKeptTogether' /\ UnitsOK'
    BY <1>0, <1>2, <1>3, <1>7, <2>3, UnitsKept
  <2>5. Open(tmp[RecursiveJob])
    <3>1. FileOK(j)
      BY <1>0, <1>2 DEF FilesOK
    <3> QED BY <1>2, <1>3, <1>6, <2>1, <3>1 DEF NestedOK, FileOK
  <2>6. OfSub(d) /\ ~WorksFor("top", RecursiveJob)
    <3>1. d.job \in SubJobs /\ d.job # "directory"
      BY <1>2, <1>6, <2>1, <2>2, OutNames
    <3>2. d # Dir("leave")
      BY <3>1 DEF Dir
    <3> QED BY <1>0, <1>3, <2>1, <3>1, <3>2, SubMakeWorks DEF OfSub
  <2>7. Told(tmp[RecursiveJob]) /\ ToldAfter(screen, tmp[RecursiveJob])
    BY <2>1, <2>6 DEF NestedOK
  <2>8. Told(tmp'[RecursiveJob]) /\ ToldAfter(screen', tmp'[RecursiveJob]) /\ Open(tmp'[RecursiveJob])
    <3>1. PICK q : q = tmp[RecursiveJob]
      OBVIOUS
    <3>2. q \in Seq(Texts) /\ Open(q) /\ Told(q) /\ ToldAfter(screen, q)
      BY <1>5, <2>5, <2>7, <3>1
    <3>3. Told(Append(q, d))
      BY <1>2, <3>2, ToldAppended
    <3>4. ToldAfter(screen, Append(q, d))
      BY <1>2, <3>2, ToldAfterAppended
    <3>5. Open(Append(q, d))
      BY <1>2, <2>6, <3>2, OpenAppended
    <3> QED BY <1>2, <1>7, <3>1, <3>3, <3>4, <3>5
  <2>9. NestedOK'
    BY <1>3, <2>1, <2>8 DEF NestedOK
  <2> QED BY <1>0, <1>2, <1>3, <1>7, <2>1, <2>4, <2>9 DEF Kept, DirsOK
<1>8. CASE ~ToParentTmp(m)
  <2>1. /\ screen' = Append(screen, d) /\ \A k \in OutJobs : k # j => tmp'[k] = tmp[k]
        /\ m = "top" \/ mode # "recurse"
    BY <1>2, <1>6, <1>8, OutNames
  <2>2. OutputKeptTogether' /\ UnitsOK'
    BY <1>0, <1>1, <1>2, <1>3, <1>4, <2>1, TextShown
  <2>3. \A n \in MakeProcs : n # m => ~Dumping(n) /\ doing[n].at # "pump"
    BY <1>0, <1>3, OneDump DEF Dumping
  <2>4. d.job \in SubJobs => Open(screen)
    <3>1. CASE mode # "recurse"
      <4>1. d.job = j /\ PlainOK
        BY <1>0, <1>2, <1>4, <3>1, InFile DEF DirsOK
      <4> QED BY <1>2, <1>3, <4>1, OutNames DEF PlainOK
    <3>2. CASE mode = "recurse" /\ j # RecursiveJob
      <4>1. d.job = j
        BY <1>0, <1>2, <1>4, <3>2, InFile
      <4> QED BY <1>2, <2>1, <3>2, <4>1, OutNames
    <3>3. CASE mode = "recurse" /\ j = RecursiveJob
      BY <1>0, <1>1, <1>2, <1>5, <3>3, ToldAfterHead DEF DirsOK, NestedOK
    <3> QED BY <3>1, <3>2, <3>3
  <2>5. Told(screen')
    BY <1>0, <1>2, <1>5, <2>1, <2>4, ToldAppended DEF DirsOK
  <2>6. mode # "recurse" => PlainOK'
    <3> SUFFICES ASSUME mode # "recurse" PROVE PlainOK'
      OBVIOUS
    <3>1. d.job = j /\ PlainOK
      BY <1>0, <1>2, <1>4, InFile DEF DirsOK
    <3>2. doing["sub"].at = "pump" => Open(screen')
      <4>1. CASE m = "sub"
        <5>1. d.job \in SubJobs /\ d.job # "directory"
          BY <1>2, <1>6, <3>1, <4>1, OutNames
        <5>2. OfSub(d)
          BY <5>1 DEF OfSub, Dir
        <5> QED BY <1>2, <1>5, <2>1, <2>4, <5>1, <5>2, OpenAppended
      <4>2. CASE m # "sub"
        BY <2>3, <4>2, OutNames
      <4> QED BY <4>1, <4>2
    <3>3. \A u \in Texts : In(u, tmp'[RecursiveJob]) => In(u, tmp[RecursiveJob])
      BY <1>2, <1>4, <1>5, <2>1
    <3> QED BY <1>3, <3>1, <3>2, <3>3 DEF PlainOK
  <2>7. mode = "recurse" => NestedOK'
    <3> SUFFICES ASSUME mode = "recurse" PROVE NestedOK'
      OBVIOUS
    <3>1. NestedOK /\ m = "top"
      BY <1>0, <2>1 DEF DirsOK
    <3>2. CASE j = RecursiveJob
      <4>1. ToldAfter(screen', tmp'[RecursiveJob])
        BY <1>1, <1>2, <1>5, <2>1, <3>1, <3>2, ToldAfterHead DEF NestedOK
      <4>2. WorksFor("top", RecursiveJob) /\ Dumping("top")
        BY <1>1, <1>3, <3>1, <3>2 DEF WorksFor, Working, Dumping
      <4>3. WorksFor("top", RecursiveJob)' /\ Dumping("top")'
        BY <1>3, <4>2 DEF WorksFor, Working, Dumping
      <4>4. traced => doing["sub"].at = "exit"
        BY <1>0, <3>1, <4>2, SubMakeWorks DEF NestedOK
      <4> QED BY <1>3, <3>1, <4>1, <4>3, <4>4 DEF NestedOK
    <3>3. CASE j # RecursiveJob
      <4>1. tmp'[RecursiveJob] = tmp[RecursiveJob] /\ ~WorksFor("top", RecursiveJob)
        BY <1>1, <1>5, <2>1, <3>1, <3>3 DEF WorksFor
      <4>2. Told(tmp[RecursiveJob]) /\ ToldAfter(screen', tmp[RecursiveJob])
        BY <3>1, <4>1, ToldAfterTold DEF NestedOK
      <4> QED BY <1>3, <3>1, <4>1, <4>2 DEF NestedOK
    <3> QED BY <3>2, <3>3
  <2> QED BY <1>3, <2>2, <2>5, <2>6, <2>7 DEF Kept, DirsOK
<1> QED BY <1>7, <1>8

LEMMA CommandKept ==
  ASSUME Sound, Kept, faults = 0, Advances, NEW j \in OutJobs, CommandWrites(j)
  PROVE  Kept'
<1>0. OutTypes /\ Control /\ FilesOK /\ LockOK /\ OutputKeptTogether /\ UnitsOK /\ DirsOK
  BY DEF Sound, Kept
<1>1. /\ mode' = mode /\ traced' = traced /\ doing' = doing /\ recipe[j].at = "run" /\ ~IsRecursive(j)
      /\ recipe' = [recipe EXCEPT ![j].at = "ended"]
  BY DEF CommandWrites
<1>2. PICK t : t = Text(j, "text")
  OBVIOUS
<1>3. t \in Texts /\ t.job = j /\ t.line = recipe[j].line
  BY <1>0, <1>2, SomeTexts
<1>4. to_tmp[j]
  BY <1>0, <1>1 DEF LockOK, SyncedOK, Wished
<1>5. screen' = screen /\ tmp' = [tmp EXCEPT ![j] = Append(@, t)]
  BY <1>2, <1>4 DEF CommandWrites
<1>6. tmp'[j] = Append(tmp[j], t) /\ tmp[j] \in Seq(Texts) /\ \A k \in OutJobs : k # j => tmp'[k] = tmp[k]
  BY <1>0, <1>5 DEF OutTypes
<1>7. \A k \in OutJobs : \A u \in Texts : In(u, tmp'[k]) => In(u, tmp[k]) \/ NewIn(u, k)
  <2>1. NewIn(t, j)
    BY <1>0, <1>1, <1>3, OutFacts DEF NewIn
  <2>2. ASSUME NEW u \in Texts, In(u, tmp'[j]) PROVE In(u, tmp[j]) \/ NewIn(u, j)
    <3>1. In(u, tmp[j]) \/ u = t
      BY <1>3, <1>6, <2>2, InAppended
    <3> QED BY <2>1, <3>1
  <2> QED BY <1>6, <2>2
<1>8. OutputKeptTogether' /\ UnitsOK'
  BY <1>0, <1>1, <1>5, <1>7, UnitsKept
<1>9. \A i \in SubJobs : recipe'[i].at # "new" => recipe[i].at # "new"
  BY <1>0, <1>1, OutNames DEF OutTypes
<1>10. CASE j # RecursiveJob
  <2>1. tmp'[RecursiveJob] = tmp[RecursiveJob]
    BY <1>6, <1>10, OutNames
  <2> QED BY <1>0, <1>1, <1>5, <1>8, <1>9, <2>1 DEF Kept, DirsOK, PlainOK, NestedOK, WorksFor, Working, Dumping
<1>11. CASE j = RecursiveJob
  <2>1. t.job \notin SubJobs
    BY <1>3, <1>11, OutNames
  <2>2. mode # "recurse" => PlainOK'
    BY <1>0, <1>1, <1>3, <1>5, <1>6, <1>11, InAppended DEF DirsOK, PlainOK
  <2>3. mode = "recurse" => NestedOK'
    <3> SUFFICES ASSUME mode = "recurse" PROVE NestedOK'
      OBVIOUS
    <3>1. NestedOK
      BY <1>0 DEF DirsOK
    <3>2. ToldAfter(screen, tmp'[RecursiveJob]) /\ (Told(tmp[RecursiveJob]) => Told(tmp'[RecursiveJob]))
      <4>1. PICK q : q = tmp[RecursiveJob]
        OBVIOUS
      <4>2. q \in Seq(Texts) /\ ToldAfter(screen, q) /\ tmp'[RecursiveJob] = Append(q, t)
        BY <1>6, <1>11, <3>1, <4>1 DEF NestedOK
      <4>3. ToldAfter(screen, Append(q, t))
        BY <1>3, <2>1, <4>2, ToldAfterAppended
      <4>4. Told(q) => Told(Append(q, t))
        BY <1>3, <2>1, <4>2, ToldAppended
      <4> QED BY <4>1, <4>2, <4>3, <4>4
    <3>3. traced => doing["sub"].at = "exit"
      BY <1>0, <1>1, <1>11, <3>1, SubMakeWorks DEF NestedOK
    <3> QED BY <1>1, <1>5, <1>9, <3>1, <3>2, <3>3 DEF NestedOK, WorksFor, Working, Dumping
  <2> QED BY <1>0, <1>1, <1>5, <1>8, <2>2, <2>3 DEF Kept, DirsOK
<1> QED BY <1>10, <1>11

LEMMA SubMakeKept ==
  ASSUME Sound, Kept, faults = 0, Advances, SubMakeEnds \/ SubMakeStarts
  PROVE  Kept'
<1>0. OutTypes /\ DirsOK
  BY DEF Sound, Kept
<1>1. mode' = mode /\ screen' = screen /\ traced' = traced /\ tmp' = tmp
  BY DEF SubMakeEnds, SubMakeStarts, files
<1>2. CASE SubMakeEnds
  <2>1. doing' = doing /\ recipe' = [recipe EXCEPT ![RecursiveJob].at = "ended"]
    BY <1>2 DEF SubMakeEnds
  <2>2. \A i \in SubJobs : recipe'[i].at # "new" => recipe[i].at # "new"
    BY <1>0, <2>1, OutNames DEF OutTypes
  <2>3. NestingDone' => NestingDone
    BY <2>1 DEF NestingDone, WorksFor, Working, Dumping
  <2> QED BY <1>0, <1>1, <2>1, <2>2, <2>3, QuietKept
<1>3. CASE SubMakeStarts
  <2>1. PICK x \in {"idle", "exit"} : MovesTo("sub", x) /\ recipe' = recipe /\ doing["sub"].at = "start"
    BY <1>0, <1>3, MoveSteps, OutNames DEF Sound
  <2>2. doing'["sub"].at = x /\ \A n \in MakeProcs : n # "sub" => doing'[n] = doing[n]
    BY <2>1 DEF MovesTo
  <2>3. mode = "recurse" => ~traced
    BY <1>0, <2>1 DEF DirsOK, NestedOK
  <2>4. NestingDone' => NestingDone
    BY <2>2, OutNames DEF NestingDone, WorksFor, Working, Dumping
  <2>5. \A n \in MakeProcs : doing[n].at = "pump" => doing'[n].at = "pump" /\ doing'[n].job = doing[n].job
    BY <2>1, <2>2
  <2> QED BY <1>0, <1>1, <2>1, <2>2, <2>3, <2>4, <2>5, QuietKept
<1> QED BY <1>2, <1>3

\* What Echo shows and keeps, and where, as long as no call failed.
Echoes(m, j, t) == Echo(m) /\ j = doing[m].job /\ t = Text(j, "echo")

LEMMA EchoIs ==
  ASSUME Sound, faults = 0, NEW m \in MakeProcs, NEW j, NEW t, Echoes(m, j, t)
  PROVE  /\ Started(m, j) /\ doing[m].at = "echo" /\ mode' = mode
         /\ t \in Texts /\ t.job = j /\ t.line = recipe[j].line /\ recipe[j].line \in Nat
         /\ tmp[j] \in Seq(Texts) /\ tmp[RecursiveJob] \in Seq(Texts) /\ screen \in Seq(Texts)
         /\ Wished(j) => tmp'[j] = Append(tmp[j], t)
         /\ ~Wished(j) => /\ m = "top" /\ mode # "recurse" /\ j = RecursiveJob /\ IsRecursive(j)
                          /\ \A k \in OutJobs : tmp'[k] = tmp[k]
                          /\ screen' = Append(screen, t)
         /\ Wished(j) => screen' = screen
         /\ \A k \in OutJobs : k # j /\ k # RecursiveJob => tmp'[k] = tmp[k]
         /\ mode # "recurse" \/ m = "top" =>
               /\ traced' = traced
               /\ \A k \in OutJobs : k # j => tmp'[k] = tmp[k]
         /\ mode = "recurse" /\ m = "sub" =>
               /\ traced' /\ recipe[RecursiveJob].at = "run" /\ ~WorksFor("top", RecursiveJob)
               /\ j \in SubJobs /\ j # RecursiveJob
               /\ traced => tmp'[RecursiveJob] = tmp[RecursiveJob]
               /\ ~traced => tmp'[RecursiveJob] = Append(tmp[RecursiveJob], Dir("enter"))
<1>0. OutTypes /\ Control /\ FilesOK /\ LockOK
  BY DEF Sound
<1>a. j = doing[m].job /\ t = Text(j, "echo")
  BY DEF Echoes
<1>1. /\ doing[m].at = "echo" /\ j \in OutJobs
      /\ StartCommand(m, j, syncout[j], output_sync[m], syncout[j])
  BY <1>0, <1>a, OutFacts DEF Echo, Echoes
<1>2. Started(m, j) /\ OwnerOf(j) = m
  <2>1. Started(m, j)
    BY <1>0, <1>1, <1>a, StartControl
  <2> QED BY <2>1 DEF Started
<1>3. syncout[j] <=> Wished(j)
  <2>1. doing[m].then = "echo"
    BY <1>0, <1>1 DEF Control, StageOK
  <2> QED BY <1>0, <1>1, <1>a, <2>1 DEF LockOK, HeldOK
<1>4. output_sync[m] = mode /\ mode \in {"line", "target", "recurse"} /\ syncout[j] \in BOOLEAN
  BY <1>0, <1>1, OutFacts DEF LockOK, HeldOK, OutTypes
<1>5. PICK set \in BOOLEAN, sync \in {mode} : sync = output_sync[m] /\ set = syncout[j]
  BY <1>4
<1>6. PICK e : e = Entering(m, sync)
  OBVIOUS
<1>b. StartCommand(m, j, set, sync, set) /\ set \in BOOLEAN /\ OwnerOf(j) = m /\ j \in OutJobs
  BY <1>1, <1>2, <1>4, <1>5
<1>7. /\ t \in Texts /\ t.job = j /\ e \in Seq(Texts)
      /\ m = "top" => e = << >>
      /\ \A i \in OutJobs : i # j /\ i # RecursiveJob => tmp'[i] = tmp[i]
      /\ tmp'[j] = IF set THEN Append(tmp[j], t) ELSE tmp[j]
      /\ ~ToParentTmp(m) => (j # RecursiveJob => tmp'[RecursiveJob] = tmp[RecursiveJob])
      /\ ToParentTmp(m) =>
               /\ screen' = screen /\ m = "sub" /\ j \in SubJobs /\ j # RecursiveJob
               /\ tmp'[RecursiveJob] = IF set THEN tmp[RecursiveJob] \o e
                                       ELSE tmp[RecursiveJob] \o Append(e, t)
  BY <1>0, <1>6, <1>a, <1>b, StartTmp
<1>c. ~ToParentTmp(m) => screen' = IF set THEN screen \o e ELSE screen \o Append(e, t)
  <2>1. CASE set
    BY <1>6, <1>b, <2>1 DEF StartCommand
  <2>2. CASE ~set
    BY <1>6, <1>a, <1>b, <2>2 DEF StartCommand, WriteStdout
  <2> QED BY <2>1, <2>2
<1>8. e = IF sync = "recurse" /\ m = "sub" /\ ~traced THEN <<Dir("enter")>> ELSE << >>
  BY <1>4, <1>5, <1>6 DEF Entering, should_print_dir
<1>9. traced' = (traced \/ e # << >>) /\ mode' = mode
  BY <1>1, <1>5, <1>6 DEF StartCommand
<1>10. /\ t.line = recipe[j].line /\ recipe[j].line \in Nat
       /\ tmp[j] \in Seq(Texts) /\ tmp[RecursiveJob] \in Seq(Texts) /\ screen \in Seq(Texts)
       /\ RecursiveJob \in OutJobs /\ Dir("enter") \in Texts
  BY <1>0, <1>1, <1>a, OutFacts, OutNames, SomeTexts
<1>11. m = "sub" => /\ ToParentTmp(m) <=> mode = "recurse"
                    /\ recipe[RecursiveJob].at = "run" /\ ~WorksFor("top", RecursiveJob)
                    /\ j \in SubJobs /\ j # RecursiveJob
  BY <1>0, <1>1, <1>2, SubStdout, SubMakeWorks, OutNames
<1>12. m = "top" => ~ToParentTmp(m)
  BY DEF ToParentTmp
<1>13. ~Wished(j) => mode # "recurse" /\ j = RecursiveJob /\ IsRecursive(j) /\ m = "top"
  BY <1>2, OutNames DEF Wished, IsRecursive
<1>14. /\ screen \o << >> = screen /\ Append(<< >>, t) = <<t>> /\ screen \o <<t>> = Append(screen, t)
       /\ tmp[RecursiveJob] \o << >> = tmp[RecursiveJob]
       /\ tmp[RecursiveJob] \o <<Dir("enter")>> = Append(tmp[RecursiveJob], Dir("enter"))
  <2>1. << >> \in Seq(Texts) /\ Append(<< >>, t) = <<t>>
    BY <1>7
  <2> QED BY <1>7, <1>10, <2>1, AppendJoined
<1>15. mode # "recurse" \/ m = "top" => e = << >> /\ ~ToParentTmp(m)
  BY <1>4, <1>5, <1>8, <1>11, <1>12, OutNames
<1>16. mode = "recurse" /\ m = "sub" => ToParentTmp(m) /\ Wished(j) /\ set
  BY <1>3, <1>5, <1>11 DEF Wished
<1>17. mode # "recurse" \/ m = "top" =>
          /\ traced' = traced /\ \A k \in OutJobs : k # j => tmp'[k] = tmp[k]
          /\ Wished(j) => screen' = screen
          /\ ~Wished(j) => screen' = Append(screen, t) /\ \A k \in OutJobs : tmp'[k] = tmp[k]
  <2> SUFFICES ASSUME mode # "recurse" \/ m = "top"
               PROVE  /\ traced' = traced /\ \A k \in OutJobs : k # j => tmp'[k] = tmp[k]
                      /\ Wished(j) => screen' = screen
                      /\ ~Wished(j) => screen' = Append(screen, t) /\ \A k \in OutJobs : tmp'[k] = tmp[k]
    OBVIOUS
  <2>1. e = << >> /\ ~ToParentTmp(m)
    BY <1>15
  <2>2. traced' = traced
    BY <1>0, <1>9, <2>1 DEF OutTypes
  <2>3. \A k \in OutJobs : k # j => tmp'[k] = tmp[k]
    BY <1>7, <2>1
  <2>4. Wished(j) => screen' = screen
    BY <1>3, <1>5, <1>7, <1>14, <1>c, <2>1
  <2>5. ~Wished(j) => screen' = Append(screen, t) /\ tmp'[j] = tmp[j]
    BY <1>3, <1>5, <1>7, <1>14, <1>c, <2>1
  <2> QED BY <2>2, <2>3, <2>4, <2>5
<1>18. mode = "recurse" /\ m = "sub" =>
          /\ traced' /\ screen' = screen
          /\ traced => tmp'[RecursiveJob] = tmp[RecursiveJob]
          /\ ~traced => tmp'[RecursiveJob] = Append(tmp[RecursiveJob], Dir("enter"))
  <2> SUFFICES ASSUME mode = "recurse", m = "sub"
               PROVE  /\ traced' /\ screen' = screen
                      /\ traced => tmp'[RecursiveJob] = tmp[RecursiveJob]
                      /\ ~traced => tmp'[RecursiveJob] = Append(tmp[RecursiveJob], Dir("enter"))
    OBVIOUS
  <2>1. /\ e = IF ~traced THEN <<Dir("enter")>> ELSE << >>
        /\ screen' = screen /\ tmp'[RecursiveJob] = tmp[RecursiveJob] \o e
    BY <1>4, <1>5, <1>7, <1>8, <1>16
  <2>2. <<Dir("enter")>> # << >>
    OBVIOUS
  <2> QED BY <1>9, <1>14, <2>1, <2>2
<1>19. m \in {"top", "sub"}
  BY OutNames
<1>20. Wished(j) => screen' = screen /\ tmp'[j] = Append(tmp[j], t)
  BY <1>3, <1>5, <1>7, <1>17, <1>18, <1>19
<1> QED BY <1>1, <1>2, <1>7, <1>9, <1>10, <1>11, <1>13, <1>17, <1>18, <1>20

LEMMA EchoKept ==
  ASSUME Sound, Kept, faults = 0, Advances, NEW m \in MakeProcs, Echo(m)
  PROVE  Kept'
<1>0. /\ OutTypes /\ Control /\ FilesOK /\ LockOK /\ OutputKeptTogether /\ UnitsOK /\ DirsOK
      /\ RecursiveJob \in OutJobs
  BY OutNames DEF Sound, Kept
<1>1. PICK j, t : Echoes(m, j, t)
  BY DEF Echoes
<1>2. /\ Started(m, j) /\ doing[m].at = "echo" /\ mode' = mode
      /\ t \in Texts /\ t.job = j /\ t.line = recipe[j].line /\ recipe[j].line \in Nat
      /\ tmp[j] \in Seq(Texts) /\ tmp[RecursiveJob] \in Seq(Texts) /\ screen \in Seq(Texts)
      /\ Wished(j) => tmp'[j] = Append(tmp[j], t)
      /\ ~Wished(j) => /\ m = "top" /\ mode # "recurse" /\ j = RecursiveJob /\ IsRecursive(j)
                       /\ \A k \in OutJobs : tmp'[k] = tmp[k]
                       /\ screen' = Append(screen, t)
      /\ Wished(j) => screen' = screen
      /\ \A k \in OutJobs : k # j /\ k # RecursiveJob => tmp'[k] = tmp[k]
      /\ mode # "recurse" \/ m = "top" =>
               /\ traced' = traced
               /\ \A k \in OutJobs : k # j => tmp'[k] = tmp[k]
      /\ mode = "recurse" /\ m = "sub" =>
               /\ traced' /\ recipe[RecursiveJob].at = "run" /\ ~WorksFor("top", RecursiveJob)
               /\ j \in SubJobs /\ j # RecursiveJob
               /\ traced => tmp'[RecursiveJob] = tmp[RecursiveJob]
               /\ ~traced => tmp'[RecursiveJob] = Append(tmp[RecursiveJob], Dir("enter"))
  BY <1>1, EchoIs
<1>3. /\ j \in OutJobs /\ OwnerOf(j) = m /\ recipe[j].at \in {"new", "ended"}
      /\ \A i \in OutJobs : i # j => recipe'[i] = recipe[i]
      /\ doing'[m].at = "idle"
      /\ \A n \in MakeProcs : n # m => /\ doing'[n].at \in {doing[n].at, "start"}
                                       /\ doing'[n].job = doing[n].job
                                       /\ doing'[n].at = "start" /\ doing[n].at # "start" => doing[n].at = "none"
      /\ IsRecursive(j) => doing["sub"].at = "none"
  BY <1>2 DEF Started
<1>4. \A n \in MakeProcs : doing[n].at = "pump" => doing'[n].at = "pump" /\ doing'[n].job = doing[n].job
  BY <1>2, <1>3
<1>5. NewIn(t, j)
  BY <1>2, <1>3 DEF NewIn
<1>6. CASE ~Wished(j)
  <2>1. /\ m = "top" /\ mode # "recurse" /\ j = RecursiveJob /\ doing["sub"].at = "none"
        /\ screen' = Append(screen, t) /\ \A k \in OutJobs : tmp'[k] = tmp[k]
    BY <1>2, <1>3, <1>6
  <2>2. ~Synced(t) /\ t.job \notin SubJobs
    BY <1>2, <2>1, OutNames DEF Synced
  <2>3. \A n \in MakeProcs : doing[n].at = "pump" => tmp[doing[n].job] = << >>
    BY <1>2, <2>1, OutNames
  <2>4. OutputKeptTogether' /\ UnitsOK'
    BY <1>0, <1>2, <2>1, <2>2, <2>3, UnsyncedShown
  <2>5. Told(screen')
    BY <1>0, <1>2, <2>1, <2>2, ToldAppended DEF DirsOK
  <2>6. doing'["sub"].at # "pump"
    BY <1>3, <2>1, OutNames
  <2>7. PlainOK'
    BY <1>0, <2>1, <2>6 DEF DirsOK, PlainOK
  <2> QED BY <1>2, <2>1, <2>4, <2>5, <2>7 DEF Kept, DirsOK
<1>7. CASE Wished(j) /\ (mode # "recurse" \/ m = "top")
  <2>1. /\ screen' = screen /\ tmp'[j] = Append(tmp[j], t) /\ traced' = traced
        /\ \A k \in OutJobs : k # j => tmp'[k] = tmp[k]
    BY <1>2, <1>7
  <2>2. ASSUME NEW u \in Texts, In(u, tmp'[j]) PROVE In(u, tmp[j]) \/ u = t
    BY <1>2, <2>1, <2>2, InAppended
  <2>3. \A k \in OutJobs : \A u \in Texts : In(u, tmp'[k]) => In(u, tmp[k]) \/ NewIn(u, k)
    BY <1>5, <2>1, <2>2
  <2>4. OutputKeptTogether' /\ UnitsOK'
    BY <1>0, <1>2, <1>4, <2>1, <2>3, UnitsKept
  <2>5. doing'["sub"].at = "pump" => doing["sub"].at = "pump"
    BY <1>3, OutNames
  <2>6. mode # "recurse" => PlainOK'
    <3> SUFFICES ASSUME mode # "recurse" PROVE PlainOK'
      OBVIOUS
    <3>1. ASSUME NEW u \in Texts, In(u, tmp'[RecursiveJob]) PROVE u.job = RecursiveJob
      <4>1. In(u, tmp[RecursiveJob]) \/ (j = RecursiveJob /\ u = t)
        BY <1>0, <2>1, <2>2, <3>1
      <4> QED BY <1>0, <1>2, <4>1 DEF DirsOK, PlainOK
    <3>2. doing'["sub"].at = "pump" => Open(screen)
      BY <1>0, <2>5 DEF DirsOK, PlainOK
    <3> QED BY <2>1, <3>1, <3>2 DEF PlainOK
  <2>7. mode = "recurse" => NestedOK'
    <3> SUFFICES ASSUME mode = "recurse" PROVE NestedOK'
      OBVIOUS
    <3>1. NestedOK /\ m = "top" /\ ~Dumping("top")
      BY <1>0, <1>2, <1>7 DEF DirsOK, Dumping
    <3>2. Told(tmp[RecursiveJob]) /\ ToldAfter(screen, tmp[RecursiveJob])
      BY <3>1 DEF NestedOK
    <3>3. CASE j = RecursiveJob
      <4>1. PICK q : q = tmp[RecursiveJob]
        OBVIOUS
      <4>2. /\ q \in Seq(Texts) /\ Told(q) /\ ToldAfter(screen, q) /\ tmp'[RecursiveJob] = Append(q, t)
            /\ t.job \notin SubJobs
        BY <1>2, <2>1, <3>2, <3>3, <4>1, OutNames
      <4>3. Told(Append(q, t))
        BY <1>2, <4>2, ToldAppended
      <4>4. ToldAfter(screen, Append(q, t))
        BY <1>2, <4>2, ToldAfterAppended
      <4>5. WorksFor("top", RecursiveJob)
        BY <1>1, <1>2, <3>1, <3>3 DEF WorksFor, Working, Echoes
      <4>6. traced => doing["sub"].at = "exit"
        BY <1>0, <3>1, <4>5, SubMakeWorks DEF NestedOK
      <4>7. /\ doing["sub"].at = "exit" => doing'["sub"].at = "exit"
            /\ \A i \in SubJobs : recipe'[i] = recipe[i]
        BY <1>3, <3>1, <3>3, OutNames
      <4> QED BY <2>1, <3>1, <4>2, <4>3, <4>4, <4>6, <4>7 DEF NestedOK
    <3>4. CASE j # RecursiveJob
      <4>1. tmp'[RecursiveJob] = tmp[RecursiveJob]
        BY <1>0, <2>1, <3>4
      <4>2. /\ doing["sub"].at \notin {"none", "start"} => doing'["sub"].at = doing["sub"].at
            /\ \A i \in SubJobs : recipe'[i] = recipe[i]
        BY <1>3, <3>1, OutNames
      <4> QED BY <2>1, <3>1, <3>2, <4>1, <4>2 DEF NestedOK
    <3> QED BY <3>3, <3>4
  <2> QED BY <1>0, <1>2, <2>1, <2>4, <2>6, <2>7 DEF Kept, DirsOK
<1>8. CASE mode = "recurse" /\ m = "sub"
  <2>1. /\ Wished(j) /\ screen' = screen /\ tmp'[j] = Append(tmp[j], t) /\ traced'
        /\ \A k \in OutJobs : k # j /\ k # RecursiveJob => tmp'[k] = tmp[k]
        /\ recipe[RecursiveJob].at = "run" /\ ~WorksFor("top", RecursiveJob) /\ j # RecursiveJob
        /\ traced => tmp'[RecursiveJob] = tmp[RecursiveJob]
        /\ ~traced => tmp'[RecursiveJob] = Append(tmp[RecursiveJob], Dir("enter"))
    BY <1>2, <1>8 DEF Wished
  <2>2. NestedOK /\ Dir("enter") \in Texts /\ Dir("enter").job \notin SubJobs
    BY <1>0, <1>8, SomeTexts, OutNames DEF DirsOK
  <2>3. PICK q, d : q = tmp[RecursiveJob] /\ d = Dir("enter")
    OBVIOUS
  <2>4. /\ q \in Seq(Texts) /\ d \in Texts /\ d.job \notin SubJobs /\ Told(q) /\ ToldAfter(screen, q)
        /\ traced => Open(q)
        /\ traced => tmp'[RecursiveJob] = q
        /\ ~traced => tmp'[RecursiveJob] = Append(q, d)
    BY <1>2, <1>8, <2>1, <2>2, <2>3 DEF NestedOK
  <2>5. ASSUME NEW k \in OutJobs, NEW u \in Texts, In(u, tmp'[k]) PROVE In(u, tmp[k]) \/ NewIn(u, k)
    <3>1. CASE k = j
      <4>0. In(u, Append(tmp[j], t))
        BY <2>1, <2>5, <3>1
      <4>1. In(u, tmp[j]) \/ u = t
        BY <1>2, <4>0, InAppended
      <4> QED BY <1>5, <3>1, <4>1
    <3>2. CASE k = RecursiveJob
      BY <1>8, <2>1, <3>2 DEF NewIn
    <3>3. CASE k # j /\ k # RecursiveJob
      BY <2>1, <2>5, <3>3
    <3> QED BY <3>1, <3>2, <3>3
  <2>6. OutputKeptTogether' /\ UnitsOK'
    BY <1>0, <1>2, <1>4, <2>1, <2>5, UnitsKept
  <2>7. Told(Append(q, d)) /\ ToldAfter(screen, Append(q, d)) /\ Open(Append(q, d))
    <3>1. Told(Append(q, d))
      BY <2>4, ToldAppended
    <3>2. ToldAfter(screen, Append(q, d))
      BY <2>4, ToldAfterAppended
    <3>3. Open(Append(q, d))
      BY <2>3, <2>4, OpenAppended
    <3> QED BY <3>1, <3>2, <3>3
  <2>8. /\ Told(tmp'[RecursiveJob]) /\ ToldAfter(screen', tmp'[RecursiveJob]) /\ Open(tmp'[RecursiveJob])
    <3>1. CASE traced
      BY <2>1, <2>4, <3>1
    <3>2. CASE ~traced
      BY <2>1, <2>4, <2>7, <3>2
    <3> QED BY <3>1, <3>2
  <2>9. NestedOK'
    BY <1>3, <1>8, <2>1, <2>8 DEF NestedOK
  <2> QED BY <1>0, <1>2, <1>8, <2>1, <2>6, <2>9 DEF Kept, DirsOK
<1>9. m \in {"top", "sub"}
  BY OutNames
<1> QED BY <1>6, <1>7, <1>8, <1>9

LEMMA KeptStays ==
  ASSUME Sound, TogetherOK, OutNext
  PROVE  TogetherOK'
<1> SUFFICES ASSUME faults' = 0 PROVE Kept'
  BY DEF TogetherOK
<1>1. OutTypes /\ Control /\ Advances
  BY ControlStays DEF Sound
<1>2. faults' = faults \/ faults' = faults + 1
  BY DEF OutNext, output_dump, DumpLock, DumpLockFails, DumpEnter, DumpText, DumpLeave, DumpUnlock,
         StartLine, Echo, EchoWithoutTmpfile, Reap, MakeDies, CommandWrites, SubMakeEnds, SubMakeStarts
<1>3. faults = 0 /\ faults' = faults
  <2>1. faults \in Nat
    BY <1>1 DEF OutTypes
  <2> QED BY <1>2, <2>1
<1>4. \A m \in MakeProcs : ~DumpLockFails(m) /\ ~EchoWithoutTmpfile(m)
  BY <1>3 DEF DumpLockFails, EchoWithoutTmpfile
<1>5. Kept
  BY <1>3 DEF TogetherOK
<1> QED BY <1>1, <1>3, <1>4, <1>5, QuietSteps, EnterKept, LeaveKept, TextKept, EchoKept, DiesKept,
           CommandKept, SubMakeKept DEF OutNext, output_dump

----------------------------------------------------------------------------
\* Nothing is discarded.
LEMMA CountIs ==
  ASSUME NEW s \in Seq(Texts), NEW t,
         \A i, k \in DOMAIN s : s[i] = t /\ s[k] = t => i = k
  PROVE  Count(s, t) = IF In(t, s) THEN 1 ELSE 0
<1>1. CASE In(t, s)
  <2>1. PICK i \in DOMAIN s : s[i] = t
    BY <1>1 DEF In
  <2>2. {k \in DOMAIN s : s[k] = t} = {i}
    BY <2>1
  <2>3. Cardinality({i}) = 1
    BY FS_Singleton
  <2> QED BY <1>1, <2>2, <2>3 DEF Count
<1>2. CASE ~In(t, s)
  <2>1. {k \in DOMAIN s : s[k] = t} = {}
    BY <1>2 DEF In
  <2>2. Cardinality({}) = 0
    BY FS_EmptySet
  <2> QED BY <1>2, <2>1, <2>2 DEF Count
<1> QED BY <1>1, <1>2

LEMMA AllShown ==
  ASSUME Sound, doing["top"].at = "exit", NEW j \in OutJobs
  PROVE  tmp[j] = << >>
<1>1. OutTypes /\ SubOK /\ FileOK(j)
  BY DEF Sound, Control, FilesOK
<1>2. CASE j \notin SubJobs
  BY <1>1, <1>2, OutNames DEF SubOK, FileOK, WorksFor, Working
<1>3. CASE j \in SubJobs
  <2>1. recipe[RecursiveJob].at = "done"
    BY <1>1, OutNames DEF SubOK
  <2>2. doing["sub"].at \in {"none", "exit"}
    BY <1>1, <2>1 DEF SubOK
  <2>3. recipe[j].at \in {"new", "done"}
    BY <1>1, <1>3, <2>2 DEF SubOK
  <2> QED BY <1>1, <1>3, <2>2, <2>3, OutNames DEF FileOK, WorksFor, Working
<1> QED BY <1>2, <1>3

LEMMA SoundKeeps ==
  ASSUME Sound
  PROVE  NothingDiscarded
<1>0. OutTypes /\ FilesOK /\ OrderOK /\ WrittenOK
  BY DEF Sound
<1> SUFFICES ASSUME NEW t \in texts_written
             PROVE  \/ Count(screen, t) = 1 /\ \A j \in OutJobs : Count(tmp[j], t) = 0
                    \/ /\ doing["top"].at # "exit" /\ Count(screen, t) = 0
                       /\ \E j \in OutJobs : Count(tmp[j], t) = 1
                                    /\ \A k \in OutJobs \ {j} : Count(tmp[k], t) = 0
  BY DEF NothingDiscarded
<1>1. t \in Texts /\ t.job # "directory" /\ Somewhere(t, screen, tmp)
  BY <1>0 DEF OutTypes, WrittenOK
<1>2. /\ screen \in Seq(Texts) /\ \A j \in OutJobs : tmp[j] \in Seq(Texts)
      /\ \A j \in OutJobs : ~(In(t, screen) /\ In(t, tmp[j]))
      /\ \A j, k \in OutJobs : In(t, tmp[j]) /\ In(t, tmp[k]) => j = k
  BY <1>0, <1>1, OnePlace, OutFacts
<1>3. Count(screen, t) = IF In(t, screen) THEN 1 ELSE 0
  BY <1>0, <1>1, <1>2, OnePlace, CountIs
<1>4. ASSUME NEW j \in OutJobs PROVE Count(tmp[j], t) = IF In(t, tmp[j]) THEN 1 ELSE 0
  BY <1>0, <1>1, <1>2, OnePlace, CountIs
<1>5. CASE In(t, screen)
  BY <1>2, <1>3, <1>4, <1>5
<1>6. CASE ~In(t, screen)
  <2>1. PICK j \in OutJobs : In(t, tmp[j])
    BY <1>1, <1>6 DEF Somewhere
  <2>2. doing["top"].at # "exit"
    BY <2>1, AllShown DEF In
  <2>3. \A k \in OutJobs \ {j} : Count(tmp[k], t) = 0
    BY <1>2, <1>4, <2>1
  <2> QED BY <1>3, <1>4, <1>6, <2>1, <2>2, <2>3
<1> QED BY <1>5, <1>6

LEMMA OutInvCorrect ==
  ASSUME OutInv
  PROVE  OutputCorrect
<1>0. Sound /\ OutTypes /\ OrderOK /\ LockOK /\ TogetherOK
  BY DEF OutInv, Sound
<1>1. OutTypeOK
  <2>1. /\ lock \in MakeProcs \cup {"none"}
        /\ \A m \in MakeProcs : output_sync[m] \in {mode, "none"} /\ doing[m] \in Doings
        /\ \A j \in OutJobs : /\ recipe[j].at \in {"new", "run", "ended", "done"}
                              /\ recipe[j].line \in Nat \ {0} /\ recipe[j].line <= LinesOf[j]
    BY <1>0, OutFacts DEF OutTypes
  <2>2. \A j \in OutJobs : recipe[j].line \in 1 .. LinesOf[j]
    BY <2>1, OutNames
  <2>3. \A m \in MakeProcs : doing[m].at \in {"none", "start", "idle", "next", "echo", "lock", "enter",
                                              "pump", "unlock", "exit"}
    BY <2>1 DEF Doings, Steps
  <2> QED BY <2>1, <2>2, <2>3 DEF OutTypeOK
<1>2. OutputKeptTogether
  BY <1>0 DEF TogetherOK, Kept, OutputKeptTogether
<1>3. NothingDiscarded
  BY <1>0, SoundKeeps
<1>4. ShownInOrder
  BY <1>0 DEF OrderOK, Ordered, Sorted, SameWriter, Earlier, ShownInOrder
<1>5. DirectoryTold
  <2> SUFFICES ASSUME faults = 0, NEW k \in DOMAIN screen, screen[k].job \in SubJobs
               PROVE  \E i \in 1..k : /\ screen[i] = Dir("enter")
                                      /\ \A l \in i..k : screen[l] # Dir("leave")
                                             /\ screen[l].job \in SubJobs \cup {"directory"}
    BY DEF DirectoryTold
  <2>1. Inside(screen, k)
    BY <1>0 DEF TogetherOK, Kept, DirsOK, Told
  <2> QED BY <2>1 DEF Inside, OfSub
<1>6. SubMakeFailsAfterFault
  BY <1>0 DEF LockOK, GivenUpOK, SubMakeFailsAfterFault
<1> QED BY <1>1, <1>2, <1>3, <1>4, <1>5, <1>6 DEF OutputCorrect

LEMMA OutInitInv == OutInit => OutInv
<1> SUFFICES ASSUME OutInit PROVE OutInv
  OBVIOUS
<1>1. /\ \A m \in MakeProcs : /\ doing[m].at = (IF m = "top" THEN "idle" ELSE "none")
                              /\ doing[m].job = RecursiveJob /\ doing[m].then = "idle"
                              /\ output_sync[m] = mode /\ osync_handle[m] = (m = "top")
      /\ \A j \in OutJobs : /\ recipe[j].at = "new" /\ recipe[j].line = 1 /\ tmp[j] = << >>
                            /\ ~to_tmp[j] /\ ~tmp_set[j]
      /\ screen = << >> /\ texts_written = {} /\ mutex_file /\ ~traced /\ faults = 0
  BY DEF OutInit, IdleMake
<1>2. OutTypes
  <2>1. mode \in {"line", "target", "recurse"} /\ output_sync \in [MakeProcs -> {mode, "none"}]
    BY DEF OutInit
  <2>2. osync_handle \in [MakeProcs -> BOOLEAN] /\ mutex_file \in BOOLEAN /\ lock \in MakeProcs \cup {"none"}
    BY DEF OutInit
  <2>3. doing \in [MakeProcs -> Doings]
    BY OutNames DEF OutInit, IdleMake, Doings, Steps
  <2>4. recipe \in [OutJobs -> Recipes] /\ \A j \in OutJobs : recipe[j].line <= LinesOf[j]
    <3>1. \A j \in OutJobs : LinesOf[j] \in Nat \ {0}
      BY OutNames
    <3>2. recipe \in [OutJobs -> Recipes]
      BY DEF OutInit, Recipes
    <3>3. \A n \in Nat \ {0} : 1 <= n
      OBVIOUS
    <3> QED BY <1>1, <3>1, <3>2, <3>3
  <2>5. /\ syncout \in [OutJobs -> BOOLEAN] /\ tmp_set \in [OutJobs -> BOOLEAN]
        /\ to_tmp \in [OutJobs -> BOOLEAN] /\ traced \in BOOLEAN /\ faults \in Nat
        /\ texts_written \subseteq Texts /\ \A t \in texts_written : t.job # "directory"
    BY DEF OutInit
  <2>6. tmp \in [OutJobs -> Seq(Texts)] /\ screen \in Seq(Texts)
    <3>1. << >> \in Seq(Texts)
      OBVIOUS
    <3> QED BY <3>1 DEF OutInit
  <2> QED BY <2>1, <2>2, <2>3, <2>4, <2>5, <2>6 DEF OutTypes
<1>3. Control
  <2>1. \A m \in MakeProcs : StageOK(m)
    BY <1>1 DEF StageOK, Working
  <2>2. SubOK
    BY <1>1, OutNames DEF SubOK, LineBegun
  <2> QED BY <2>1, <2>2 DEF Control
<1>4. \A t : ~In(t, << >>)
  BY DEF In
<1>5. FilesOK
  BY <1>1, <1>4 DEF FilesOK, FileOK
<1>6. OrderOK
  <2>1. Sorted(<< >>)
    BY DEF Sorted
  <2>2. RecursiveJob \in OutJobs
    BY OutNames
  <2> QED BY <1>1, <1>4, <2>1, <2>2 DEF OrderOK, Ordered, Precedes
<1>7. WrittenOK
  BY <1>1, <1>4 DEF WrittenOK, Somewhere
<1>8. LockOK
  <2>1. ASSUME NEW m \in MakeProcs PROVE DumpOK(m) /\ HeldOK(m)
    BY <1>1, <2>1 DEF DumpOK, HeldOK, DumpSteps, Dumping
  <2>2. GivenUpOK /\ SyncedOK
    BY <1>1, OutNames DEF GivenUpOK, SyncedOK
  <2> QED BY <2>1, <2>2 DEF LockOK
<1>9. Kept
  <2>1. OutputKeptTogether /\ UnitsOK
    BY <1>1, <1>4 DEF OutputKeptTogether, UnitsOK
  <2>2. PlainOK
    BY <1>1, <1>4, OutNames DEF PlainOK
  <2>3. NestedOK
    <3>1. tmp[RecursiveJob] = << >> /\ \A j \in SubJobs : recipe[j].at = "new"
      BY <1>1, OutNames
    <3> QED BY <1>1, <3>1, ToldNothing DEF NestedOK
  <2>4. Told(screen)
    BY <1>1, ToldNothing
  <2> QED BY <2>1, <2>2, <2>3, <2>4 DEF Kept, DirsOK
<1> QED BY <1>2, <1>3, <1>5, <1>6, <1>7, <1>8, <1>9 DEF OutInv, Sound, TogetherOK

LEMMA OutInvStays == OutInv /\ [OutNext]_outVars => OutInv'
<1> SUFFICES ASSUME OutInv, [OutNext]_outVars PROVE OutInv'
  OBVIOUS
<1>1. Sound /\ TogetherOK /\ OutTypes /\ Control /\ FilesOK /\ OrderOK /\ WrittenOK /\ LockOK
  BY DEF OutInv, Sound
<1>2. CASE OutNext
  BY <1>1, <1>2, OutTypesStay, ControlStays, FilesStay, OrderStays, LockStays, KeptStays DEF OutInv, Sound
<1>3. CASE UNCHANGED outVars
  <2>1. OutTypes' /\ FilesOK' /\ OrderOK' /\ WrittenOK'
    BY <1>1, <1>3 DEF outVars, OutTypes, FilesOK, FileOK, WorksFor, Working, OrderOK, WrittenOK, Behind, LineBegun,
                      Pending, Somewhere
  <2>2. Control' /\ LockOK'
    BY <1>1, <1>3 DEF outVars, Control, StageOK, SubOK, Working, IsRecursive, LineBegun, Pending, LockOK, DumpOK,
                      GivenUpOK, HeldOK, SyncedOK, Dumping, Wished
  <2>3. TogetherOK'
    <3>1. \A t : FileOf(t)' = FileOf(t) /\ Unit(t)' = Unit(t) /\ (Synced(t)' <=> Synced(t))
      BY <1>3, SameUnits DEF outVars
    <3>2. UnitsOK => UnitsOK'
      BY <1>3, <3>1 DEF outVars, UnitsOK, UnitOK, Passed, Over
    <3>3. OutputKeptTogether => OutputKeptTogether'
      BY <1>3, <3>1 DEF outVars, OutputKeptTogether
    <3>4. DirsOK => DirsOK'
      BY <1>3 DEF outVars, DirsOK, PlainOK, NestedOK, WorksFor, Working, Dumping
    <3> QED BY <1>1, <1>3, <3>2, <3>3, <3>4 DEF outVars, TogetherOK, Kept
  <2> QED BY <2>1, <2>2, <2>3 DEF OutInv, Sound
<1> QED BY <1>2, <1>3

\* What jobs and makes write is shown as --output-sync promises: a unit (a line
\* or a target) in one piece and the sub-make's between its messages about
\* directories while no call fails; every text of a job once and in the order it
\* was written, and a sub-make that gives up only after a call failed, always.
\* For every tree of one make and a sub-make, every set of jobs, number of lines
\* and number of failing calls (OutputCorrect).
THEOREM OutputStaysCorrect == OutInit /\ [][OutNext]_outVars => []OutputCorrect
<1> QED BY OutInitInv, OutInvStays, OutInvCorrect, PTL
====
