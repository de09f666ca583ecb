---- MODULE MakeUpdateProofs ----
(***************************************************************************)
(* Proofs about how GNU make brings its goals up to date (MakeUpdate), for *)
(* every set of files, makefile, order of the lists, number of job slots   *)
(* and outcome of the recipes.                                             *)
(*                                                                         *)
(* The argument is about the stack.  The activations of update_file_1 form *)
(* a chain in which each needs the file of the one inside it (WellStacked),*)
(* so that a prerequisite found on the stack does close a circle; updating *)
(* marks the files of the stack (UpdatingIn); and while a file is on it no *)
(* recipe of its group has run, for whoever starts one leaves the whole    *)
(* group running or finished (RunsIn), which update_file does not enter.   *)
(*                                                                         *)
(* All this is for makefiles whose groups stand apart (GroupsApart): the   *)
(* targets of a group need none of each other.  Where they do, the same    *)
(* recipe can be reached again from within its own prerequisites.          *)
(*                                                                         *)
(* That a recipe waits for its prerequisites is about the activations too: *)
(* one that waits for nothing and saw no failure has each prerequisite of  *)
(* its group made, or still before it (WalkedIn).  What was made stays so, *)
(* except for what the group of a running recipe makes (ChildrenIn), so    *)
(* its targets must have one recipe (GroupsAlike), or one of them made     *)
(* without it gets the outcome of the other after it was used.             *)
(***************************************************************************)
EXTENDS MakeUpdate, FiniteSetTheorems, SequenceTheorems, TLAPS

Pairs == Files \X Files
FileShape == [command_state : States, updated : BOOLEAN, update_status : Statuses,
              last_mtime : Nat \cup {UNKNOWN_MTIME}, updating : BOOLEAN, changed : SUBSET Files]
FrameShape == [file : Files, todo : Seq(Pairs), kept : BOOLEAN, lists : Seq(Files),
               noexist : BOOLEAN, this_mtime : Nat, must_make : BOOLEAN, running : BOOLEAN,
               dep_status : {"success", "failed"}, d_mtime : Nat]

\* Listed, Shuffled and what follows from them, of a makefile m whose lists are
\* walked in the order sh and have been shortened to dps.
ListedIn(m, f) == [i \in DOMAIN m.deps[f] |-> <<f, m.deps[f][i]>>]
Own(m, f) == ToSet(ListedIn(m, f))
VisitIn(m, sh, p) == sh[p[1]][CHOOSE i \in DOMAIN ListedIn(m, p[1]) : ListedIn(m, p[1])[i] = p]
CalledIn(m, sh, fr) == VisitIn(m, sh, Head(fr.todo))[2]

ListsIn(m, sh, dps) ==
    /\ sh \in [Files -> Seq(Pairs)] /\ dps \in [Files -> Seq(Pairs)]
    /\ \A f \in Files : /\ DOMAIN sh[f] = DOMAIN ListedIn(m, f)
                        /\ ToSet(sh[f]) \subseteq Own(m, f) /\ ToSet(dps[f]) \subseteq Own(m, f)

\* What f needs, directly or not.
UnderIn(m, f) == UNION {BelowIn(m, d) : d \in NeedsIn(m, f)}

\* A grouped target is in one group, and nobody of the group is needed by it.
GroupsApart(m) ==
    \A f \in Files :
        /\ \A g \in PeersIn(m, f) : GroupIn(m, g) = GroupIn(m, f)
        /\ PeersIn(m, f) # {} => GroupIn(m, f) \cap UnderIn(m, f) = {}

CircleIn(m, p) == p[1] \in BelowIn(m, p[2])
DroppedIn(m, sh, dps) ==
    \A f \in Files : \A p \in Own(m, f) \ ToSet(dps[f]) :
        IF sh[f] = ListedIn(m, f) THEN CircleIn(m, p) ELSE \E q \in Own(m, f) : CircleIn(m, q)

\* An activation walks a list of its group; until a prerequisite was kept what
\* is left of it is all of it.
FrameOK(m, dps, fr) ==
    /\ ToSet(fr.lists) \subseteq PeersIn(m, fr.file)
    /\ \A p \in ToSet(fr.todo) : p[1] \in GroupIn(m, fr.file) /\ p \in Own(m, p[1])
    /\ PeersIn(m, fr.file) = {} /\ ~fr.kept /\ fr.todo # << >> => fr.todo = dps[fr.file]

\* Each activation but the innermost waits for the one it called, and needs it;
\* no file is made by two of them.
WellStacked(m, sh, dps, s) ==
    /\ s \in Seq(FrameShape)
    /\ \A i \in DOMAIN s : FrameOK(m, dps, s[i])
    /\ \A i, j \in DOMAIN s : s[i].file = s[j].file => i = j
    /\ \A i, j \in DOMAIN s : i < j => s[i].file \in UnderIn(m, s[j].file)
    /\ \A i \in DOMAIN s : i > 1 => s[i].todo # << >> /\ CalledIn(m, sh, s[i]) = s[i - 1].file

WhereIn(m, sh, s, a) ==
    /\ a \in {"pass", "scan"} => s = << >>
    /\ a \in {"deps", "new_job", "started", "linear"} => s # << >>
    /\ a = "returned" /\ s # << >> =>
          /\ s[1].todo # << >>
          /\ \A i \in DOMAIN s : s[i].file # CalledIn(m, sh, s[1])

\* updating marks the files on the stack, and no longer the one whose recipe is
\* about to start.
UpdatingIn(fs, s, a) ==
    /\ \A f \in Files : fs[f].updating => \E i \in DOMAIN s : s[i].file = f
    /\ a \in {"new_job", "started", "linear"} => ~fs[s[1].file].updating
    /\ a \in {"deps", "returned"} => \A i \in DOMAIN s : fs[s[i].file].updating
    /\ a \in {"new_job", "started", "linear"} => \A i \in DOMAIN s : i > 1 => fs[s[i].file].updating

Begun == {"running", "finished"}

RunsOnceIn(m, rs) ==
    \A f \in Files : \A g, h \in GroupIn(m, f) : rs[g] > 0 /\ rs[h] > 0 => g = h /\ rs[g] = 1

NoneRan(m, rs, f) == \A g \in GroupIn(m, f) : rs[g] = 0

\* Once the recipe of a group was started all of the group is running or
\* finished; before its own activation starts it, it was not.
RunsBegun(m, fs, rs) ==
    \A f \in Files : rs[f] > 0 => \A g \in GroupIn(m, f) : fs[g].command_state \in Begun

RunsIn(m, fs, rs, s, a) ==
    /\ RunsOnceIn(m, rs) /\ RunsBegun(m, fs, rs)
    /\ \A i \in DOMAIN s :
          \/ NoneRan(m, rs, s[i].file)
          \/ i = 1 /\ a \in {"started", "linear"}
          \/ a \in {"die", "exited"}

Calling == {"deps", "new_job", "started", "linear", "returned"}

MakeTypes ==
    /\ mf \in Makefiles /\ job_slots \in JobSlots /\ keep_going_flag \in KeepGoing
    /\ file \in [Files -> FileShape] /\ considered \subseteq Files
    /\ at \in Where /\ ret \in Statuses /\ goal_status \in Statuses
    /\ goals \in Seq(Files) /\ visited \in 0 .. Len(goals)
    /\ at \in Calling => visited < Len(goals)

WorldTypes ==
    /\ DOMAIN children \subseteq Files /\ Cardinality(DOMAIN children) <= job_slots
    /\ disk \in [Files -> Nat] /\ now \in Nat /\ runs \in [Files -> Nat]

MakeInv ==
    /\ GroupsApart(mf) /\ MakeTypes /\ WorldTypes
    /\ ListsIn(mf, shuf, deps) /\ DroppedIn(mf, shuf, deps)
    /\ WellStacked(mf, shuf, deps, stack) /\ WhereIn(mf, shuf, stack, at)
    /\ UpdatingIn(file, stack, at) /\ RunsIn(mf, file, runs, stack, at)

----------------------------------------------------------------------------
(***************************************************************************)
(* What a file needs                                                       *)
(***************************************************************************)
LEMMA ShapeOfMakefile ==
  ASSUME NEW m \in Makefiles
  PROVE  /\ m.deps \in [Files -> Seq(Files)] /\ m.also_make \in [Files -> Seq(Files)]
         /\ m.goals \in Seq(Files)
         /\ \A f \in Files : /\ PeersIn(m, f) \subseteq Files /\ GroupIn(m, f) \subseteq Files
                             /\ f \in GroupIn(m, f) /\ NeedsIn(m, f) \subseteq Files
<1>1. m \in MakefileShape
  BY MakeAssumption
<1>2. m.deps \in [Files -> Seq(Files)] /\ m.also_make \in [Files -> Seq(Files)] /\ m.goals \in Seq(Files)
  BY <1>1 DEF MakefileShape
<1>3. \A f \in Files : ToSet(m.also_make[f]) \subseteq Files /\ ToSet(m.deps[f]) \subseteq Files
  BY <1>2 DEF ToSet
<1> QED BY <1>2, <1>3 DEF PeersIn, GroupIn, NeedsIn

LEMMA BelowClosed ==
  ASSUME NEW m \in Makefiles, NEW f \in Files
  PROVE  /\ f \in BelowIn(m, f) /\ BelowIn(m, f) \subseteq Files
         /\ \A x \in BelowIn(m, f) : NeedsIn(m, x) \subseteq BelowIn(m, f)
         /\ \A x \in BelowIn(m, f) : BelowIn(m, x) \subseteq BelowIn(m, f)
<1>1. f \in BelowIn(m, f) /\ BelowIn(m, f) \subseteq Files
  BY DEF BelowIn
<1>2. ASSUME NEW x \in BelowIn(m, f), NEW y \in NeedsIn(m, x)
      PROVE  y \in BelowIn(m, f)
  <2>1. x \in Files
    BY <1>2 DEF BelowIn
  <2>2. y \in Files
    BY <1>2, <2>1, ShapeOfMakefile
  <2>3. ASSUME NEW S \in SUBSET Files, f \in S, \A z \in S : NeedsIn(m, z) \subseteq S
        PROVE  y \in S
    <3>1. x \in S
      BY <1>2, <2>3 DEF BelowIn
    <3> QED BY <1>2, <2>3, <3>1
  <2> QED BY <2>2, <2>3 DEF BelowIn
<1>3. ASSUME NEW x \in BelowIn(m, f), NEW y \in BelowIn(m, x)
      PROVE  y \in BelowIn(m, f)
  <2>1. BelowIn(m, f) \in SUBSET Files
    BY <1>1
  <2> QED BY <1>2, <1>3, <2>1, Zenon DEF BelowIn
<1> QED BY <1>1, <1>2, <1>3

LEMMA UnderClosed ==
  ASSUME NEW m \in Makefiles, NEW f \in Files
  PROVE  /\ NeedsIn(m, f) \subseteq UnderIn(m, f) /\ UnderIn(m, f) \subseteq BelowIn(m, f)
         /\ \A x \in UnderIn(m, f) : NeedsIn(m, x) \subseteq UnderIn(m, f)
         /\ \A d \in NeedsIn(m, f) : BelowIn(m, d) \subseteq UnderIn(m, f)
<1>1. NeedsIn(m, f) \subseteq Files
  BY ShapeOfMakefile
<1>2. \A d \in NeedsIn(m, f) : BelowIn(m, d) \subseteq UnderIn(m, f)
  BY Zenon DEF UnderIn
<1>3. NeedsIn(m, f) \subseteq UnderIn(m, f)
  BY <1>1, <1>2, BelowClosed
<1>4. UnderIn(m, f) \subseteq BelowIn(m, f)
  <2>1. \A d \in NeedsIn(m, f) : BelowIn(m, d) \subseteq BelowIn(m, f)
    BY BelowClosed
  <2> QED BY <2>1 DEF UnderIn
<1>5. ASSUME NEW x \in UnderIn(m, f), NEW y \in NeedsIn(m, x) PROVE y \in UnderIn(m, f)
  <2>1. PICK d \in NeedsIn(m, f) : x \in BelowIn(m, d)
    BY <1>5 DEF UnderIn
  <2>2. y \in BelowIn(m, d)
    BY <1>1, <1>5, <2>1, BelowClosed
  <2> QED BY <1>2, <2>1, <2>2
<1> QED BY <1>2, <1>3, <1>4, <1>5

\* Groups: membership is mutual.
LEMMA SameGroup ==
  ASSUME NEW m \in Makefiles, GroupsApart(m), NEW f \in Files, NEW g \in GroupIn(m, f)
  PROVE  g \in Files /\ GroupIn(m, g) = GroupIn(m, f) /\ f \in GroupIn(m, g)
<1>1. g \in Files /\ f \in GroupIn(m, f)
  BY ShapeOfMakefile
<1>2. CASE g = f
  BY <1>1, <1>2
<1>3. CASE g \in PeersIn(m, f)
  BY <1>1, <1>3 DEF GroupsApart
<1> QED BY <1>2, <1>3 DEF GroupIn

----------------------------------------------------------------------------
(***************************************************************************)
(* Sequences and lists                                                     *)
(***************************************************************************)
LEMMA IsSequence ==
  ASSUME NEW S, NEW n \in Nat, NEW s \in [1 .. n -> S]
  PROVE  s \in Seq(S)
BY SeqDef

LEMMA TopOf ==
  ASSUME NEW S, NEW s \in Seq(S), s # << >>
  PROVE  /\ Head(s) \in S /\ Head(s) = s[1] /\ 1 \in DOMAIN s
         /\ Tail(s) \in Seq(S) /\ ToSet(Tail(s)) \subseteq ToSet(s) /\ Head(s) \in ToSet(s)
         /\ \A x \in ToSet(s) : x = Head(s) \/ x \in ToSet(Tail(s))
         /\ DOMAIN Tail(s) \subseteq Nat \ {0}
         /\ \A i \in DOMAIN Tail(s) : i + 1 \in DOMAIN s /\ Tail(s)[i] = s[i + 1] /\ i + 1 # 1
         /\ \A i \in DOMAIN s : i # 1 => i - 1 \in DOMAIN Tail(s) /\ s[i] = Tail(s)[i - 1]
<1>1. /\ Head(s) \in S /\ Head(s) = s[1] /\ 1 \in DOMAIN s /\ Tail(s) \in Seq(S)
      /\ DOMAIN Tail(s) \subseteq Nat \ {0}
      /\ \A i \in DOMAIN Tail(s) : i + 1 \in DOMAIN s /\ Tail(s)[i] = s[i + 1] /\ i + 1 # 1
      /\ \A i \in DOMAIN s : i # 1 => i - 1 \in DOMAIN Tail(s) /\ s[i] = Tail(s)[i - 1]
  OBVIOUS
<1>2. ASSUME NEW x \in ToSet(s) PROVE x = Head(s) \/ x \in ToSet(Tail(s))
  BY <1>1 DEF ToSet
<1> QED BY <1>1, <1>2 DEF ToSet

LEMMA Replaced ==
  ASSUME NEW S, NEW s \in Seq(S), s # << >>, NEW x \in S
  PROVE  LET t == <<x>> \o Tail(s) IN
         /\ t \in Seq(S) /\ t # << >> /\ Head(t) = x /\ Tail(t) = Tail(s) /\ t[1] = x
         /\ DOMAIN t = DOMAIN s /\ Len(t) = Len(s) /\ \A i \in DOMAIN s : i # 1 => t[i] = s[i]
         /\ DOMAIN s \subseteq Nat \ {0} /\ 1 \in DOMAIN s
<1> DEFINE t == <<x>> \o Tail(s)
<1>1. Tail(s) \in Seq(S) /\ <<x>> \in Seq(S) /\ Len(<<x>>) = 1 /\ Len(Tail(s)) = Len(s) - 1
      /\ Len(s) \in Nat /\ Len(s) >= 1
  OBVIOUS
<1>2. t \in Seq(S) /\ Len(t) = Len(s) /\ t[1] = x
      /\ \A i \in 1 .. Len(s) - 1 : t[i + 1] = Tail(s)[i]
  BY <1>1
<1>3. \A i \in 1 .. Len(s) - 1 : Tail(s)[i] = s[i + 1]
  BY <1>1
<1>4. DOMAIN t = 1 .. Len(s) /\ DOMAIN s = 1 .. Len(s)
  BY <1>1, <1>2
<1>5. \A i \in DOMAIN s : i # 1 => t[i] = s[i]
  <2>1. ASSUME NEW i \in DOMAIN s, i # 1 PROVE t[i] = s[i]
    <3>1. i - 1 \in 1 .. Len(s) - 1 /\ (i - 1) + 1 = i
      BY <1>1, <1>4, <2>1
    <3> QED BY <1>2, <1>3, <3>1
  <2> QED BY <2>1
<1>6. Tail(t) = Tail(s) /\ Head(t) = x
  <2>1. Tail(t) \in Seq(S) /\ Len(Tail(t)) = Len(s) - 1
    BY <1>1, <1>2
  <2>2. \A i \in 1 .. Len(s) - 1 : Tail(t)[i] = t[i + 1]
    BY <1>1, <1>2
  <2>3. Tail(t) = Tail(s)
    <3> HIDE DEF t
    <3> QED BY <1>1, <1>2, <2>1, <2>2, SeqEqual
  <2> QED BY <1>1, <1>2, <2>3
<1> QED BY <1>1, <1>2, <1>4, <1>5, <1>6

LEMMA PushedOn ==
  ASSUME NEW S, NEW s \in Seq(S), NEW x \in S
  PROVE  LET t == <<x>> \o s IN
         /\ t \in Seq(S) /\ t # << >> /\ t[1] = x /\ Head(t) = x /\ 1 \in DOMAIN t
         /\ DOMAIN t \subseteq Nat \ {0}
         /\ \A i \in DOMAIN t : i # 1 => i - 1 \in DOMAIN s /\ t[i] = s[i - 1]
         /\ \A i \in DOMAIN s : i \in Nat /\ i + 1 \in DOMAIN t /\ t[i + 1] = s[i]
<1> DEFINE t == <<x>> \o s
<1>1. <<x>> \in Seq(S) /\ Len(<<x>>) = 1 /\ Len(s) \in Nat /\ DOMAIN s = 1 .. Len(s)
  OBVIOUS
<1>2. t \in Seq(S) /\ Len(t) = Len(s) + 1 /\ t[1] = x /\ \A i \in 1 .. Len(s) : t[i + 1] = s[i]
  BY <1>1
<1>3. DOMAIN t = 1 .. Len(s) + 1
  BY <1>1, <1>2
<1>4. ASSUME NEW i \in DOMAIN t, i # 1 PROVE i - 1 \in DOMAIN s /\ t[i] = s[i - 1]
  <2>1. i - 1 \in 1 .. Len(s) /\ (i - 1) + 1 = i
    BY <1>1, <1>3, <1>4
  <2> QED BY <1>1, <1>2, <2>1
<1>5. t # << >> /\ Head(t) = x
  BY <1>1, <1>2
<1> HIDE DEF t
<1>6. t \in Seq(S) /\ t # << >> /\ t[1] = x /\ Head(t) = x /\ 1 \in DOMAIN t
      /\ DOMAIN t \subseteq Nat \ {0}
  BY <1>1, <1>2, <1>3, <1>5
<1>7. \A i \in DOMAIN s : i \in Nat /\ i + 1 \in DOMAIN t /\ t[i + 1] = s[i]
  BY <1>1, <1>2, <1>3
<1> QED BY <1>4, <1>6, <1>7 DEF t

LEMMA RemovedFrom ==
  ASSUME NEW S, NEW s \in Seq(S), NEW i \in DOMAIN s
  PROVE  /\ RemoveAt(s, i) \in Seq(S) /\ Len(RemoveAt(s, i)) = Len(s) - 1
         /\ ToSet(RemoveAt(s, i)) \subseteq ToSet(s)
         /\ \A x \in ToSet(s) : x # s[i] => x \in ToSet(RemoveAt(s, i))
<1> DEFINE l == SubSeq(s, 1, i - 1)
           r == SubSeq(s, i + 1, Len(s))
           t == l \o r
<1>1. Len(s) \in Nat /\ DOMAIN s = 1 .. Len(s) /\ i \in 1 .. Len(s)
  OBVIOUS
<1>2. /\ l \in Seq(S) /\ Len(l) = i - 1 /\ \A k \in 1 .. i - 1 : l[k] = s[k]
  BY <1>1
<1>3. /\ r \in Seq(S) /\ Len(r) = Len(s) - i /\ \A k \in 1 .. Len(s) - i : r[k] = s[i + k]
  BY <1>1
<1> HIDE DEF l, r
<1>4. /\ t \in Seq(S) /\ Len(t) = Len(s) - 1 /\ DOMAIN t = 1 .. Len(s) - 1
      /\ \A k \in 1 .. i - 1 : t[k] = l[k]
      /\ \A k \in 1 .. Len(s) - i : t[(i - 1) + k] = r[k]
  <2>1. Len(l) \in Nat /\ Len(r) \in Nat
    BY <1>1, <1>2, <1>3
  <2>2. /\ t \in Seq(S) /\ Len(t) = Len(l) + Len(r)
        /\ \A k \in 1 .. Len(l) : t[k] = l[k]
        /\ \A k \in 1 .. Len(r) : t[Len(l) + k] = r[k]
    <3>1. /\ l \o r \in Seq(S) /\ Len(l \o r) = Len(l) + Len(r)
          /\ \A k \in 1 .. Len(l) + Len(r) :
                (l \o r)[k] = IF k <= Len(l) THEN l[k] ELSE r[k - Len(l)]
      BY <1>2, <1>3, ConcatProperties
    <3>2. \A k \in 1 .. Len(l) : k \in 1 .. Len(l) + Len(r) /\ k <= Len(l)
      BY <2>1
    <3>3. \A k \in 1 .. Len(r) : Len(l) + k \in 1 .. Len(l) + Len(r) /\ ~(Len(l) + k <= Len(l))
                                 /\ (Len(l) + k) - Len(l) = k
      BY <2>1
    <3> QED BY <3>1, <3>2, <3>3
  <2> HIDE DEF t
  <2> QED BY <1>1, <1>2, <1>3, <2>2
<1> HIDE DEF t
<1>5. ASSUME NEW k \in 1 .. Len(s) - 1 PROVE \E j \in DOMAIN s : t[k] = s[j]
  <2>1. CASE k < i
    <3>1. k \in 1 .. i - 1 /\ k \in DOMAIN s
      BY <1>1, <2>1
    <3> QED BY <1>2, <1>4, <3>1
  <2>2. CASE ~(k < i)
    <3>1. k - (i - 1) \in 1 .. Len(s) - i /\ (i - 1) + (k - (i - 1)) = k
          /\ i + (k - (i - 1)) \in DOMAIN s
      BY <1>1, <2>2
    <3> QED BY <1>3, <1>4, <3>1
  <2> QED BY <2>1, <2>2
<1>6. ASSUME NEW j \in DOMAIN s, s[j] # s[i] PROVE \E k \in 1 .. Len(s) - 1 : t[k] = s[j]
  <2>1. CASE j < i
    <3>1. j \in 1 .. i - 1 /\ j \in 1 .. Len(s) - 1
      BY <1>1, <2>1
    <3> QED BY <1>2, <1>4, <3>1
  <2>2. CASE j > i
    <3>1. j - i \in 1 .. Len(s) - i /\ i + (j - i) = j /\ (i - 1) + (j - i) \in 1 .. Len(s) - 1
      BY <1>1, <2>2
    <3>2. t[(i - 1) + (j - i)] = s[j]
      BY <1>3, <1>4, <3>1
    <3> QED BY <3>1, <3>2
  <2> QED BY <1>1, <1>6, <2>1, <2>2
<1>7. t = RemoveAt(s, i)
  BY DEF RemoveAt, t, l, r
<1>8. ToSet(t) \subseteq ToSet(s)
  BY <1>4, <1>5 DEF ToSet
<1>9. ASSUME NEW x \in ToSet(s), x # s[i] PROVE x \in ToSet(t)
  <2>1. PICK j \in DOMAIN s : x = s[j]
    BY <1>9 DEF ToSet
  <2>2. PICK k \in 1 .. Len(s) - 1 : t[k] = s[j]
    BY <1>6, <1>9, <2>1
  <2> QED BY <1>4, <2>1, <2>2 DEF ToSet
<1> QED BY <1>4, <1>7, <1>8, <1>9

LEMMA WithoutOne ==
  ASSUME NEW S, NEW s \in Seq(S), NEW p
  PROVE  /\ Without(s, p) \in Seq(S) /\ ToSet(Without(s, p)) \subseteq ToSet(s)
         /\ \A x \in ToSet(s) : x # p => x \in ToSet(Without(s, p))
<1>1. CASE p \in ToSet(s)
  <2> DEFINE i == CHOOSE i \in DOMAIN s : s[i] = p
  <2>1. i \in DOMAIN s /\ s[i] = p
    BY <1>1, Zenon DEF ToSet
  <2>2. Without(s, p) = RemoveAt(s, i)
    BY <1>1 DEF Without
  <2> HIDE DEF i
  <2> QED BY <2>1, <2>2, RemovedFrom
<1>2. CASE p \notin ToSet(s)
  BY <1>2 DEF Without
<1> QED BY <1>1, <1>2

\* A shuffled list has the places of the list and nothing else in them.
LEMMA ShufflerKeeps ==
  ASSUME NEW S, NEW list \in Seq(S), NEW mode \in {"none", "identity", "reverse", "random"},
         NEW t \in shuffler(mode, list)
  PROVE  t \in Seq(S) /\ DOMAIN t = DOMAIN list /\ ToSet(t) \subseteq ToSet(list)
<1>1. Len(list) \in Nat /\ DOMAIN list = 1 .. Len(list) /\ list \in [1 .. Len(list) -> S]
  OBVIOUS
<1>2. CASE mode \in {"none", "identity"}
  BY <1>2 DEF shuffler
<1>3. CASE mode = "reverse"
  <2>1. t = Reverse(list)
    BY <1>3 DEF shuffler
  <2>2. t = [i \in 1 .. Len(list) |-> list[(Len(list) - i) + 1]]
    BY <2>1 DEF Reverse
  <2>3. \A i \in 1 .. Len(list) : (Len(list) - i) + 1 \in 1 .. Len(list)
    BY <1>1
  <2>4. t \in [1 .. Len(list) -> S] /\ DOMAIN t = DOMAIN list
    BY <1>1, <2>2, <2>3
  <2>5. t \in Seq(S)
    BY <1>1, <2>4, IsSequence
  <2>6. ToSet(t) \subseteq ToSet(list)
    BY <1>1, <2>2, <2>3 DEF ToSet
  <2> QED BY <2>4, <2>5, <2>6
<1>4. CASE mode = "random"
  <2>1. PICK p \in Bijection(DOMAIN list, DOMAIN list) : t = [i \in DOMAIN list |-> list[p[i]]]
    BY <1>4 DEF shuffler
  <2>2. p \in [DOMAIN list -> DOMAIN list]
    BY DEF Bijection, Injection, Surjection, IsInjective
  <2>3. t \in [1 .. Len(list) -> S] /\ DOMAIN t = DOMAIN list
    BY <1>1, <2>1, <2>2
  <2>4. t \in Seq(S)
    BY <1>1, <2>3, IsSequence
  <2>5. ToSet(t) \subseteq ToSet(list)
    BY <2>1, <2>2 DEF ToSet
  <2> QED BY <2>3, <2>4, <2>5
<1> QED BY <1>2, <1>3, <1>4

LEMMA OwnNeeds ==
  ASSUME NEW m \in Makefiles, NEW f \in Files
  PROVE  /\ ListedIn(m, f) \in Seq(Pairs)
         /\ \A p \in Own(m, f) : p \in Pairs /\ p[1] = f /\ p[2] \in Files
                                 /\ \A g \in Files : f \in GroupIn(m, g) => p[2] \in NeedsIn(m, g)
<1>1. m.deps[f] \in Seq(Files)
  BY ShapeOfMakefile
<1>2. DOMAIN m.deps[f] = 1 .. Len(m.deps[f]) /\ Len(m.deps[f]) \in Nat
      /\ \A i \in DOMAIN m.deps[f] : m.deps[f][i] \in Files
  BY <1>1
<1>3. ListedIn(m, f) \in [1 .. Len(m.deps[f]) -> Pairs]
  BY <1>2 DEF ListedIn, Pairs
<1>4. ListedIn(m, f) \in Seq(Pairs)
  BY <1>2, <1>3, IsSequence
<1>5. ASSUME NEW p \in Own(m, f)
      PROVE  p \in Pairs /\ p[1] = f /\ p[2] \in Files /\ p[2] \in ToSet(m.deps[f])
  <2>1. PICK i \in DOMAIN m.deps[f] : p = <<f, m.deps[f][i]>>
    BY <1>5 DEF Own, ListedIn, ToSet
  <2> QED BY <1>2, <2>1 DEF ToSet, Pairs
<1>6. ASSUME NEW p \in Own(m, f), NEW g \in Files, f \in GroupIn(m, g)
      PROVE  p[2] \in NeedsIn(m, g)
  BY <1>5, <1>6, Zenon DEF NeedsIn
<1> QED BY <1>4, <1>5, <1>6

----------------------------------------------------------------------------
(***************************************************************************)
(* The stack                                                               *)
(***************************************************************************)
LEMMA CalledIsNeeded ==
  ASSUME NEW m \in Makefiles, NEW sh, NEW dps, ListsIn(m, sh, dps),
         NEW fr \in FrameShape, FrameOK(m, dps, fr), fr.todo # << >>
  PROVE  LET p == Head(fr.todo)
             q == VisitIn(m, sh, p) IN
         /\ p \in Pairs /\ p[1] \in GroupIn(m, fr.file) /\ p[1] \in Files /\ p \in Own(m, p[1])
         /\ q \in Pairs /\ q \in Own(m, p[1]) /\ q[1] = p[1]
         /\ q[2] \in NeedsIn(m, fr.file) /\ q[2] \in Files
         /\ sh[p[1]] = ListedIn(m, p[1]) => q = p
<1> DEFINE p == Head(fr.todo)
           q == VisitIn(m, sh, p)
           l == ListedIn(m, p[1])
           i == CHOOSE i \in DOMAIN l : l[i] = p
<1>1. fr.file \in Files /\ fr.todo \in Seq(Pairs)
  BY DEF FrameShape
<1>2. p \in ToSet(fr.todo) /\ p \in Pairs
  BY <1>1, TopOf
<1>3. p[1] \in GroupIn(m, fr.file) /\ p \in Own(m, p[1])
  BY <1>2 DEF FrameOK
<1>4. p[1] \in Files
  BY <1>1, <1>3, ShapeOfMakefile
<1> HIDE DEF p
<1>5. i \in DOMAIN l /\ l[i] = p
  <2>1. \E k \in DOMAIN l : l[k] = p
    BY <1>3 DEF Own, ToSet
  <2> QED BY <2>1, Zenon
<1>6. q = sh[p[1]][i]
  BY DEF VisitIn
<1> HIDE DEF q, i
<1>7. q \in Own(m, p[1])
  <2>1. i \in DOMAIN sh[p[1]] /\ ToSet(sh[p[1]]) \subseteq Own(m, p[1])
    BY <1>4, <1>5 DEF ListsIn
  <2>2. sh[p[1]][i] \in ToSet(sh[p[1]])
    BY <2>1, Zenon DEF ToSet
  <2> QED BY <1>6, <2>1, <2>2
<1>8. q \in Pairs /\ q[1] = p[1] /\ q[2] \in Files /\ q[2] \in NeedsIn(m, fr.file)
  BY <1>1, <1>3, <1>4, <1>7, OwnNeeds
<1>9. sh[p[1]] = l => q = p
  BY <1>5, <1>6
<1> QED BY <1>2, <1>3, <1>4, <1>7, <1>8, <1>9 DEF p, q

LEMMA PopOK ==
  ASSUME NEW m, NEW sh, NEW dps, NEW s, WellStacked(m, sh, dps, s), s # << >>
  PROVE  WellStacked(m, sh, dps, Tail(s))
<1> DEFINE t == Tail(s)
<1>1. /\ t \in Seq(FrameShape) /\ DOMAIN t \subseteq Nat \ {0}
      /\ \A i \in DOMAIN t : i + 1 \in DOMAIN s /\ t[i] = s[i + 1]
  BY TopOf DEF WellStacked
<1> HIDE DEF t
<1>2. \A i \in DOMAIN t : FrameOK(m, dps, t[i])
  BY <1>1 DEF WellStacked
<1>3. ASSUME NEW i \in DOMAIN t, NEW j \in DOMAIN t
      PROVE  /\ t[i].file = t[j].file => i = j
             /\ i < j => t[i].file \in UnderIn(m, t[j].file)
  <2>1. i + 1 \in DOMAIN s /\ j + 1 \in DOMAIN s /\ i \in Nat /\ j \in Nat
        /\ t[i] = s[i + 1] /\ t[j] = s[j + 1]
    BY <1>1
  <2>2. s[i + 1].file = s[j + 1].file => i + 1 = j + 1
    BY <2>1 DEF WellStacked
  <2>3. i + 1 < j + 1 => s[i + 1].file \in UnderIn(m, s[j + 1].file)
    BY <2>1 DEF WellStacked
  <2> QED BY <2>1, <2>2, <2>3
<1>4. ASSUME NEW i \in DOMAIN t, i > 1
      PROVE  t[i].todo # << >> /\ CalledIn(m, sh, t[i]) = t[i - 1].file
  <2>1. t \in Seq(FrameShape) /\ i - 1 \in DOMAIN t /\ i \in Nat
    BY <1>1, <1>4
  <2>2. i + 1 \in DOMAIN s /\ t[i] = s[i + 1] /\ t[i - 1] = s[i] /\ (i + 1) - 1 = i /\ i + 1 > 1
    <3>1. (i - 1) + 1 = i
      BY <2>1
    <3> QED BY <1>1, <1>4, <2>1, <3>1
  <2>3. s[i + 1].todo # << >> /\ CalledIn(m, sh, s[i + 1]) = s[(i + 1) - 1].file
    BY <2>2 DEF WellStacked
  <2> QED BY <2>2, <2>3
<1> QED BY <1>1, <1>2, <1>3, <1>4 DEF WellStacked, t

\* The innermost activation goes on, with lists that may have become shorter.
LEMMA ReplaceOK ==
  ASSUME NEW m, NEW sh, NEW dps, NEW dps2, NEW s, WellStacked(m, sh, dps, s), s # << >>,
         NEW x \in FrameShape, x.file = Head(s).file, FrameOK(m, dps2, x),
         \A i \in DOMAIN s : i # 1 => FrameOK(m, dps2, s[i])
  PROVE  WellStacked(m, sh, dps2, <<x>> \o Tail(s))
<1> DEFINE t == <<x>> \o Tail(s)
<1>1. s \in Seq(FrameShape)
  BY DEF WellStacked
<1>2. /\ t \in Seq(FrameShape) /\ t[1] = x /\ DOMAIN t = DOMAIN s
      /\ \A i \in DOMAIN s : i # 1 => t[i] = s[i]
      /\ DOMAIN s \subseteq Nat \ {0} /\ 1 \in DOMAIN s
  BY <1>1, Replaced
<1>3. Head(s) = s[1]
  BY <1>1, TopOf
<1> HIDE DEF t
<1>4. \A i \in DOMAIN s : t[i].file = s[i].file
  BY <1>2, <1>3
<1>5. \A i \in DOMAIN t : FrameOK(m, dps2, t[i])
  BY <1>2
<1>6. \A i, j \in DOMAIN t : t[i].file = t[j].file => i = j
  BY <1>2, <1>4 DEF WellStacked
<1>7. \A i, j \in DOMAIN t : i < j => t[i].file \in UnderIn(m, t[j].file)
  BY <1>2, <1>4 DEF WellStacked
<1>8. ASSUME NEW i \in DOMAIN t, i > 1
      PROVE  t[i].todo # << >> /\ CalledIn(m, sh, t[i]) = t[i - 1].file
  <2>1. i \in DOMAIN s /\ i # 1 /\ t[i] = s[i] /\ i - 1 \in DOMAIN s
    BY <1>1, <1>2, <1>8
  <2>2. s[i].todo # << >> /\ CalledIn(m, sh, s[i]) = s[i - 1].file
    BY <1>8, <2>1 DEF WellStacked
  <2> QED BY <1>4, <2>1, <2>2
<1> QED BY <1>2, <1>5, <1>6, <1>7, <1>8 DEF WellStacked, t

\* A new activation, for what the innermost one called.
LEMMA PushOK ==
  ASSUME NEW m \in Makefiles, NEW sh, NEW dps, ListsIn(m, sh, dps),
         NEW s, WellStacked(m, sh, dps, s), NEW x \in FrameShape, FrameOK(m, dps, x),
         \A i \in DOMAIN s : s[i].file # x.file,
         s # << >> => s[1].todo # << >> /\ CalledIn(m, sh, s[1]) = x.file
  PROVE  WellStacked(m, sh, dps, <<x>> \o s)
<1> DEFINE t == <<x>> \o s
<1>1. s \in Seq(FrameShape) /\ DOMAIN s \subseteq Nat \ {0}
  BY DEF WellStacked
<1>2. /\ t \in Seq(FrameShape) /\ t[1] = x /\ 1 \in DOMAIN t /\ DOMAIN t \subseteq Nat \ {0}
      /\ \A i \in DOMAIN t : i # 1 => i - 1 \in DOMAIN s /\ t[i] = s[i - 1]
  BY <1>1, PushedOn
<1> HIDE DEF t
<1>3. \A i \in DOMAIN t : FrameOK(m, dps, t[i])
  BY <1>2 DEF WellStacked
<1>4. ASSUME NEW i \in DOMAIN t, NEW j \in DOMAIN t, t[i].file = t[j].file PROVE i = j
  <2>1. CASE i = 1 /\ j # 1
    BY <1>2, <1>4, <2>1
  <2>2. CASE i # 1 /\ j = 1
    BY <1>2, <1>4, <2>2
  <2>3. CASE i # 1 /\ j # 1
    <3>1. i - 1 \in DOMAIN s /\ j - 1 \in DOMAIN s /\ s[i - 1].file = s[j - 1].file
          /\ i \in Nat /\ j \in Nat
      BY <1>2, <1>4, <2>3
    <3>2. i - 1 = j - 1
      BY <3>1 DEF WellStacked
    <3> QED BY <3>1, <3>2
  <2> QED BY <2>1, <2>2, <2>3
<1>5. ASSUME s # << >>
      PROVE  x.file \in NeedsIn(m, s[1].file) /\ s[1].file \in Files /\ 1 \in DOMAIN s
  <2>1. 1 \in DOMAIN s /\ s[1] \in FrameShape
    BY <1>1, <1>5
  <2>2. FrameOK(m, dps, s[1]) /\ s[1].file \in Files
    BY <2>1 DEF WellStacked, FrameShape
  <2> QED BY <1>5, <2>1, <2>2, CalledIsNeeded DEF CalledIn
<1>6. ASSUME NEW i \in DOMAIN t, NEW j \in DOMAIN t, i < j
      PROVE  t[i].file \in UnderIn(m, t[j].file)
  <2>1. /\ i \in Nat \ {0} /\ j \in Nat \ {0} /\ j # 1 /\ j - 1 \in DOMAIN s /\ t[j] = s[j - 1]
        /\ s # << >>
    BY <1>1, <1>2, <1>6
  <2>2. s[j - 1].file \in Files
    <3>1. s[j - 1] \in FrameShape
      BY <1>1, <2>1
    <3> QED BY <3>1 DEF FrameShape
  <2>3. CASE i = 1
    <3>1. CASE j - 1 = 1
      BY <1>2, <1>5, <2>1, <2>3, <3>1, UnderClosed
    <3>2. CASE j - 1 # 1
      <4>1. s[1].file \in UnderIn(m, s[j - 1].file)
        BY <1>5, <2>1, <3>2 DEF WellStacked
      <4> QED BY <1>2, <1>5, <2>1, <2>2, <2>3, <4>1, UnderClosed
    <3> QED BY <3>1, <3>2
  <2>4. CASE i # 1
    <3>1. i - 1 \in DOMAIN s /\ t[i] = s[i - 1] /\ i - 1 < j - 1
      BY <1>2, <1>6, <2>1, <2>4
    <3>2. s[i - 1].file \in UnderIn(m, s[j - 1].file)
      BY <2>1, <3>1 DEF WellStacked
    <3> QED BY <2>1, <3>1, <3>2
  <2> QED BY <2>3, <2>4
<1>7. ASSUME NEW i \in DOMAIN t, i > 1
      PROVE  t[i].todo # << >> /\ CalledIn(m, sh, t[i]) = t[i - 1].file
  <2>1. i \in Nat /\ i - 1 \in DOMAIN s /\ t[i] = s[i - 1] /\ s # << >>
    <3>1. i \in Nat /\ i # 1
      BY <1>2, <1>7
    <3>2. i - 1 \in DOMAIN s /\ t[i] = s[i - 1]
      BY <1>2, <1>7, <3>1
    <3>3. DOMAIN s = 1 .. Len(s)
      BY <1>1
    <3> QED BY <1>1, <3>1, <3>2, <3>3
  <2>2. CASE i - 1 = 1
    BY <1>2, <2>1, <2>2
  <2>3. CASE i - 1 # 1
    <3>1. i - 1 \in DOMAIN t /\ i - 1 > 1
      <4>1. i \in DOMAIN t /\ i \in Nat /\ i > 1 /\ DOMAIN t = 1 .. Len(t) /\ Len(t) \in Nat
        BY <1>2, <1>7, <2>1
      <4> QED BY <2>3, <4>1
    <3>2. t[i - 1] = s[(i - 1) - 1]
      BY <1>2, <2>3, <3>1
    <3>3. s[i - 1].todo # << >> /\ CalledIn(m, sh, s[i - 1]) = s[(i - 1) - 1].file
      BY <2>1, <3>1 DEF WellStacked
    <3> QED BY <2>1, <3>2, <3>3
  <2> QED BY <2>2, <2>3
<1> QED BY <1>2, <1>3, <1>4, <1>6, <1>7 DEF WellStacked, t

\* No file of the stack is in the group of another one.
LEMMA OthersApart ==
  ASSUME NEW m \in Makefiles, GroupsApart(m), NEW sh, NEW dps,
         NEW s, WellStacked(m, sh, dps, s), s # << >>, NEW i \in DOMAIN s, i # 1
  PROVE  s[1].file \notin GroupIn(m, s[i].file)
<1>1. s \in Seq(FrameShape) /\ 1 \in DOMAIN s /\ i \in Nat /\ 1 < i
  BY DEF WellStacked
<1>2. s[i].file \in Files /\ s[1].file # s[i].file /\ s[1].file \in UnderIn(m, s[i].file)
  <2>1. s[i] \in FrameShape
    BY <1>1
  <2>2. s[i].file \in Files
    BY <2>1 DEF FrameShape
  <2> QED BY <1>1, <2>2 DEF WellStacked
<1>3. CASE PeersIn(m, s[i].file) = {}
  BY <1>2, <1>3 DEF GroupIn
<1>4. CASE PeersIn(m, s[i].file) # {}
  BY <1>2, <1>4 DEF GroupsApart
<1> QED BY <1>3, <1>4

----------------------------------------------------------------------------
(***************************************************************************)
(* Files                                                                   *)
(***************************************************************************)
SameUpdating(fs, gs) == \A g \in Files : gs[g].updating = fs[g].updating

\* What was running or finished stays so, but for the files in X.
Advances(fs, gs, X) ==
    \A g \in Files : fs[g].command_state \in Begun /\ g \notin X => gs[g].command_state \in Begun

LEMMA Times ==
  ASSUME disk \in [Files -> Nat], NEW fs \in [Files -> FileShape], NEW f \in Files
  PROVE  /\ MtimeIn(fs, f) \in Nat
         /\ Stat(fs, f) \in [Files -> FileShape]
         /\ SameUpdating(fs, Stat(fs, f)) /\ Advances(fs, Stat(fs, f), {})
<1>1. fs[f] \in FileShape /\ disk[f] \in Nat
  OBVIOUS
<1>2. MtimeIn(fs, f) \in Nat
  BY <1>1 DEF MtimeIn, FileShape
<1>3. Stat(fs, f) = [fs EXCEPT ![f] = [fs[f] EXCEPT !.last_mtime = MtimeIn(fs, f)]]
  BY DEF Stat
<1>4. [fs[f] EXCEPT !.last_mtime = MtimeIn(fs, f)] \in FileShape
  BY <1>1, <1>2 DEF FileShape
<1>5. /\ [fs[f] EXCEPT !.last_mtime = MtimeIn(fs, f)].updating = fs[f].updating
      /\ [fs[f] EXCEPT !.last_mtime = MtimeIn(fs, f)].command_state = fs[f].command_state
  BY <1>1 DEF FileShape
<1> QED BY <1>2, <1>3, <1>4, <1>5 DEF SameUpdating, Advances

LEMMA SetState ==
  ASSUME mf \in Makefiles, NEW fs \in [Files -> FileShape], NEW f \in Files, NEW st \in States
  PROVE  LET gs == set_command_state(fs, f, st) IN
         /\ gs \in [Files -> FileShape] /\ SameUpdating(fs, gs) /\ Advances(fs, gs, {f})
         /\ st \in Begun => \A g \in Group(f) : gs[g].command_state \in Begun
         /\ st = "not_started" => \A g \in Files : g # f => gs[g] = fs[g]
<1> DEFINE gs == set_command_state(fs, f, st)
           Set(g) == g = f \/ (g \in Peers(f) /\ StateRank(st) > StateRank(fs[g].command_state))
<1>1. Group(f) \subseteq Files
  BY ShapeOfMakefile DEF Group
<1>2. ASSUME NEW g \in Files
      PROVE  /\ fs[g] \in FileShape /\ fs[g].command_state \in States
             /\ gs[g] \in FileShape /\ gs[g].updating = fs[g].updating
             /\ Set(g) => gs[g].command_state = st
             /\ ~Set(g) => gs[g] = fs[g]
  <2>1. fs[g] \in FileShape
    OBVIOUS
  <2>2. gs[g] = IF Set(g) THEN [fs[g] EXCEPT !.command_state = st] ELSE fs[g]
    BY DEF set_command_state
  <2>3. /\ [fs[g] EXCEPT !.command_state = st] \in FileShape
        /\ [fs[g] EXCEPT !.command_state = st].command_state = st
        /\ [fs[g] EXCEPT !.command_state = st].updating = fs[g].updating
    BY <2>1 DEF FileShape
  <2>4. fs[g].command_state \in States
    BY <2>1 DEF FileShape
  <2> HIDE DEF gs, Set
  <2> QED BY <2>1, <2>2, <2>3, <2>4
<1>3. gs = [g \in Files |-> gs[g]]
  BY DEF set_command_state
<1> HIDE DEF gs
<1>4. gs \in [Files -> FileShape]
  <2>1. \A g \in Files : gs[g] \in FileShape
    BY <1>2
  <2> QED BY <1>3, <2>1
<1>5. ASSUME NEW g \in Files, fs[g].command_state \in Begun, g # f
      PROVE  gs[g].command_state \in Begun
  <2>1. CASE Set(g)
    <3>1. StateRank(st) > 1
      BY <1>5, <2>1 DEF StateRank, Begun, States
    <3>2. st \in Begun
      BY <3>1 DEF StateRank, Begun, States
    <3> QED BY <1>2, <2>1, <3>2
  <2>2. CASE ~Set(g)
    BY <1>2, <1>5, <2>2
  <2> QED BY <2>1, <2>2
<1>6. ASSUME st \in Begun, NEW g \in Group(f) PROVE gs[g].command_state \in Begun
  <2>1. g \in Files /\ fs[g].command_state \in States
    BY <1>1, <1>2
  <2>2. CASE Set(g)
    BY <1>2, <1>6, <2>1, <2>2
  <2>3. CASE ~Set(g)
    <3>1. ~(StateRank(st) > StateRank(fs[g].command_state))
      BY <1>6, <2>3 DEF Group, GroupIn, Peers
    <3>2. fs[g].command_state \in Begun
      BY <1>6, <2>1, <3>1 DEF StateRank, Begun, States
    <3> QED BY <1>2, <2>1, <2>3, <3>2
  <2> QED BY <2>2, <2>3
<1>7. ASSUME st = "not_started", NEW g \in Files, g # f PROVE gs[g] = fs[g]
  <2>1. ~(StateRank(st) > StateRank(fs[g].command_state))
    BY <1>2, <1>7 DEF StateRank, States
  <2> QED BY <1>2, <1>7, <2>1
<1> QED BY <1>2, <1>4, <1>5, <1>6, <1>7 DEF SameUpdating, Advances, gs

LEMMA NoticedShape ==
  ASSUME NEW x \in FileShape, NEW time \in Nat \cup {UNKNOWN_MTIME}, NEW status \in Statuses
  PROVE  LET y == [x EXCEPT !.command_state = "finished", !.updated = TRUE,
                            !.last_mtime = time, !.update_status = status] IN
         y \in FileShape /\ y.updating = x.updating /\ y.command_state = "finished"
BY DEF FileShape, States, Statuses

LEMMA Noticed ==
  ASSUME mf \in Makefiles, disk \in [Files -> Nat], NEW fs \in [Files -> FileShape], NEW f \in Files
  PROVE  LET gs == notice_finished_file(fs, f) IN
         gs \in [Files -> FileShape] /\ SameUpdating(fs, gs) /\ Advances(fs, gs, {})
<1> DEFINE gs == notice_finished_file(fs, f)
           ran == fs[f].command_state = "running"
           done == [fs[f] EXCEPT !.command_state = "finished", !.updated = TRUE,
                                 !.last_mtime = IF ran /\ f \notin mf.phony THEN UNKNOWN_MTIME ELSE @,
                                 !.update_status = IF @ = "none" THEN "success" ELSE @]
           peer(g) == [fs[g] EXCEPT !.command_state = "finished", !.updated = TRUE,
                                    !.update_status = fs[f].update_status,
                                    !.last_mtime = IF g \in mf.phony THEN @ ELSE disk[g]]
<1>1. done \in FileShape /\ done.updating = fs[f].updating /\ done.command_state = "finished"
  <2> DEFINE time == IF ran /\ f \notin mf.phony THEN UNKNOWN_MTIME ELSE fs[f].last_mtime
             status == IF fs[f].update_status = "none" THEN "success" ELSE fs[f].update_status
  <2>1. fs[f] \in FileShape
    OBVIOUS
  <2>2. time \in Nat \cup {UNKNOWN_MTIME} /\ status \in Statuses
    <3> HIDE DEF ran
    <3> QED BY <2>1 DEF FileShape, Statuses
  <2>3. done = [fs[f] EXCEPT !.command_state = "finished", !.updated = TRUE,
                             !.last_mtime = time, !.update_status = status]
    OBVIOUS
  <2> HIDE DEF time, status
  <2>4. LET y == [fs[f] EXCEPT !.command_state = "finished", !.updated = TRUE,
                                !.last_mtime = time, !.update_status = status] IN
        y \in FileShape /\ y.updating = fs[f].updating /\ y.command_state = "finished"
    BY ONLY <2>1, <2>2, NoticedShape
  <2> HIDE DEF done
  <2> QED BY <2>3, <2>4
<1>2. ASSUME NEW g \in Files
      PROVE  /\ peer(g) \in FileShape /\ peer(g).updating = fs[g].updating
             /\ peer(g).command_state = "finished"
  <2>1. fs[g] \in FileShape /\ disk[g] \in Nat /\ fs[f] \in FileShape
    OBVIOUS
  <2> QED BY <2>1 DEF FileShape, States, Statuses
<1>3. gs = [g \in Files |->
              IF g = f THEN done
              ELSE IF ran /\ fs[f].update_status # "none" /\ g \in Peers(f) THEN peer(g) ELSE fs[g]]
  BY DEF notice_finished_file
<1> HIDE DEF gs, done, peer, ran
<1>4. ASSUME NEW g \in Files
      PROVE  /\ gs[g] \in FileShape /\ gs[g].updating = fs[g].updating
             /\ gs[g].command_state = "finished" \/ gs[g] = fs[g]
  BY <1>1, <1>2, <1>3
<1>5. gs \in [Files -> FileShape]
  BY <1>3, <1>4
<1> QED BY <1>4, <1>5 DEF SameUpdating, Advances, Begun, gs

LEMMA Finished ==
  ASSUME mf \in Makefiles, disk \in [Files -> Nat], NEW fs \in [Files -> FileShape], NEW f \in Files,
         NEW status \in Statuses
  PROVE  LET gs == Finish(fs, f, status) IN
         gs \in [Files -> FileShape] /\ SameUpdating(fs, gs) /\ Advances(fs, gs, {})
<1> DEFINE hs == [fs EXCEPT ![f] = [fs[f] EXCEPT !.update_status = status]]
<1>1. fs[f] \in FileShape
  OBVIOUS
<1>2. /\ [fs[f] EXCEPT !.update_status = status] \in FileShape
      /\ [fs[f] EXCEPT !.update_status = status].updating = fs[f].updating
      /\ [fs[f] EXCEPT !.update_status = status].command_state = fs[f].command_state
  BY <1>1 DEF FileShape
<1>3. hs \in [Files -> FileShape] /\ SameUpdating(fs, hs) /\ Advances(fs, hs, {})
  BY <1>2 DEF SameUpdating, Advances
<1>4. Finish(fs, f, status) = notice_finished_file(hs, f)
  BY DEF Finish
<1> HIDE DEF hs
<1>5. LET gs == notice_finished_file(hs, f) IN
      gs \in [Files -> FileShape] /\ SameUpdating(hs, gs) /\ Advances(hs, gs, {})
  BY <1>3, Noticed
<1> QED BY <1>3, <1>4, <1>5 DEF SameUpdating, Advances

LEMMA Restarted ==
  ASSUME mf \in Makefiles, file \in [Files -> FileShape], NEW f \in Files
  PROVE  /\ NotStarted(f) \in [Files -> FileShape]
         /\ SameUpdating(file, NotStarted(f)) /\ Advances(file, NotStarted(f), {})
<1>1. CASE file[f].command_state = "deps_running"
  <2> DEFINE gs == set_command_state(file, f, "not_started")
  <2>1. /\ gs \in [Files -> FileShape] /\ SameUpdating(file, gs) /\ Advances(file, gs, {f})
    BY SetState DEF States
  <2>2. Advances(file, gs, {})
    BY <1>1, <2>1 DEF Advances, Begun
  <2> QED BY <1>1, <2>1, <2>2 DEF NotStarted
<1>2. CASE file[f].command_state # "deps_running"
  BY <1>2 DEF NotStarted, SameUpdating, Advances
<1> QED BY <1>1, <1>2

----------------------------------------------------------------------------
(***************************************************************************)
(* The steps of update_file_1                                              *)
(***************************************************************************)
LEMMA BegunKept ==
  ASSUME NEW m \in Makefiles, GroupsApart(m), NEW fs, NEW gs, NEW rs, RunsBegun(m, fs, rs),
         NEW X, Advances(fs, gs, X), \A f \in X : f \in Files /\ NoneRan(m, rs, f)
  PROVE  RunsBegun(m, gs, rs)
<1> SUFFICES ASSUME NEW f \in Files, rs[f] > 0, NEW g \in GroupIn(m, f)
             PROVE  gs[g].command_state \in Begun
  BY DEF RunsBegun
<1>1. g \in Files /\ f \in GroupIn(m, g)
  BY SameGroup
<1>2. fs[g].command_state \in Begun
  BY DEF RunsBegun
<1>3. CASE g \in X
  <2>1. rs[f] = 0
    BY <1>1, <1>3 DEF NoneRan
  <2> QED BY <2>1
<1>4. CASE g \notin X
  BY <1>1, <1>2, <1>4 DEF Advances
<1> QED BY <1>3, <1>4

\* What MakeInv says of the stack, for the steps that look at its top.
LEMMA TopFacts ==
  ASSUME MakeInv, stack # << >>
  PROVE  /\ stack \in Seq(FrameShape) /\ Top = stack[1] /\ Top \in FrameShape /\ 1 \in DOMAIN stack
         /\ DOMAIN stack \subseteq Nat \ {0}
         /\ Top.file \in Files /\ Top.todo \in Seq(Pairs) /\ Top.lists \in Seq(Files)
         /\ FrameOK(mf, deps, Top)
         /\ \A i \in DOMAIN stack : i # 1 => stack[i].file # Top.file
<1>1. stack \in Seq(FrameShape)
  BY DEF MakeInv, WellStacked
<1>2. Top = stack[1] /\ Top \in FrameShape /\ 1 \in DOMAIN stack /\ DOMAIN stack \subseteq Nat \ {0}
  BY <1>1 DEF Top
<1>3. Top.file \in Files /\ Top.todo \in Seq(Pairs) /\ Top.lists \in Seq(Files)
  BY <1>2 DEF FrameShape
<1>4. FrameOK(mf, deps, Top) /\ \A i \in DOMAIN stack : i # 1 => stack[i].file # Top.file
  BY <1>2 DEF MakeInv, WellStacked
<1> QED BY <1>1, <1>2, <1>3, <1>4

LEMMA Cleared ==
  ASSUME NEW fs \in [Files -> FileShape], NEW f \in Files
  PROVE  LET gs == [fs EXCEPT ![f].updating = FALSE] IN
         /\ gs \in [Files -> FileShape] /\ ~gs[f].updating
         /\ \A g \in Files : g # f => gs[g] = fs[g]
         /\ \A g \in Files : gs[g].command_state = fs[g].command_state
<1>1. fs[f] \in FileShape
  OBVIOUS
<1>2. /\ [fs[f] EXCEPT !.updating = FALSE] \in FileShape
      /\ ~[fs[f] EXCEPT !.updating = FALSE].updating
      /\ [fs[f] EXCEPT !.updating = FALSE].command_state = fs[f].command_state
  BY <1>1 DEF FileShape
<1> QED BY <1>2

\* The end of an activation.
LEMMA ReturnInv ==
  ASSUME MakeInv, at \in {"deps", "started", "linear"},
         NEW fs \in [Files -> FileShape], SameUpdating(file, fs),
         NEW X, Advances(file, fs, X), X = {} \/ (at = "deps" /\ X = {Top.file}),
         file' = [fs EXCEPT ![Top.file].updating = FALSE],
         stack' = Tail(stack), at' = "returned", ret' \in Statuses,
         UNCHANGED <<mf, job_slots, keep_going_flag, shuf, deps, considered, goals, visited,
                     goal_status, children, disk, now, runs>>
  PROVE  MakeInv'
<1> DEFINE t == Tail(stack)
<1>1. stack # << >>
  BY DEF MakeInv, WhereIn
<1>2. /\ stack \in Seq(FrameShape) /\ Top = stack[1] /\ 1 \in DOMAIN stack /\ Top.file \in Files
      /\ \A i \in DOMAIN stack : i # 1 => stack[i].file # Top.file
  BY <1>1, TopFacts
<1>3. /\ t \in Seq(FrameShape) /\ DOMAIN t \subseteq Nat \ {0}
      /\ \A i \in DOMAIN t : i + 1 \in DOMAIN stack /\ t[i] = stack[i + 1] /\ i + 1 # 1
      /\ \A i \in DOMAIN stack : i # 1 => i - 1 \in DOMAIN t /\ stack[i] = t[i - 1]
  BY <1>1, <1>2, TopOf
<1>4. WellStacked(mf, shuf, deps, t)
  BY <1>1, PopOK DEF MakeInv
<1>5. WhereIn(mf, shuf, t, "returned")
  <2> SUFFICES ASSUME t # << >>
               PROVE  /\ t[1].todo # << >>
                      /\ \A i \in DOMAIN t : t[i].file # CalledIn(mf, shuf, t[1])
    BY DEF WhereIn
  <2>1. 1 \in DOMAIN t /\ t[1] = stack[1 + 1] /\ 1 + 1 \in DOMAIN stack
    BY <1>3
  <2>2. stack[1 + 1].todo # << >> /\ CalledIn(mf, shuf, stack[1 + 1]) = stack[1].file
    <3>1. \A i \in DOMAIN stack :
             i > 1 => stack[i].todo # << >> /\ CalledIn(mf, shuf, stack[i]) = stack[i - 1].file
      BY DEF MakeInv, WellStacked
    <3>2. 1 + 1 > 1 /\ (1 + 1) - 1 = 1
      OBVIOUS
    <3> QED BY <2>1, <3>1, <3>2
  <2>3. \A i \in DOMAIN t : t[i].file # Top.file
    BY <1>2, <1>3
  <2> HIDE DEF t
  <2> QED BY <1>2, <2>1, <2>2, <2>3
<1> HIDE DEF t
<1>6. /\ file' \in [Files -> FileShape] /\ ~file'[Top.file].updating
      /\ \A g \in Files : g # Top.file => file'[g] = fs[g]
      /\ \A g \in Files : file'[g].command_state = fs[g].command_state
  BY <1>2, Cleared
<1>7. UpdatingIn(file', t, "returned")
  <2>1. ASSUME NEW f \in Files, file'[f].updating PROVE \E i \in DOMAIN t : t[i].file = f
    <3>1. f # Top.file /\ file[f].updating
      BY <1>2, <1>6, <2>1 DEF SameUpdating
    <3>2. PICK i \in DOMAIN stack : stack[i].file = f
      BY <3>1 DEF MakeInv, UpdatingIn
    <3> QED BY <1>2, <1>3, <3>1, <3>2
  <2>2. ASSUME NEW i \in DOMAIN t PROVE file'[t[i].file].updating
    <3>1. i + 1 \in DOMAIN stack /\ t[i] = stack[i + 1] /\ i + 1 > 1 /\ i + 1 # 1
      BY <1>3
    <3>2. file[stack[i + 1].file].updating
      BY <3>1 DEF MakeInv, UpdatingIn
    <3>3. stack[i + 1].file \in Files /\ stack[i + 1].file # Top.file
      <4>1. stack[i + 1] \in FrameShape
        BY <1>2, <3>1
      <4> QED BY <1>2, <3>1, <4>1 DEF FrameShape
    <3> QED BY <1>6, <3>1, <3>2, <3>3 DEF SameUpdating
  <2> QED BY <2>1, <2>2 DEF UpdatingIn
<1>8. RunsIn(mf, file', runs, t, "returned")
  <2>1. at = "deps" => NoneRan(mf, runs, Top.file)
    BY <1>2 DEF MakeInv, RunsIn
  <2>2. RunsBegun(mf, fs, runs)
    <3>1. \A f \in X : f \in Files /\ NoneRan(mf, runs, f)
      BY <1>2, <2>1
    <3> QED BY <3>1, BegunKept DEF MakeInv, MakeTypes, RunsIn
  <2>3. RunsBegun(mf, file', runs)
    BY <1>6, <2>2, ShapeOfMakefile DEF RunsBegun, MakeInv, MakeTypes
  <2>4. \A i \in DOMAIN t : NoneRan(mf, runs, t[i].file)
    BY <1>3 DEF MakeInv, RunsIn
  <2> QED BY <2>3, <2>4 DEF RunsIn, MakeInv
<1>9. MakeTypes' /\ WorldTypes'
  BY <1>6 DEF MakeInv, MakeTypes, WorldTypes, Where, Calling
<1> QED BY <1>4, <1>5, <1>7, <1>8, <1>9 DEF MakeInv, t

\* The innermost activation goes on.
LEMMA WalkInv ==
  ASSUME MakeInv, at \in {"deps", "returned"}, stack # << >>,
         NEW fr \in FrameShape, fr.file = Top.file, FrameOK(mf, deps', fr),
         \A i \in DOMAIN stack : i # 1 => FrameOK(mf, deps', stack[i]),
         ListsIn(mf, shuf, deps'), DroppedIn(mf, shuf, deps'),
         file' \in [Files -> FileShape], Advances(file, file', {}),
         \A f \in Files : file'[f].updating => file[f].updating,
         \A i \in DOMAIN stack : file'[stack[i].file].updating = file[stack[i].file].updating,
         stack' = <<fr>> \o Tail(stack), at' = "deps",
         UNCHANGED <<mf, job_slots, keep_going_flag, shuf, considered, ret, goals, visited,
                     goal_status, children, disk, now, runs>>
  PROVE  MakeInv'
<1>1. stack \in Seq(FrameShape) /\ Top = stack[1] /\ Top = Head(stack)
  BY TopFacts DEF Top
<1>2. /\ DOMAIN stack' = DOMAIN stack /\ stack' # << >> /\ stack'[1] = fr
      /\ \A i \in DOMAIN stack : i # 1 => stack'[i] = stack[i]
  BY <1>1, Replaced
<1>3. \A i \in DOMAIN stack : stack'[i].file = stack[i].file
  BY <1>1, <1>2
<1>4. WellStacked(mf, shuf, deps', stack')
  BY <1>1, ReplaceOK DEF MakeInv
<1>5. WhereIn(mf, shuf, stack', "deps")
  BY <1>2 DEF WhereIn
<1>6. UpdatingIn(file', stack', "deps")
  <2>1. ASSUME NEW f \in Files, file'[f].updating PROVE \E i \in DOMAIN stack' : stack'[i].file = f
    <3>1. file[f].updating
      BY <2>1
    <3>2. PICK i \in DOMAIN stack : stack[i].file = f
      BY <3>1 DEF MakeInv, UpdatingIn
    <3> QED BY <1>2, <1>3, <3>2
  <2>2. ASSUME NEW i \in DOMAIN stack' PROVE file'[stack'[i].file].updating
    <3>1. i \in DOMAIN stack /\ file[stack[i].file].updating
      BY <1>2 DEF MakeInv, UpdatingIn
    <3> QED BY <1>3, <3>1
  <2> QED BY <2>1, <2>2 DEF UpdatingIn
<1>7. RunsIn(mf, file', runs, stack', "deps")
  <2>1. RunsBegun(mf, file', runs)
    BY BegunKept DEF MakeInv, MakeTypes, RunsIn
  <2>2. \A i \in DOMAIN stack : NoneRan(mf, runs, stack[i].file)
    BY DEF MakeInv, RunsIn
  <2> QED BY <1>2, <1>3, <2>1, <2>2 DEF RunsIn, MakeInv
<1>8. MakeTypes' /\ WorldTypes'
  BY DEF MakeInv, MakeTypes, WorldTypes, Where, Calling
<1> QED BY <1>4, <1>5, <1>6, <1>7, <1>8 DEF MakeInv

\* The stack stays.
LEMMA StaysInv ==
  ASSUME MakeInv, MakeTypes', WorldTypes',
         SameUpdating(file, file'), Advances(file, file', {}), WhereIn(mf, shuf, stack, at'),
         at' = at \/ (stack = << >> /\ at' \notin Calling) \/ at' \in {"die", "exited"},
         UNCHANGED <<mf, shuf, deps, stack, runs>>
  PROVE  MakeInv'
<1>1. UpdatingIn(file', stack, at')
  <2>1. \A i \in DOMAIN stack : stack[i].file \in Files
    <3>1. \A i \in DOMAIN stack : stack[i] \in FrameShape
      BY DEF MakeInv, WellStacked
    <3> QED BY <3>1 DEF FrameShape
  <2>2. ASSUME NEW f \in Files, file'[f].updating PROVE \E i \in DOMAIN stack : stack[i].file = f
    BY <2>2 DEF MakeInv, UpdatingIn, SameUpdating
  <2>3. CASE at' = at
    <3>1. at \in {"new_job", "started", "linear"} => 1 \in DOMAIN stack
      BY TopFacts DEF MakeInv, WhereIn
    <3> QED BY <2>1, <2>2, <2>3, <3>1 DEF MakeInv, UpdatingIn, SameUpdating
  <2>4. CASE at' \notin Calling
    BY <2>2, <2>4 DEF UpdatingIn, Calling
  <2> QED BY <2>3, <2>4 DEF Calling
<1>2. RunsIn(mf, file', runs, stack, at')
  <2>1. RunsBegun(mf, file', runs)
    BY BegunKept DEF MakeInv, MakeTypes, RunsIn
  <2>2. CASE at' = at
    BY <2>1, <2>2 DEF MakeInv, RunsIn
  <2>3. CASE stack = << >> \/ at' \in {"die", "exited"}
    BY <2>1, <2>3 DEF MakeInv, RunsIn
  <2> QED BY <2>2, <2>3
<1> QED BY <1>1, <1>2 DEF MakeInv

LEMMA LeastNatural ==
  ASSUME NEW T, T \subseteq Nat, T # {}
  PROVE  \E m \in T : \A k \in T : m <= k
<1> DEFINE R == {ss \in Nat \X Nat : ss[1] < ss[2]}
<1>1. R = OpToRel(<, Nat)
  BY DEF OpToRel
<1>2. IsWellFoundedOn(R, Nat)
  BY <1>1, NatLessThanWellFounded
<1> HIDE DEF R
<1>3. PICK m \in T : \A k \in T : ~(<<k, m>> \in R)
  BY <1>2, WFMin
<1>4. ASSUME NEW k \in T PROVE m <= k
  <2>1. m \in Nat /\ k \in Nat
    OBVIOUS
  <2>2. ~(k < m)
    BY <1>3, <2>1, Zenon DEF R
  <2> QED BY <2>1, <2>2
<1> QED BY <1>4

\* The frame of a new activation.
LEMMA NewFrame ==
  ASSUME mf \in Makefiles, disk \in [Files -> Nat], ListsIn(mf, shuf, deps),
         NEW f \in Files, NEW fs \in [Files -> FileShape]
  PROVE  Frame(f, fs) \in FrameShape /\ Frame(f, fs).file = f /\ FrameOK(mf, deps, Frame(f, fs))
<1> DEFINE group == {f} \cup Peers(f)
           times == {MtimeIn(fs, g) : g \in group}
           least == CHOOSE t \in times : \A u \in times : t <= u
           none == NONEXISTENT_MTIME \in times
           fr == [file |-> f, todo |-> deps[f], kept |-> FALSE, lists |-> mf.also_make[f],
                  noexist |-> none, this_mtime |-> least, must_make |-> none,
                  running |-> FALSE, dep_status |-> "success", d_mtime |-> 0]
<1>1. Frame(f, fs) = fr
  BY DEF Frame
<1>2. group \subseteq Files /\ f \in group
  BY ShapeOfMakefile DEF Peers
<1>3. times \subseteq Nat /\ times # {}
  BY <1>2, Times
<1>4. least \in Nat
  <2> HIDE DEF times
  <2>1. \E t \in times : \A u \in times : t <= u
    BY <1>3, LeastNatural
  <2>2. least \in times
    BY <2>1, Zenon
  <2> QED BY <1>3, <2>2
<1>5. none \in BOOLEAN
  OBVIOUS
<1>6. mf.also_make[f] \in Seq(Files) /\ deps[f] \in Seq(Pairs)
  BY ShapeOfMakefile DEF ListsIn
<1> HIDE DEF least, none
<1>7. fr \in FrameShape
  BY <1>4, <1>5, <1>6 DEF FrameShape
<1>8. /\ fr.file = f /\ fr.todo = deps[f] /\ fr.lists = mf.also_make[f]
  OBVIOUS
<1> HIDE DEF fr
<1>9. \A p \in ToSet(deps[f]) : p[1] \in GroupIn(mf, f) /\ p \in Own(mf, p[1])
  <2>1. \A p \in ToSet(deps[f]) : p \in Own(mf, f)
    BY DEF ListsIn
  <2>2. \A p \in Own(mf, f) : p[1] = f
    BY OwnNeeds
  <2>3. f \in GroupIn(mf, f)
    BY ShapeOfMakefile
  <2> QED BY <2>1, <2>2, <2>3
<1> QED BY <1>1, <1>7, <1>8, <1>9 DEF FrameOK, PeersIn

\* What update_file has looked at.
Seen(fs, f) == [g \in Files |->
                   IF g \in {f} \cup Peers(f)
                   THEN [fs[g] EXCEPT !.last_mtime = MtimeIn(fs, g), !.updating = g = f \/ @]
                   ELSE fs[g]]

LEMMA Looked ==
  ASSUME mf \in Makefiles, disk \in [Files -> Nat], NEW f \in Files, NEW fs \in [Files -> FileShape]
  PROVE  /\ Seen(fs, f) \in [Files -> FileShape]
         /\ \A g \in Files : /\ Seen(fs, f)[g].updating = (g = f \/ fs[g].updating)
                             /\ Seen(fs, f)[g].command_state = fs[g].command_state
<1> DEFINE new(g) == [fs[g] EXCEPT !.last_mtime = MtimeIn(fs, g), !.updating = g = f \/ @]
           gs == [g \in Files |-> IF g \in {f} \cup Peers(f) THEN new(g) ELSE fs[g]]
<1>1. ASSUME NEW g \in Files
      PROVE  /\ new(g) \in FileShape /\ new(g).updating = (g = f \/ fs[g].updating)
             /\ new(g).command_state = fs[g].command_state
  <2>1. MtimeIn(fs, g) \in Nat /\ fs[g] \in FileShape
    BY <1>1, Times
  <2>2. (g = f \/ fs[g].updating) \in BOOLEAN
    BY <2>1 DEF FileShape
  <2>3. new(g) = [fs[g] EXCEPT !.last_mtime = MtimeIn(fs, g), !.updating = g = f \/ fs[g].updating]
    OBVIOUS
  <2> HIDE DEF new
  <2> QED BY <2>1, <2>2, <2>3 DEF FileShape
<1> HIDE DEF new
<1>2. ASSUME NEW g \in Files
      PROVE  /\ gs[g] \in FileShape /\ gs[g].updating = (g = f \/ fs[g].updating)
             /\ gs[g].command_state = fs[g].command_state
  <2>1. fs[g] \in FileShape
    OBVIOUS
  <2>2. CASE g \in {f} \cup Peers(f)
    BY <1>1, <2>2
  <2>3. CASE g \notin {f} \cup Peers(f)
    <3>1. gs[g] = fs[g] /\ g # f
      BY <2>3
    <3>2. fs[g].updating \in BOOLEAN
      BY <2>1 DEF FileShape
    <3> QED BY <2>1, <3>1, <3>2
  <2> QED BY <2>2, <2>3
<1>3. gs \in [Files -> FileShape]
  BY <1>2
<1>4. Seen(fs, f) = gs
  BY DEF Seen, new
<1> HIDE DEF gs
<1> QED BY <1>2, <1>3, <1>4

\* update_file, for a file that no activation is at.
LEMMA UpdateFileInv ==
  ASSUME MakeInv, NEW f \in Files, NEW fs \in [Files -> FileShape],
         SameUpdating(file, fs), \A g \in Files : fs[g].command_state = file[g].command_state,
         NEW s, WellStacked(mf, shuf, deps, s),
         \A i \in DOMAIN s : /\ s[i].file # f /\ file[s[i].file].updating
                             /\ NoneRan(mf, runs, s[i].file),
         s # << >> => s[1].todo # << >> /\ CalledIn(mf, shuf, s[1]) = f,
         \A g \in Files : file[g].updating => \E i \in DOMAIN s : s[i].file = g,
         visited < Len(goals), update_file(f, fs, s),
         UNCHANGED <<mf, job_slots, keep_going_flag, shuf, deps, goals, visited, goal_status,
                     children, disk, now, runs>>
  PROVE  MakeInv'
<1> mf \in Makefiles /\ disk \in [Files -> Nat]
  BY DEF MakeInv, MakeTypes, WorldTypes
<1>0. /\ mf \in Makefiles /\ GroupsApart(mf) /\ disk \in [Files -> Nat] /\ ListsIn(mf, shuf, deps)
      /\ considered \subseteq Files /\ runs \in [Files -> Nat] /\ RunsBegun(mf, file, runs)
      /\ ret \in Statuses
  BY DEF MakeInv, MakeTypes, WorldTypes, RunsIn
<1>1. considered' \subseteq Files
  BY <1>0 DEF update_file
<1>2. s \in Seq(FrameShape) /\ \A i \in DOMAIN s : s[i].file \in Files
  <2>1. s \in Seq(FrameShape) /\ \A i \in DOMAIN s : s[i] \in FrameShape
    BY DEF WellStacked
  <2> QED BY <2>1 DEF FrameShape
<1>3. CASE Settled(f)
  <2>1. stack' = s /\ at' = "returned" /\ file' = fs /\ ret' \in Statuses
    BY <1>3 DEF update_file, Answer, Statuses
  <2>2. WhereIn(mf, shuf, s, "returned")
    BY DEF WhereIn
  <2>3. UpdatingIn(fs, s, "returned")
    BY <1>2 DEF UpdatingIn, SameUpdating
  <2>4. RunsIn(mf, fs, runs, s, "returned")
    <3>1. Advances(file, fs, {})
      BY DEF Advances
    <3>2. RunsBegun(mf, fs, runs)
      BY <1>0, <3>1, BegunKept
    <3> QED BY <3>2 DEF RunsIn, MakeInv
  <2>5. MakeTypes' /\ WorldTypes'
    BY <1>1, <2>1 DEF MakeInv, MakeTypes, WorldTypes, Where, Calling
  <2> QED BY <2>1, <2>2, <2>3, <2>4, <2>5 DEF MakeInv
<1>4. CASE ~Settled(f)
  <2> DEFINE gs == Seen(fs, f)
             t == <<Frame(f, gs)>> \o s
  <2>1. stack' = t /\ at' = "deps" /\ file' = gs /\ ret' = ret
    BY <1>4 DEF update_file, Seen
  <2>2. /\ gs \in [Files -> FileShape]
        /\ \A g \in Files : /\ gs[g].updating = (g = f \/ fs[g].updating)
                            /\ gs[g].command_state = fs[g].command_state
    BY <1>0, Looked
  <2> HIDE DEF gs
  <2>3. Frame(f, gs) \in FrameShape /\ Frame(f, gs).file = f /\ FrameOK(mf, deps, Frame(f, gs))
    BY <1>0, <2>2, NewFrame
  <2>4. WellStacked(mf, shuf, deps, t)
    <3> DEFINE x == Frame(f, gs)
    <3>1. /\ x \in FrameShape /\ FrameOK(mf, deps, x) /\ \A i \in DOMAIN s : s[i].file # x.file
          /\ s # << >> => s[1].todo # << >> /\ CalledIn(mf, shuf, s[1]) = x.file
      BY <2>3
    <3> HIDE DEF x
    <3>2. WellStacked(mf, shuf, deps, <<x>> \o s)
      BY <1>0, <3>1, PushOK
    <3> QED BY <3>2 DEF x
  <2>5. /\ t # << >> /\ t[1].file = f /\ 1 \in DOMAIN t
        /\ \A i \in DOMAIN t : i # 1 => i - 1 \in DOMAIN s /\ t[i] = s[i - 1]
        /\ \A i \in DOMAIN s : i + 1 \in DOMAIN t /\ t[i + 1] = s[i]
    BY <1>2, <2>3, PushedOn
  <2> HIDE DEF t
  <2>6. WhereIn(mf, shuf, t, "deps")
    BY <2>5 DEF WhereIn
  <2>7. UpdatingIn(gs, t, "deps")
    <3>1. ASSUME NEW g \in Files, gs[g].updating PROVE \E i \in DOMAIN t : t[i].file = g
      <4>1. CASE g = f
        BY <2>5, <4>1
      <4>2. CASE g # f
        <5>1. file[g].updating
          BY <2>2, <3>1, <4>2 DEF SameUpdating
        <5>2. PICK i \in DOMAIN s : s[i].file = g
          BY <5>1
        <5> QED BY <2>5, <5>2
      <4> QED BY <4>1, <4>2
    <3>2. ASSUME NEW i \in DOMAIN t PROVE gs[t[i].file].updating
      <4>1. CASE i = 1
        BY <2>2, <2>5, <4>1
      <4>2. CASE i # 1
        <5>1. i - 1 \in DOMAIN s /\ t[i] = s[i - 1]
          BY <2>5, <4>2
        <5>2. file[s[i - 1].file].updating /\ s[i - 1].file \in Files
          BY <1>2, <5>1
        <5> QED BY <2>2, <5>1, <5>2 DEF SameUpdating
      <4> QED BY <4>1, <4>2
    <3> QED BY <3>1, <3>2 DEF UpdatingIn
  <2>8. NoneRan(mf, runs, f)
    <3>1. file[f].command_state \notin Begun
      BY <1>4 DEF Settled, Begun
    <3>2. ASSUME NEW g \in GroupIn(mf, f) PROVE ~(runs[g] > 0)
      <4>1. g \in Files /\ f \in GroupIn(mf, g)
        BY <1>0, SameGroup
      <4> QED BY <1>0, <3>1, <4>1 DEF RunsBegun
    <3>3. ASSUME NEW g \in GroupIn(mf, f) PROVE runs[g] \in Nat
      BY <1>0, ShapeOfMakefile
    <3>4. \A g \in GroupIn(mf, f) : runs[g] = 0
      BY <3>2, <3>3
    <3> QED BY <3>4 DEF NoneRan
  <2>9. RunsIn(mf, gs, runs, t, "deps")
    <3>1. Advances(file, gs, {})
      BY <2>2 DEF Advances
    <3>2. RunsBegun(mf, gs, runs)
      BY <1>0, <3>1, BegunKept
    <3>3. \A i \in DOMAIN t : NoneRan(mf, runs, t[i].file)
      BY <2>5, <2>8
    <3> QED BY <3>2, <3>3 DEF RunsIn, MakeInv
  <2>10. MakeTypes' /\ WorldTypes'
    BY <1>0, <1>1, <2>1, <2>2 DEF MakeInv, MakeTypes, WorldTypes, Where, Calling
  <2> QED BY <2>1, <2>4, <2>6, <2>7, <2>9, <2>10 DEF MakeInv
<1> QED BY <1>3, <1>4

\* The prerequisite the innermost activation is at.
LEMMA NextDepFacts ==
  ASSUME MakeInv, stack # << >>, Top.todo # << >>
  PROVE  LET p == Head(Top.todo) IN
         /\ NextDep[2] = CalledIn(mf, shuf, Top) /\ NextDep[2] \in Files /\ NextDep[1] \in Files
         /\ NextDep[2] \in NeedsIn(mf, Top.file) /\ NextDep[1] = p[1]
         /\ p \in Pairs /\ p[1] \in GroupIn(mf, Top.file) /\ p[1] \in Files
         /\ NextDep \in Own(mf, p[1])
         /\ shuf[p[1]] = ListedIn(mf, p[1]) => NextDep = p
         /\ Tail(Top.todo) \in Seq(Pairs) /\ ToSet(Tail(Top.todo)) \subseteq ToSet(Top.todo)
<1>1. Top \in FrameShape /\ FrameOK(mf, deps, Top) /\ Top.todo \in Seq(Pairs)
  BY TopFacts
<1>2. NextDep = VisitIn(mf, shuf, Head(Top.todo))
  BY DEF NextDep, Shuffled, VisitIn, Listed, ListedIn
<1>3. mf \in Makefiles /\ ListsIn(mf, shuf, deps)
  BY DEF MakeInv, MakeTypes
<1>4. NextDep[2] = CalledIn(mf, shuf, Top)
  BY <1>2 DEF CalledIn
<1>5. Tail(Top.todo) \in Seq(Pairs) /\ ToSet(Tail(Top.todo)) \subseteq ToSet(Top.todo)
  BY <1>1, TopOf
<1> HIDE DEF NextDep
<1>6. NextDep \in Pairs
  BY <1>1, <1>2, <1>3, CalledIsNeeded
<1>7. NextDep[1] \in Files
  BY <1>6 DEF Pairs
<1> QED BY <1>1, <1>2, <1>3, <1>4, <1>5, <1>7, CalledIsNeeded

LEMMA WaitHereInv == MakeInv /\ WaitHere => MakeInv'
<1> SUFFICES ASSUME MakeInv, WaitHere PROVE MakeInv'
  OBVIOUS
<1> DEFINE fr == [Top EXCEPT !.todo = << >>]
<1>1. at = "deps" /\ stack # << >>
  BY DEF MakeInv, WhereIn, WaitHere, AtDep
<1>2. Top \in FrameShape /\ FrameOK(mf, deps, Top)
  BY <1>1, TopFacts
<1>3. fr \in FrameShape /\ fr.file = Top.file /\ fr.todo = << >> /\ fr.lists = Top.lists
  <2>1. << >> \in Seq(Pairs)
    OBVIOUS
  <2> HIDE DEF Top
  <2> QED BY <1>2, <2>1 DEF FrameShape
<1>4. stack' = <<fr>> \o Tail(stack)
  BY DEF WaitHere
<1> HIDE DEF fr
<1>5. FrameOK(mf, deps, fr)
  BY <1>2, <1>3 DEF FrameOK, ToSet
<1>6. deps' = deps /\ file' = file /\ at' = "deps"
      /\ UNCHANGED <<mf, job_slots, keep_going_flag, shuf, considered, ret, goals, visited,
                     goal_status, children, disk, now, runs>>
  BY <1>1 DEF WaitHere, fixed, goalVars, world
<1>7. \A i \in DOMAIN stack : i # 1 => FrameOK(mf, deps, stack[i])
  BY DEF MakeInv, WellStacked
<1>8. ListsIn(mf, shuf, deps) /\ DroppedIn(mf, shuf, deps) /\ file \in [Files -> FileShape]
  BY DEF MakeInv, MakeTypes
<1>9. Advances(file, file, {})
  BY DEF Advances
<1> QED BY <1>1, <1>3, <1>4, <1>5, <1>6, <1>7, <1>8, <1>9, WalkInv

LEMMA NextListInv == MakeInv /\ NextList => MakeInv'
<1> SUFFICES ASSUME MakeInv, NextList PROVE MakeInv'
  OBVIOUS
<1> DEFINE g == Head(Top.lists)
           fr == [Top EXCEPT !.todo = deps[g], !.kept = FALSE, !.lists = Tail(@)]
<1>1. at = "deps" /\ stack # << >> /\ Top.lists # << >>
  BY DEF MakeInv, WhereIn, NextList
<1>2. Top \in FrameShape /\ FrameOK(mf, deps, Top) /\ Top.lists \in Seq(Files) /\ Top.file \in Files
  BY <1>1, TopFacts
<1>3. /\ g \in Files /\ g \in ToSet(Top.lists) /\ Tail(Top.lists) \in Seq(Files)
      /\ ToSet(Tail(Top.lists)) \subseteq ToSet(Top.lists)
  BY <1>1, <1>2, TopOf
<1>4. ListsIn(mf, shuf, deps) /\ DroppedIn(mf, shuf, deps) /\ file \in [Files -> FileShape]
      /\ mf \in Makefiles
  BY DEF MakeInv, MakeTypes
<1>5. deps[g] \in Seq(Pairs) /\ ToSet(deps[g]) \subseteq Own(mf, g)
  BY <1>3, <1>4 DEF ListsIn
<1>6. stack' = <<fr>> \o Tail(stack)
  BY DEF NextList
<1> HIDE DEF g
<1>7. /\ fr \in FrameShape /\ fr.file = Top.file /\ fr.todo = deps[g] /\ fr.lists = Tail(Top.lists)
      /\ fr.kept = FALSE
  BY <1>2, <1>3, <1>5 DEF FrameShape
<1> HIDE DEF fr
<1>8. FrameOK(mf, deps, fr)
  <2>1. g \in PeersIn(mf, Top.file)
    BY <1>2, <1>3 DEF FrameOK
  <2>2. \A p \in ToSet(deps[g]) : p[1] = g /\ p \in Own(mf, g)
    BY <1>3, <1>4, <1>5, OwnNeeds
  <2>3. g \in GroupIn(mf, Top.file)
    BY <2>1 DEF GroupIn
  <2>4. ToSet(fr.lists) \subseteq PeersIn(mf, fr.file)
    BY <1>2, <1>3, <1>7 DEF FrameOK
  <2> QED BY <1>7, <2>1, <2>2, <2>3, <2>4 DEF FrameOK
<1>9. deps' = deps /\ file' = file /\ at' = "deps"
      /\ UNCHANGED <<mf, job_slots, keep_going_flag, shuf, considered, ret, goals, visited,
                     goal_status, children, disk, now, runs>>
  BY <1>1 DEF NextList, fixed, goalVars, world
<1>10. \A i \in DOMAIN stack : i # 1 => FrameOK(mf, deps, stack[i])
  BY DEF MakeInv, WellStacked
<1>11. Advances(file, file, {})
  BY DEF Advances
<1> QED BY <1>1, <1>4, <1>6, <1>7, <1>8, <1>9, <1>10, <1>11, WalkInv

\* What is dropped closes a circle, and is all that is dropped.
LEMMA CircleDropped ==
  ASSUME MakeInv, DropCircular
  PROVE  LET f == Top.file
             p == Head(Top.todo) IN
         /\ PeersIn(mf, f) = {} /\ p[1] = f /\ NextDep[1] = f /\ NextDep \in Own(mf, f)
         /\ CircleIn(mf, NextDep)
         /\ deps' \in [Files -> Seq(Pairs)] /\ ToSet(deps'[f]) \subseteq ToSet(deps[f])
         /\ \A x \in ToSet(deps[f]) : x # p => x \in ToSet(deps'[f])
         /\ ~Top.kept => deps'[f] = Tail(Top.todo)
         /\ \A g \in Files : g # f => deps'[g] = deps[g]
<1> DEFINE f == Top.file
           p == Head(Top.todo)
           d == NextDep[2]
           new == IF Top.kept THEN Without(deps[f], p) ELSE Tail(Top.todo)
<1>1. at = "deps" /\ stack # << >> /\ Top.todo # << >> /\ file[d].updating
  BY DEF MakeInv, WhereIn, DropCircular, AtDep
<1>2. /\ stack \in Seq(FrameShape) /\ Top = stack[1] /\ 1 \in DOMAIN stack
      /\ Top \in FrameShape /\ FrameOK(mf, deps, Top) /\ f \in Files /\ Top.todo \in Seq(Pairs)
      /\ DOMAIN stack \subseteq Nat \ {0}
      /\ \A i \in DOMAIN stack : i # 1 => stack[i].file # f
  BY <1>1, TopFacts
<1>3. ListsIn(mf, shuf, deps) /\ DroppedIn(mf, shuf, deps) /\ file \in [Files -> FileShape]
      /\ mf \in Makefiles /\ GroupsApart(mf) /\ disk \in [Files -> Nat]
  BY DEF MakeInv, MakeTypes, WorldTypes
<1>4. /\ d \in Files /\ d \in NeedsIn(mf, f) /\ NextDep[1] = p[1]
      /\ p[1] \in GroupIn(mf, f) /\ NextDep \in Own(mf, p[1])
      /\ shuf[p[1]] = ListedIn(mf, p[1]) => NextDep = p
      /\ Tail(Top.todo) \in Seq(Pairs) /\ ToSet(Tail(Top.todo)) \subseteq ToSet(Top.todo)
      /\ \A x \in ToSet(Top.todo) : x = p \/ x \in ToSet(Tail(Top.todo))
  <2>1. \A x \in ToSet(Top.todo) : x = p \/ x \in ToSet(Tail(Top.todo))
    BY <1>1, <1>2, TopOf
  <2> QED BY <1>1, <2>1, NextDepFacts
<1>5. deps' = Unlink(Top)
  BY DEF DropCircular
<1> HIDE DEF d, p
\* The circle: what is dropped waits for what it is dropped from.
<1>6. f \in BelowIn(mf, d)
  <2>1. PICK j \in DOMAIN stack : stack[j].file = d
    BY <1>1, <1>4 DEF MakeInv, UpdatingIn
  <2>2. CASE j = 1
    <3>1. f = d
      BY <1>2, <2>1, <2>2
    <3> QED BY <1>3, <1>4, <3>1, BelowClosed
  <2>3. CASE j # 1
    <3>1. f \in UnderIn(mf, d)
      BY <1>2, <2>1, <2>3 DEF MakeInv, WellStacked
    <3> QED BY <1>3, <1>4, <3>1, UnderClosed
  <2> QED BY <2>2, <2>3
<1>7. PeersIn(mf, f) = {} /\ p[1] = f
  <2>1. f \in UnderIn(mf, f)
    BY <1>2, <1>3, <1>4, <1>6, UnderClosed
  <2>2. f \in GroupIn(mf, f)
    BY <1>2, <1>3, ShapeOfMakefile
  <2>3. PeersIn(mf, f) = {}
    BY <1>2, <1>3, <2>1, <2>2 DEF GroupsApart
  <2> QED BY <1>4, <2>3 DEF GroupIn
<1>8. deps[f] \in Seq(Pairs) /\ ToSet(deps[f]) \subseteq Own(mf, f)
  BY <1>2, <1>3 DEF ListsIn
<1>9. /\ new \in Seq(Pairs) /\ ToSet(new) \subseteq ToSet(deps[f])
      /\ \A x \in ToSet(deps[f]) : x # p => x \in ToSet(new)
      /\ ~Top.kept => new = Tail(Top.todo)
  <2>1. CASE Top.kept
    BY <1>8, <2>1, WithoutOne
  <2>2. CASE ~Top.kept
    <3>1. Top.todo = deps[f]
      BY <1>1, <1>2, <1>7, <2>2 DEF FrameOK
    <3> QED BY <1>4, <2>2, <3>1
  <2> QED BY <2>1, <2>2
<1>10. deps' = [deps EXCEPT ![f] = new]
  BY <1>5, <1>7 DEF Unlink, p
<1> HIDE DEF new, f
<1>11. deps \in [Files -> Seq(Pairs)]
  BY <1>3 DEF ListsIn
<1>12. deps' \in [Files -> Seq(Pairs)] /\ deps'[f] = new /\ \A g \in Files : g # f => deps'[g] = deps[g]
  BY <1>2, <1>9, <1>10, <1>11
<1>13. CircleIn(mf, NextDep)
  BY <1>4, <1>6, <1>7 DEF CircleIn, d
<1> QED BY <1>4, <1>7, <1>9, <1>12, <1>13 DEF f, p

LEMMA DropCircularInv == MakeInv /\ DropCircular => MakeInv'
<1> SUFFICES ASSUME MakeInv, DropCircular PROVE MakeInv'
  OBVIOUS
<1> DEFINE f == Top.file
           p == Head(Top.todo)
           d == NextDep[2]
           fr == [Top EXCEPT !.todo = Tail(@)]
<1>1. at = "deps" /\ stack # << >> /\ Top.todo # << >> /\ file[d].updating
  BY DEF MakeInv, WhereIn, DropCircular, AtDep
<1>2. /\ stack \in Seq(FrameShape) /\ Top = stack[1] /\ 1 \in DOMAIN stack
      /\ Top \in FrameShape /\ FrameOK(mf, deps, Top) /\ f \in Files /\ Top.todo \in Seq(Pairs)
      /\ DOMAIN stack \subseteq Nat \ {0}
      /\ \A i \in DOMAIN stack : i # 1 => stack[i].file # f
  BY <1>1, TopFacts
<1>3. ListsIn(mf, shuf, deps) /\ DroppedIn(mf, shuf, deps) /\ file \in [Files -> FileShape]
      /\ mf \in Makefiles /\ GroupsApart(mf) /\ disk \in [Files -> Nat]
  BY DEF MakeInv, MakeTypes, WorldTypes
<1>4. /\ d \in Files /\ d \in NeedsIn(mf, f) /\ NextDep[1] = p[1]
      /\ p[1] \in GroupIn(mf, f) /\ NextDep \in Own(mf, p[1])
      /\ shuf[p[1]] = ListedIn(mf, p[1]) => NextDep = p
      /\ Tail(Top.todo) \in Seq(Pairs) /\ ToSet(Tail(Top.todo)) \subseteq ToSet(Top.todo)
      /\ \A x \in ToSet(Top.todo) : x = p \/ x \in ToSet(Tail(Top.todo))
  <2>1. \A x \in ToSet(Top.todo) : x = p \/ x \in ToSet(Tail(Top.todo))
    BY <1>1, <1>2, TopOf
  <2> QED BY <1>1, <2>1, NextDepFacts
<1>5. /\ file' = Stat(file, d) /\ deps' = Unlink(Top) /\ stack' = <<fr>> \o Tail(stack) /\ at' = "deps"
      /\ UNCHANGED <<mf, job_slots, keep_going_flag, shuf, considered, ret, goals, visited,
                     goal_status, children, disk, now, runs>>
  BY <1>1 DEF DropCircular, fixed, goalVars, world
<1> HIDE DEF d, p
<1>6. /\ PeersIn(mf, f) = {} /\ p[1] = f /\ NextDep[1] = f /\ NextDep \in Own(mf, f)
      /\ CircleIn(mf, NextDep)
      /\ deps' \in [Files -> Seq(Pairs)] /\ ToSet(deps'[f]) \subseteq ToSet(deps[f])
      /\ \A x \in ToSet(deps[f]) : x # p => x \in ToSet(deps'[f])
      /\ ~Top.kept => deps'[f] = Tail(Top.todo)
      /\ \A g \in Files : g # f => deps'[g] = deps[g]
  BY CircleDropped DEF p
<1>7. ToSet(deps[f]) \subseteq Own(mf, f)
  BY <1>2, <1>3 DEF ListsIn
<1> HIDE DEF f
<1>13. ListsIn(mf, shuf, deps')
  BY <1>3, <1>6, <1>7 DEF ListsIn
<1>14. DroppedIn(mf, shuf, deps')
  <2> SUFFICES ASSUME NEW g \in Files, NEW q \in Own(mf, g), q \notin ToSet(deps'[g])
               PROVE  IF shuf[g] = ListedIn(mf, g) THEN CircleIn(mf, q)
                      ELSE \E r \in Own(mf, g) : CircleIn(mf, r)
    BY DEF DroppedIn
  <2>1. CASE q \notin ToSet(deps[g])
    BY <1>3, <2>1 DEF DroppedIn
  <2>2. CASE q \in ToSet(deps[g])
    <3>1. g = f /\ q = p
      BY <1>6, <2>2
    <3> QED BY <1>4, <1>6, <3>1
  <2> QED BY <2>1, <2>2
<1>15. /\ fr \in FrameShape /\ fr.file = f /\ fr.todo = Tail(Top.todo) /\ fr.lists = Top.lists
       /\ fr.kept = Top.kept
  BY <1>2, <1>4 DEF FrameShape, f
<1> HIDE DEF fr
<1>16. FrameOK(mf, deps', fr)
  <2>1. ToSet(fr.lists) \subseteq PeersIn(mf, fr.file)
    BY <1>2, <1>15 DEF FrameOK, f
  <2>2. \A x \in ToSet(fr.todo) : x[1] \in GroupIn(mf, fr.file) /\ x \in Own(mf, x[1])
    BY <1>2, <1>4, <1>15 DEF FrameOK, f
  <2>3. ~fr.kept => fr.todo = deps'[fr.file]
    BY <1>6, <1>15
  <2> QED BY <2>1, <2>2, <2>3 DEF FrameOK
<1>17. ASSUME NEW i \in DOMAIN stack, i # 1 PROVE FrameOK(mf, deps', stack[i])
  <2>1. FrameOK(mf, deps, stack[i])
    BY DEF MakeInv, WellStacked
  <2>2. stack[i] \in FrameShape
    BY <1>2
  <2>3. stack[i].file \in Files /\ stack[i].file # f
    BY <1>2, <1>17, <2>2 DEF FrameShape
  <2>4. deps'[stack[i].file] = deps[stack[i].file]
    BY <1>6, <2>3
  <2> QED BY <2>1, <2>4 DEF FrameOK
<1>18. /\ file' \in [Files -> FileShape] /\ SameUpdating(file, file') /\ Advances(file, file', {})
  BY <1>3, <1>4, <1>5, Times
<1>19. \A i \in DOMAIN stack : file'[stack[i].file].updating = file[stack[i].file].updating
  <2>1. \A i \in DOMAIN stack : stack[i] \in FrameShape
    BY <1>2
  <2>2. \A i \in DOMAIN stack : stack[i].file \in Files
    BY <2>1 DEF FrameShape
  <2> QED BY <1>18, <2>2 DEF SameUpdating
<1>20. \A g \in Files : file'[g].updating => file[g].updating
  BY <1>18 DEF SameUpdating
<1>21. fr.file = Top.file
  BY <1>15 DEF f
<1> QED BY <1>1, <1>5, <1>13, <1>14, <1>15, <1>16, <1>17, <1>18, <1>19, <1>20, <1>21, WalkInv

LEMMA CheckDepInv == MakeInv /\ check_dep => MakeInv'
<1> SUFFICES ASSUME MakeInv, check_dep PROVE MakeInv'
  OBVIOUS
<1> DEFINE d == NextDep[2]
           fs == Stat(file, d)
           fr == [Top EXCEPT !.d_mtime = file_mtime(d)]
           s == <<fr>> \o Tail(stack)
<1>1. at = "deps" /\ stack # << >> /\ Top.todo # << >> /\ ~file[d].updating
  BY DEF MakeInv, WhereIn, check_dep, AtDep
<1>2. /\ stack \in Seq(FrameShape) /\ Top = stack[1] /\ 1 \in DOMAIN stack
      /\ Top \in FrameShape /\ FrameOK(mf, deps, Top) /\ Top.file \in Files
  BY <1>1, TopFacts
<1>3. file \in [Files -> FileShape] /\ disk \in [Files -> Nat]
  BY DEF MakeInv, MakeTypes, WorldTypes
<1>4. d \in Files /\ d = CalledIn(mf, shuf, Top)
  BY <1>1, NextDepFacts
<1>5. /\ update_file(d, fs, s) /\ visited < Len(goals)
      /\ UNCHANGED <<mf, job_slots, keep_going_flag, shuf, deps, goals, visited, goal_status,
                     children, disk, now, runs>>
  BY <1>1 DEF check_dep, fixed, goalVars, world, MakeInv, MakeTypes, Calling
<1> HIDE DEF d
<1>6. /\ fs \in [Files -> FileShape] /\ SameUpdating(file, fs)
      /\ \A g \in Files : fs[g].command_state = file[g].command_state
  <2>1. fs \in [Files -> FileShape] /\ SameUpdating(file, fs)
    BY <1>3, <1>4, Times
  <2>2. fs = [file EXCEPT ![d] = [file[d] EXCEPT !.last_mtime = MtimeIn(file, d)]]
    BY DEF Stat
  <2>3. file[d] \in FileShape
    BY <1>3, <1>4
  <2>4. [file[d] EXCEPT !.last_mtime = MtimeIn(file, d)].command_state = file[d].command_state
    BY <2>3 DEF FileShape
  <2> HIDE DEF fs
  <2> QED BY <1>3, <2>1, <2>2, <2>4
<1> HIDE DEF fs
<1>7. file_mtime(d) \in Nat
  BY <1>3, <1>4, Times DEF file_mtime
<1>8. /\ fr \in FrameShape /\ fr.file = Top.file /\ fr.todo = Top.todo /\ fr.lists = Top.lists
      /\ fr.kept = Top.kept
  <2> HIDE DEF Top
  <2> QED BY <1>2, <1>7 DEF FrameShape
<1> HIDE DEF fr
<1>9. FrameOK(mf, deps, fr)
  BY <1>2, <1>8 DEF FrameOK
<1>10. WellStacked(mf, shuf, deps, s)
  <2>1. \A i \in DOMAIN stack : i # 1 => FrameOK(mf, deps, stack[i])
    BY DEF MakeInv, WellStacked
  <2> QED BY <1>1, <1>8, <1>9, <2>1, ReplaceOK DEF MakeInv, Top
<1>11. /\ s # << >> /\ s[1] = fr /\ DOMAIN s = DOMAIN stack
       /\ \A i \in DOMAIN stack : i # 1 => s[i] = stack[i]
  BY <1>1, <1>2, <1>8, Replaced
<1> HIDE DEF s
<1>12. \A i \in DOMAIN s : s[i].file = stack[i].file
  BY <1>2, <1>8, <1>11
<1>13. ASSUME NEW i \in DOMAIN s
       PROVE  s[i].file # d /\ file[s[i].file].updating /\ NoneRan(mf, runs, s[i].file)
  <2>1. file[stack[i].file].updating
    BY <1>1, <1>11 DEF MakeInv, UpdatingIn
  <2>2. NoneRan(mf, runs, stack[i].file)
    BY <1>1, <1>11 DEF MakeInv, RunsIn
  <2> QED BY <1>1, <1>12, <2>1, <2>2 DEF d
<1>14. s[1].todo # << >> /\ CalledIn(mf, shuf, s[1]) = d
  BY <1>1, <1>4, <1>8, <1>11 DEF CalledIn
<1>15. ASSUME NEW g \in Files, file[g].updating PROVE \E i \in DOMAIN s : s[i].file = g
  <2>1. PICK i \in DOMAIN stack : stack[i].file = g
    BY <1>15 DEF MakeInv, UpdatingIn
  <2> QED BY <1>11, <1>12, <2>1
<1> QED BY <1>4, <1>5, <1>6, <1>10, <1>13, <1>14, <1>15, UpdateFileInv

\* A file whose changed prerequisites are noted.
LEMMA ChangedShape ==
  ASSUME NEW fs \in [Files -> FileShape], NEW f \in Files, NEW d \in Files, NEW b \in BOOLEAN
  PROVE  LET gs == [fs EXCEPT ![f].changed = IF b THEN @ \cup {d} ELSE @ \ {d}] IN
         /\ gs \in [Files -> FileShape]
         /\ \A g \in Files : /\ gs[g].updating = fs[g].updating
                             /\ gs[g].command_state = fs[g].command_state
<1> DEFINE set == IF b THEN fs[f].changed \cup {d} ELSE fs[f].changed \ {d}
           gs == [fs EXCEPT ![f] = [fs[f] EXCEPT !.changed = set]]
<1>1. fs[f] \in FileShape
  OBVIOUS
<1>2. set \in SUBSET Files
  BY <1>1 DEF FileShape
<1>3. [fs EXCEPT ![f].changed = IF b THEN @ \cup {d} ELSE @ \ {d}] = gs
  OBVIOUS
<1> HIDE DEF set
<1>4. /\ [fs[f] EXCEPT !.changed = set] \in FileShape
      /\ [fs[f] EXCEPT !.changed = set].updating = fs[f].updating
      /\ [fs[f] EXCEPT !.changed = set].command_state = fs[f].command_state
  BY <1>1, <1>2 DEF FileShape
<1>5. /\ gs \in [Files -> FileShape]
      /\ \A g \in Files : /\ gs[g].updating = fs[g].updating
                          /\ gs[g].command_state = fs[g].command_state
  BY <1>4
<1> QED BY <1>3, <1>5

LEMMA DepReturnedInv == MakeInv /\ DepReturned => MakeInv'
<1> SUFFICES ASSUME MakeInv, DepReturned PROVE MakeInv'
  OBVIOUS
<1> DEFINE p == NextDep
           d == p[2]
           mtime == file_mtime(d)
           running == Top.running \/ InProgress(d)
           failed == Top.dep_status = "failed" \/ ret = "failed"
           status == IF failed THEN "failed" ELSE "success"
           stop == Stops(failed)
           newer == mtime = NONEXISTENT_MTIME \/ mtime > Top.this_mtime
           must == Top.must_make \/ (newer /\ Counts(p))
           rest == IF stop THEN << >> ELSE Tail(Top.todo)
           changed == mtime # Top.d_mtime \/ Top.d_mtime = NONEXISTENT_MTIME
           fs == [Stat(file, d) EXCEPT ![d].updating = FALSE]
           gs == [fs EXCEPT ![p[1]].changed = IF changed THEN @ \cup {d} ELSE @ \ {d}]
           fr == [Top EXCEPT !.running = running, !.dep_status = status, !.must_make = must,
                             !.todo = rest, !.kept = TRUE]
<1>1. at = "returned" /\ stack # << >>
  BY DEF DepReturned
<1>2. /\ stack \in Seq(FrameShape) /\ Top = stack[1] /\ 1 \in DOMAIN stack
      /\ Top \in FrameShape /\ FrameOK(mf, deps, Top) /\ Top.file \in Files
  BY <1>1, TopFacts
<1>3. file \in [Files -> FileShape] /\ disk \in [Files -> Nat]
      /\ ListsIn(mf, shuf, deps) /\ DroppedIn(mf, shuf, deps)
  BY DEF MakeInv, MakeTypes, WorldTypes
<1>4. Top.todo # << >> /\ \A i \in DOMAIN stack : stack[i].file # CalledIn(mf, shuf, Top)
  BY <1>1, <1>2 DEF MakeInv, WhereIn
<1>5. /\ d \in Files /\ d = CalledIn(mf, shuf, Top) /\ p[1] \in Files
      /\ Tail(Top.todo) \in Seq(Pairs) /\ ToSet(Tail(Top.todo)) \subseteq ToSet(Top.todo)
  BY <1>1, <1>4, NextDepFacts
<1>6. /\ stack' = <<fr>> \o Tail(stack) /\ (file' = fs \/ file' = gs) /\ at' = "deps"
      /\ deps' = deps
      /\ UNCHANGED <<mf, job_slots, keep_going_flag, shuf, considered, ret, goals, visited,
                     goal_status, children, disk, now, runs>>
  BY Zenon DEF DepReturned, fixed, goalVars, world
<1>7. /\ running \in BOOLEAN /\ status \in {"success", "failed"} /\ must \in BOOLEAN
      /\ rest \in Seq(Pairs) /\ ToSet(rest) \subseteq ToSet(Top.todo) /\ changed \in BOOLEAN
  <2>1. Top.running \in BOOLEAN /\ Top.must_make \in BOOLEAN
    BY <1>2 DEF FrameShape
  <2>2. << >> \in Seq(Pairs) /\ ToSet(<< >>) \subseteq ToSet(Top.todo)
    BY DEF ToSet
  <2> HIDE DEF Top, NextDep
  <2> QED BY <1>5, <2>1, <2>2 DEF InProgress
<1> HIDE DEF p, d, running, status, must, rest, changed
<1>8. /\ fr \in FrameShape /\ fr.file = Top.file /\ fr.todo = rest /\ fr.lists = Top.lists
      /\ fr.kept = TRUE
  <2> HIDE DEF Top
  <2> QED BY <1>2, <1>7 DEF FrameShape
<1> HIDE DEF fr
<1>9. FrameOK(mf, deps, fr)
  BY <1>2, <1>7, <1>8 DEF FrameOK
<1>10. /\ file' \in [Files -> FileShape] /\ Advances(file, file', {})
       /\ \A g \in Files : file'[g].updating => file[g].updating
       /\ \A g \in Files : g # d => file'[g].updating = file[g].updating
  <2> DEFINE hs == Stat(file, d)
  <2>1. hs \in [Files -> FileShape] /\ SameUpdating(file, hs) /\ Advances(file, hs, {})
    BY <1>3, <1>5, Times
  <2> HIDE DEF hs
  <2>2. /\ fs \in [Files -> FileShape] /\ ~fs[d].updating
        /\ \A g \in Files : g # d => fs[g] = hs[g]
        /\ \A g \in Files : fs[g].command_state = hs[g].command_state
    <3>1. fs = [hs EXCEPT ![d].updating = FALSE]
      BY DEF hs
    <3> HIDE DEF fs
    <3> QED BY ONLY <1>5, <2>1, <3>1, Cleared
  <2> HIDE DEF fs
  <2>3. /\ gs \in [Files -> FileShape]
        /\ \A g \in Files : /\ gs[g].updating = fs[g].updating
                            /\ gs[g].command_state = fs[g].command_state
    <3>1. gs = [fs EXCEPT ![p[1]].changed = IF changed THEN @ \cup {d} ELSE @ \ {d}]
      OBVIOUS
    <3> HIDE DEF gs
    <3> QED BY ONLY <1>5, <1>7, <2>2, <3>1, ChangedShape
  <2> HIDE DEF gs
  <2>4. /\ file' \in [Files -> FileShape]
        /\ \A g \in Files : /\ file'[g].updating = fs[g].updating
                            /\ file'[g].command_state = fs[g].command_state
    BY <1>6, <2>2, <2>3
  <2> QED BY <2>1, <2>2, <2>4 DEF SameUpdating, Advances
<1>11. ASSUME NEW i \in DOMAIN stack PROVE file'[stack[i].file].updating = file[stack[i].file].updating
  <2>1. stack[i] \in FrameShape
    BY <1>2
  <2>2. stack[i].file \in Files
    BY <2>1 DEF FrameShape
  <2> QED BY <1>4, <1>5, <1>10, <2>2
<1>12. \A i \in DOMAIN stack : i # 1 => FrameOK(mf, deps, stack[i])
  BY DEF MakeInv, WellStacked
<1> QED BY <1>1, <1>3, <1>6, <1>8, <1>9, <1>10, <1>11, <1>12, WalkInv

----------------------------------------------------------------------------
(***************************************************************************)
(* The end of an activation                                                *)
(***************************************************************************)
LEMMA AllSeenFacts ==
  ASSUME MakeInv, AllSeen
  PROVE  /\ at = "deps" /\ stack # << >> /\ Top.file \in Files /\ mf \in Makefiles
         /\ file \in [Files -> FileShape] /\ disk \in [Files -> Nat]
         /\ NotStarted(Top.file) \in [Files -> FileShape]
         /\ SameUpdating(file, NotStarted(Top.file)) /\ Advances(file, NotStarted(Top.file), {})
<1>1. at = "deps" /\ stack # << >> /\ mf \in Makefiles
      /\ file \in [Files -> FileShape] /\ disk \in [Files -> Nat]
  BY DEF MakeInv, MakeTypes, WorldTypes, WhereIn, AllSeen
<1>2. Top.file \in Files
  BY <1>1, TopFacts
<1> QED BY <1>1, <1>2, Restarted

LEMMA DepsRunningInv == MakeInv /\ DepsRunning => MakeInv'
<1> SUFFICES ASSUME MakeInv, DepsRunning PROVE MakeInv'
  OBVIOUS
<1> DEFINE fs == set_command_state(file, Top.file, "deps_running")
<1>1. AllSeen /\ Return(fs, "success")
  BY DEF DepsRunning
<1>2. fs \in [Files -> FileShape] /\ SameUpdating(file, fs) /\ Advances(file, fs, {Top.file})
  BY <1>1, AllSeenFacts, SetState DEF States
<1>3. UNCHANGED <<mf, job_slots, keep_going_flag, shuf, deps, considered, goals, visited,
                  goal_status, children, disk, now, runs>>
  BY DEF DepsRunning, fixed, goalVars, world
<1> HIDE DEF fs
<1> QED BY <1>1, <1>2, <1>3, AllSeenFacts, ReturnInv DEF Return, Statuses

\* An activation that ends with the files as they stood or further on.
LEMMA ReturnsInv ==
  ASSUME MakeInv, AllSeen, NEW fs \in [Files -> FileShape], SameUpdating(file, fs),
         Advances(file, fs, {}), NEW status \in Statuses, Return(fs, status),
         UNCHANGED <<mf, job_slots, keep_going_flag, shuf, deps, considered, goals, visited,
                     goal_status, children, disk, now, runs>>
  PROVE  MakeInv'
<1>1. /\ file' = [fs EXCEPT ![Top.file].updating = FALSE]
      /\ stack' = Tail(stack) /\ at' = "returned" /\ ret' \in Statuses
  BY DEF Return
<1>2. at \in {"deps", "started", "linear"}
  BY DEF AllSeen
<1> QED BY <1>1, <1>2, ReturnInv

LEMMA GiveUpInv == MakeInv /\ GiveUp => MakeInv'
<1> SUFFICES ASSUME MakeInv, GiveUp PROVE MakeInv'
  OBVIOUS
<1> DEFINE fs == Finish(file, Top.file, "failed")
<1>1. AllSeen /\ Return(fs, "failed")
  BY DEF GiveUp
<1>2. fs \in [Files -> FileShape] /\ SameUpdating(file, fs) /\ Advances(file, fs, {})
  BY <1>1, AllSeenFacts, Finished DEF Statuses
<1>3. UNCHANGED <<mf, job_slots, keep_going_flag, shuf, deps, considered, goals, visited,
                  goal_status, children, disk, now, runs>>
  BY DEF GiveUp, fixed, goalVars, world
<1>4. "failed" \in Statuses
  BY DEF Statuses
<1> HIDE DEF fs
<1> QED BY <1>1, <1>2, <1>3, <1>4, ReturnsInv

LEMMA NoNeedToRemakeInv == MakeInv /\ NoNeedToRemake => MakeInv'
<1> SUFFICES ASSUME MakeInv, NoNeedToRemake PROVE MakeInv'
  OBVIOUS
<1> DEFINE hs == NotStarted(Top.file)
           fs == notice_finished_file(hs, Top.file)
<1>1. AllSeen /\ Return(fs, "success")
  BY DEF NoNeedToRemake, Settles
<1>2. hs \in [Files -> FileShape] /\ SameUpdating(file, hs) /\ Advances(file, hs, {})
  BY <1>1, AllSeenFacts
<1> HIDE DEF hs
<1>3. fs \in [Files -> FileShape] /\ SameUpdating(hs, fs) /\ Advances(hs, fs, {})
  BY <1>1, <1>2, AllSeenFacts, Noticed
<1> HIDE DEF fs
<1>4. SameUpdating(file, fs) /\ Advances(file, fs, {})
  BY <1>2, <1>3 DEF SameUpdating, Advances
<1>5. UNCHANGED <<mf, job_slots, keep_going_flag, shuf, deps, considered, goals, visited,
                  goal_status, children, disk, now, runs>>
  BY DEF NoNeedToRemake, fixed, goalVars, world
<1>6. "success" \in Statuses
  BY DEF Statuses
<1> QED BY <1>1, <1>3, <1>4, <1>5, <1>6, ReturnsInv

LEMMA DieInv ==
  ASSUME MakeInv, at' = "die", goal_status' \in Statuses,
         UNCHANGED <<mf, job_slots, keep_going_flag, shuf, file, deps, considered, stack, ret,
                     goals, visited, children, disk, now, runs>>
  PROVE  MakeInv'
<1>1. MakeTypes' /\ WorldTypes'
  BY DEF MakeInv, MakeTypes, WorldTypes, Where, Calling
<1>2. SameUpdating(file, file') /\ Advances(file, file', {}) /\ WhereIn(mf, shuf, stack, at')
  BY DEF SameUpdating, Advances, WhereIn
<1> QED BY <1>1, <1>2, StaysInv

LEMMA RemakeWithoutRecipeInv == MakeInv /\ RemakeWithoutRecipe => MakeInv'
<1> SUFFICES ASSUME MakeInv, RemakeWithoutRecipe PROVE MakeInv'
  OBVIOUS
<1> DEFINE status == IF Top.file \in mf.phony \cup mf.is_target THEN "success" ELSE "failed"
           hs == NotStarted(Top.file)
           fs == Finish(hs, Top.file, status)
<1>1. AllSeen /\ status \in Statuses
  BY DEF RemakeWithoutRecipe, Settles, Statuses
<1>2. CASE status = "failed" /\ ~keep_going_flag
  <2>1. /\ at' = "die" /\ goal_status' = "failed"
        /\ UNCHANGED <<mf, job_slots, keep_going_flag, shuf, file, deps, considered, stack, ret,
                       goals, visited, children, disk, now, runs>>
    BY <1>2 DEF RemakeWithoutRecipe, fixed, world
  <2> QED BY <2>1, DieInv DEF Statuses
<1>3. CASE ~(status = "failed" /\ ~keep_going_flag)
  <2>1. /\ Return(fs, status)
        /\ UNCHANGED <<mf, job_slots, keep_going_flag, shuf, deps, considered, goals, visited,
                       goal_status, children, disk, now, runs>>
    BY <1>3 DEF RemakeWithoutRecipe, fixed, world
  <2>2. hs \in [Files -> FileShape] /\ SameUpdating(file, hs) /\ Advances(file, hs, {})
    BY <1>1, AllSeenFacts
  <2> HIDE DEF hs, status
  <2>3. fs \in [Files -> FileShape] /\ SameUpdating(hs, fs) /\ Advances(hs, fs, {})
    BY <1>1, <2>2, AllSeenFacts, Finished
  <2> HIDE DEF fs
  <2>4. SameUpdating(file, fs) /\ Advances(file, fs, {})
    BY <2>2, <2>3 DEF SameUpdating, Advances
  <2> QED BY <1>1, <2>1, <2>3, <2>4, ReturnsInv
<1> QED BY <1>2, <1>3

LEMMA RemakeFileInv == MakeInv /\ remake_file => MakeInv'
<1> SUFFICES ASSUME MakeInv, remake_file PROVE MakeInv'
  OBVIOUS
<1> DEFINE f == Top.file
           hs == NotStarted(f)
           gs == set_command_state(hs, f, "running")
           fs == Finish(gs, f, "success")
<1>1. AllSeen
  BY DEF remake_file, Settles
<1>2. /\ at = "deps" /\ stack # << >> /\ f \in Files /\ mf \in Makefiles
      /\ file \in [Files -> FileShape] /\ disk \in [Files -> Nat]
      /\ hs \in [Files -> FileShape] /\ SameUpdating(file, hs) /\ Advances(file, hs, {})
  BY <1>1, AllSeenFacts
<1>3. UNCHANGED <<mf, job_slots, keep_going_flag, shuf, deps, considered, goals, visited,
                  goal_status, children, disk, now, runs>>
  BY DEF remake_file, fixed, goalVars, world
<1>4. CASE f \in mf.empty
  <2>1. Return(fs, "success")
    BY <1>4 DEF remake_file
  <2> HIDE DEF hs
  <2>2. gs \in [Files -> FileShape] /\ SameUpdating(hs, gs) /\ Advances(hs, gs, {f})
        /\ \A g \in Group(f) : gs[g].command_state \in Begun
    BY <1>2, SetState DEF States, Begun
  <2> HIDE DEF gs
  <2>3. fs \in [Files -> FileShape] /\ SameUpdating(gs, fs) /\ Advances(gs, fs, {})
    BY <1>2, <2>2, Finished DEF Statuses
  <2> HIDE DEF fs
  <2>4. f \in Group(f)
    BY <1>2, ShapeOfMakefile DEF Group
  <2>5. SameUpdating(file, fs) /\ Advances(file, fs, {})
    BY <1>2, <2>2, <2>3, <2>4 DEF SameUpdating, Advances
  <2>6. "success" \in Statuses
    BY DEF Statuses
  <2> QED BY <1>1, <1>3, <2>1, <2>3, <2>5, <2>6, ReturnsInv
<1>5. CASE f \notin mf.empty
  <2>1. file' = [hs EXCEPT ![f].updating = FALSE] /\ at' = "new_job" /\ stack' = stack /\ ret' = ret
    BY <1>5 DEF remake_file
  <2>2. /\ stack \in Seq(FrameShape) /\ Top = stack[1] /\ 1 \in DOMAIN stack
        /\ \A i \in DOMAIN stack : i # 1 => stack[i].file # f
        /\ DOMAIN stack \subseteq Nat \ {0}
    BY <1>2, TopFacts
  <2> HIDE DEF hs
  <2>3. /\ file' \in [Files -> FileShape] /\ ~file'[f].updating
        /\ \A g \in Files : g # f => file'[g] = hs[g]
        /\ \A g \in Files : file'[g].command_state = hs[g].command_state
    BY <1>2, <2>1, Cleared
  <2>4. WhereIn(mf, shuf, stack, "new_job")
    BY <1>2 DEF WhereIn
  <2>5. UpdatingIn(file', stack, "new_job")
    <3>1. ASSUME NEW g \in Files, file'[g].updating PROVE \E i \in DOMAIN stack : stack[i].file = g
      <4>1. file[g].updating
        BY <1>2, <2>3, <3>1 DEF SameUpdating
      <4> QED BY <4>1 DEF MakeInv, UpdatingIn
    <3>2. ASSUME NEW i \in DOMAIN stack, i > 1 PROVE file'[stack[i].file].updating
      <4>1. file[stack[i].file].updating
        BY <1>2 DEF MakeInv, UpdatingIn
      <4>2. stack[i] \in FrameShape /\ i # 1
        BY <2>2, <3>2
      <4>3. stack[i].file \in Files /\ stack[i].file # f
        BY <2>2, <4>2 DEF FrameShape
      <4> QED BY <1>2, <2>3, <4>1, <4>3 DEF SameUpdating
    <3>3. ~file'[stack[1].file].updating
      BY <2>2, <2>3
    <3> QED BY <3>1, <3>2, <3>3 DEF UpdatingIn
  <2>6. RunsIn(mf, file', runs, stack, "new_job")
    <3>1. Advances(file, file', {})
      BY <1>2, <2>3 DEF Advances
    <3>2. RunsBegun(mf, file', runs)
      BY <3>1, BegunKept DEF MakeInv, MakeTypes, RunsIn
    <3>3. \A i \in DOMAIN stack : NoneRan(mf, runs, stack[i].file)
      BY <1>2 DEF MakeInv, RunsIn
    <3> QED BY <3>2, <3>3 DEF RunsIn, MakeInv
  <2>7. MakeTypes' /\ WorldTypes'
    BY <1>2, <1>3, <2>1, <2>3 DEF MakeInv, MakeTypes, WorldTypes, Where, Calling
  <2> QED BY <1>3, <2>1, <2>4, <2>5, <2>6, <2>7 DEF MakeInv
<1> QED BY <1>4, <1>5

LEMMA StartedInv == MakeInv /\ Started => MakeInv'
<1> SUFFICES ASSUME MakeInv, Started PROVE MakeInv'
  OBVIOUS
<1>1. at \in {"started", "linear"} /\ stack # << >>
  BY DEF Started, MakeInv, WhereIn
<1>2. Top \in FrameShape /\ Top = stack[1] /\ Top.file \in Files
  BY <1>1, TopFacts
<1>3. file \in [Files -> FileShape]
  BY DEF MakeInv, MakeTypes
<1>4. file[Top.file] \in FileShape /\ ~file[Top.file].updating
  BY <1>1, <1>2, <1>3 DEF MakeInv, UpdatingIn
<1>5. [file[Top.file] EXCEPT !.updating = FALSE] = file[Top.file]
  BY <1>4 DEF FileShape
<1>6. [file EXCEPT ![Top.file].updating = FALSE] = file
  BY <1>2, <1>3, <1>5
<1>7. /\ stack' = Tail(stack) /\ ret' \in Statuses /\ at' = "returned" /\ file' = file
      /\ UNCHANGED <<mf, job_slots, keep_going_flag, shuf, deps, considered, goals, visited,
                     goal_status, children, disk, now, runs>>
  BY DEF Started, Answer, Statuses, fixed, goalVars, world
<1>8. SameUpdating(file, file) /\ Advances(file, file, {})
  BY DEF SameUpdating, Advances
<1>9. file' = [file EXCEPT ![Top.file].updating = FALSE]
  BY <1>6, <1>7
<1> QED BY <1>1, <1>3, <1>7, <1>8, <1>9, ReturnInv

----------------------------------------------------------------------------
(***************************************************************************)
(* Recipes                                                                 *)
(***************************************************************************)
ChildrenFit(c) == DOMAIN c \subseteq Files /\ Cardinality(DOMAIN c) <= job_slots

LEMMA OneMore ==
  ASSUME job_slots \in Nat, ChildrenFit(children), Cardinality(DOMAIN children) < job_slots,
         NEW f \in Files, NEW c, DOMAIN c = DOMAIN children \cup {f}
  PROVE  ChildrenFit(c)
<1>1. IsFiniteSet(DOMAIN children)
  BY MakeAssumption, FS_Subset DEF ChildrenFit
<1>2. Cardinality(DOMAIN children) \in Nat /\ IsFiniteSet(DOMAIN children \cup {f})
      /\ Cardinality(DOMAIN children \cup {f}) =
            IF f \in DOMAIN children THEN Cardinality(DOMAIN children)
            ELSE Cardinality(DOMAIN children) + 1
  BY <1>1, FS_AddElement, FS_CardinalityType
<1> QED BY <1>2 DEF ChildrenFit

LEMMA OneLess ==
  ASSUME job_slots \in Nat, ChildrenFit(children), NEW c, DOMAIN c \subseteq DOMAIN children
  PROVE  ChildrenFit(c)
<1>1. IsFiniteSet(DOMAIN children)
  BY MakeAssumption, FS_Subset DEF ChildrenFit
<1>2. /\ Cardinality(DOMAIN children) \in Nat /\ Cardinality(DOMAIN c) \in Nat
      /\ Cardinality(DOMAIN c) <= Cardinality(DOMAIN children)
  BY <1>1, FS_Subset, FS_CardinalityType
<1> QED BY <1>2 DEF ChildrenFit

\* The recipe of the innermost activation is started: of its group none was.
LEMMA NewJobInv == MakeInv /\ new_job => MakeInv'
<1> SUFFICES ASSUME MakeInv, new_job PROVE MakeInv'
  OBVIOUS
<1> DEFINE f == Top.file
           gs == set_command_state(file, f, "running")
           rs == [runs EXCEPT ![f] = @ + 1]
<1>1. at = "new_job" /\ stack # << >>
  BY DEF new_job, MakeInv, WhereIn
<1>2. /\ stack \in Seq(FrameShape) /\ Top = stack[1] /\ 1 \in DOMAIN stack /\ f \in Files
      /\ DOMAIN stack \subseteq Nat \ {0}
  BY <1>1, TopFacts
<1>3. /\ mf \in Makefiles /\ GroupsApart(mf) /\ file \in [Files -> FileShape]
      /\ runs \in [Files -> Nat] /\ RunsOnceIn(mf, runs) /\ RunsBegun(mf, file, runs)
      /\ NoneRan(mf, runs, f) /\ job_slots \in Nat /\ ChildrenFit(children)
  BY <1>1, <1>2, MakeAssumption DEF MakeInv, MakeTypes, WorldTypes, RunsIn, ChildrenFit
<1>4. /\ file' = gs /\ runs' = rs /\ at' \in {"linear", "started"}
      /\ DOMAIN children' = DOMAIN children \cup {f} /\ Cardinality(DOMAIN children) < job_slots
      /\ UNCHANGED <<mf, job_slots, keep_going_flag, shuf, deps, considered, stack, ret, goals,
                     visited, goal_status, disk, now>>
  BY DEF new_job, fixed, goalVars
<1> HIDE DEF f
<1>5. gs \in [Files -> FileShape] /\ SameUpdating(file, gs) /\ Advances(file, gs, {f})
      /\ \A g \in Group(f) : gs[g].command_state \in Begun
  BY <1>2, <1>3, SetState DEF States, Begun
<1> HIDE DEF gs
<1>6. /\ rs \in [Files -> Nat] /\ rs[f] = runs[f] + 1 /\ \A g \in Files : g # f => rs[g] = runs[g]
  BY <1>2, <1>3
<1> HIDE DEF rs
<1>7. f \in GroupIn(mf, f)
  BY <1>2, <1>3, ShapeOfMakefile
<1>8. rs[f] = 1
  BY <1>6, <1>7, <1>3 DEF NoneRan
<1>9. RunsOnceIn(mf, rs)
  <2> SUFFICES ASSUME NEW a \in Files, NEW g \in GroupIn(mf, a), NEW h \in GroupIn(mf, a),
                      rs[g] > 0, rs[h] > 0
               PROVE  g = h /\ rs[g] = 1
    BY DEF RunsOnceIn
  <2>1. g \in Files /\ h \in Files /\ GroupIn(mf, g) = GroupIn(mf, a) /\ GroupIn(mf, h) = GroupIn(mf, a)
    BY <1>3, SameGroup
  <2>2. CASE f \in GroupIn(mf, a)
    <3>1. GroupIn(mf, f) = GroupIn(mf, a)
      BY <1>3, <2>2, SameGroup
    <3>2. runs[g] = 0 /\ runs[h] = 0
      BY <1>3, <3>1 DEF NoneRan
    <3>3. g = f /\ h = f
      BY <1>6, <2>1, <3>2
    <3> QED BY <1>8, <3>3
  <2>3. CASE f \notin GroupIn(mf, a)
    <3>1. rs[g] = runs[g] /\ rs[h] = runs[h]
      BY <1>6, <2>1, <2>3
    <3> QED BY <1>3, <3>1 DEF RunsOnceIn
  <2> QED BY <2>2, <2>3
<1>10. RunsBegun(mf, gs, rs)
  <2>1. RunsBegun(mf, gs, runs)
    BY <1>2, <1>3, <1>5, BegunKept
  <2> SUFFICES ASSUME NEW a \in Files, rs[a] > 0, NEW g \in GroupIn(mf, a)
               PROVE  gs[g].command_state \in Begun
    BY DEF RunsBegun
  <2>2. CASE a = f
    BY <1>5, <2>2 DEF Group
  <2>3. CASE a # f
    BY <1>6, <2>1, <2>3 DEF RunsBegun
  <2> QED BY <2>2, <2>3
<1>11. ASSUME NEW i \in DOMAIN stack, i # 1 PROVE NoneRan(mf, rs, stack[i].file)
  <2>1. f \notin GroupIn(mf, stack[i].file)
    BY <1>1, <1>2, <1>3, <1>11, OthersApart DEF MakeInv, f
  <2>2. NoneRan(mf, runs, stack[i].file)
    BY <1>1, <1>11 DEF MakeInv, RunsIn
  <2>3. stack[i] \in FrameShape
    BY <1>2
  <2>4. stack[i].file \in Files
    BY <2>3 DEF FrameShape
  <2>5. GroupIn(mf, stack[i].file) \subseteq Files
    BY <1>3, <2>4, ShapeOfMakefile
  <2> QED BY <1>6, <2>1, <2>2, <2>5 DEF NoneRan
<1>12. RunsIn(mf, gs, rs, stack, at')
  BY <1>4, <1>9, <1>10, <1>11 DEF RunsIn
<1>13. UpdatingIn(gs, stack, at')
  <2>1. UpdatingIn(file, stack, at)
    BY DEF MakeInv
  <2>2. \A i \in DOMAIN stack : stack[i] \in FrameShape
    BY <1>2
  <2>3. \A i \in DOMAIN stack : stack[i].file \in Files
    BY <2>2 DEF FrameShape
  <2>4. stack[1].file \in Files
    BY <1>2, <2>3
  <2> QED BY <1>1, <1>4, <1>5, <2>1, <2>3, <2>4 DEF UpdatingIn, SameUpdating
<1>14. WhereIn(mf, shuf, stack, at')
  BY <1>1, <1>4 DEF WhereIn
<1>15. ChildrenFit(children')
  BY <1>2, <1>3, <1>4, OneMore
<1>16. MakeTypes' /\ WorldTypes'
  <2>1. at' \in Where /\ at \in Calling
    BY <1>1, <1>4 DEF Where, Calling
  <2> QED BY <1>4, <1>5, <1>6, <1>15, <2>1 DEF MakeInv, MakeTypes, WorldTypes, ChildrenFit
<1> QED BY <1>4, <1>12, <1>13, <1>14, <1>16 DEF MakeInv

LEMMA ReapChildrenInv == MakeInv /\ reap_children => MakeInv'
<1> SUFFICES ASSUME MakeInv, reap_children PROVE MakeInv'
  OBVIOUS
<1>1. PICK c \in DeadChildren :
         /\ file' = Finish(file, c, IF children[c] = "won" THEN "success" ELSE "failed")
         /\ children' = [x \in DOMAIN children \ {c} |-> children[x]]
         /\ at' \in {"die", at}
         /\ goal_status' \in {"failed", goal_status}
  BY DEF reap_children
<1>2. /\ UNCHANGED <<mf, job_slots, keep_going_flag, shuf, deps, considered, stack, ret, goals,
                     visited, disk, now, runs>>
      /\ at \in {"pass", "new_job", "linear", "die"}
  BY DEF reap_children, fixed
<1>3. /\ mf \in Makefiles /\ file \in [Files -> FileShape] /\ disk \in [Files -> Nat]
      /\ c \in Files /\ job_slots \in Nat /\ ChildrenFit(children)
  BY <1>1, MakeAssumption DEF MakeInv, MakeTypes, WorldTypes, ChildrenFit, DeadChildren
<1>4. file' \in [Files -> FileShape] /\ SameUpdating(file, file') /\ Advances(file, file', {})
  BY <1>1, <1>3, Finished DEF Statuses
<1>5. ChildrenFit(children')
  BY <1>1, <1>3, OneLess
<1>6. at' \in Where /\ (at' \in Calling => at' = at) /\ goal_status' \in Statuses
  BY <1>1 DEF MakeInv, MakeTypes, Where, Calling, Statuses
<1>7. MakeTypes' /\ WorldTypes'
  BY <1>2, <1>4, <1>5, <1>6 DEF MakeInv, MakeTypes, WorldTypes, ChildrenFit
<1>8. WhereIn(mf, shuf, stack, at') /\ (at' = at \/ at' \in {"die", "exited"})
  BY <1>1 DEF MakeInv, WhereIn
<1> QED BY <1>2, <1>4, <1>7, <1>8, StaysInv

LEMMA RecipeEndsInv ==
  ASSUME MakeInv, NEW f \in Files, NEW result, RecipeEnds(f, result)
  PROVE  MakeInv'
<1>1. /\ children' = [children EXCEPT ![f] = result] /\ f \in DOMAIN children
      /\ now' \in {now, now + 1}
      /\ \E writes \in BOOLEAN :
            disk' = [g \in Files |-> IF writes /\ g \in ({f} \cup Peers(f)) \ mf.phony
                                     THEN now' ELSE disk[g]]
      /\ UNCHANGED <<mf, job_slots, keep_going_flag, shuf, file, deps, considered, stack, ret, at,
                     goals, visited, goal_status, runs>>
  BY DEF RecipeEnds, fixed, goalVars
<1>2. now \in Nat /\ disk \in [Files -> Nat] /\ job_slots \in Nat /\ ChildrenFit(children)
  BY MakeAssumption DEF MakeInv, MakeTypes, WorldTypes, ChildrenFit
<1>3. now' \in Nat
  BY <1>1, <1>2
<1>4. disk' \in [Files -> Nat]
  BY <1>1, <1>2, <1>3
<1>5. ChildrenFit(children')
  BY <1>1, <1>2, OneLess
<1>6. MakeTypes' /\ WorldTypes'
  BY <1>1, <1>3, <1>4, <1>5 DEF MakeInv, MakeTypes, WorldTypes, ChildrenFit
<1>7. SameUpdating(file, file') /\ Advances(file, file', {}) /\ WhereIn(mf, shuf, stack, at')
  BY <1>1 DEF SameUpdating, Advances, MakeInv
<1> QED BY <1>1, <1>6, <1>7, StaysInv

----------------------------------------------------------------------------
(***************************************************************************)
(* The goals                                                               *)
(***************************************************************************)
LEMMA UpdateGoalInv == MakeInv /\ UpdateGoal => MakeInv'
<1> SUFFICES ASSUME MakeInv, UpdateGoal PROVE MakeInv'
  OBVIOUS
<1> DEFINE f == goals[visited + 1]
<1>1. /\ at = "scan" /\ visited < Len(goals) /\ update_file(f, file, << >>)
      /\ UNCHANGED <<mf, job_slots, keep_going_flag, shuf, deps, goals, visited, goal_status,
                     children, disk, now, runs>>
  BY DEF UpdateGoal, fixed, goalVars, world
<1>2. goals \in Seq(Files) /\ visited \in 0 .. Len(goals) /\ file \in [Files -> FileShape]
  BY DEF MakeInv, MakeTypes
<1>3. f \in Files
  BY <1>1, <1>2
<1>4. stack = << >>
  BY <1>1 DEF MakeInv, WhereIn
<1>5. \A g \in Files : ~file[g].updating
  BY <1>4 DEF MakeInv, UpdatingIn
<1>6. SameUpdating(file, file)
  BY DEF SameUpdating
<1>7. WellStacked(mf, shuf, deps, << >>)
  BY <1>4 DEF MakeInv
<1> HIDE DEF f
<1> QED BY <1>1, <1>2, <1>3, <1>5, <1>6, <1>7, UpdateFileInv

\* Between the passes nothing is on the stack.
LEMMA BetweenInv ==
  ASSUME MakeInv, stack = << >>, at' \in Where \ Calling, considered' \subseteq Files,
         goals' \in Seq(Files), visited' \in 0 .. Len(goals'), goal_status' \in Statuses,
         UNCHANGED <<mf, job_slots, keep_going_flag, shuf, file, deps, stack, ret,
                     children, disk, now, runs>>
  PROVE  MakeInv'
<1>1. MakeTypes' /\ WorldTypes'
  BY DEF MakeInv, MakeTypes, WorldTypes
<1>2. SameUpdating(file, file') /\ Advances(file, file', {})
  BY DEF SameUpdating, Advances
<1>3. WhereIn(mf, shuf, stack, at')
  BY DEF WhereIn, Calling
<1> QED BY <1>1, <1>2, <1>3, StaysInv

LEMMA PassInv == MakeInv /\ (BeginScan \/ GoalReturned \/ EndScan \/ die) => MakeInv'
<1> SUFFICES ASSUME MakeInv PROVE BeginScan \/ GoalReturned \/ EndScan \/ die => MakeInv'
  OBVIOUS
<1>1. /\ considered \subseteq Files /\ goals \in Seq(Files) /\ visited \in 0 .. Len(goals)
      /\ goal_status \in Statuses /\ Len(goals) \in Nat
  BY DEF MakeInv, MakeTypes
<1>2. CASE BeginScan
  <2>1. stack = << >>
    BY <1>2 DEF MakeInv, WhereIn, BeginScan
  <2> QED BY <1>1, <1>2, <2>1, BetweenInv DEF BeginScan, fixed, world, Where, Calling
<1>3. CASE GoalReturned
  <2>1. at = "returned" /\ visited < Len(goals) /\ stack = << >>
    BY <1>3 DEF MakeInv, MakeTypes, Calling, GoalReturned
  <2>2. visited + 1 \in DOMAIN goals
    BY <1>1, <2>1
  <2>3. RemoveAt(goals, visited + 1) \in Seq(Files)
        /\ Len(RemoveAt(goals, visited + 1)) = Len(goals) - 1
    BY <1>1, <2>2, RemovedFrom
  <2>4. goals' \in Seq(Files) /\ visited' \in 0 .. Len(goals')
    <3>1. CASE file[goals[visited + 1]].updated
      <4>1. goals' = RemoveAt(goals, visited + 1) /\ visited' = visited
        BY <1>3, <3>1 DEF GoalReturned
      <4> QED BY <1>1, <2>1, <2>3, <4>1
    <3>2. CASE ~file[goals[visited + 1]].updated
      <4>1. goals' = goals /\ visited' = visited + 1
        BY <1>3, <3>2 DEF GoalReturned
      <4> QED BY <1>1, <2>1, <4>1
    <3> QED BY <3>1, <3>2
  <2>5. /\ at' = "scan" /\ goal_status' \in Statuses
        /\ UNCHANGED <<mf, job_slots, keep_going_flag, shuf, file, deps, considered, stack, ret,
                       children, disk, now, runs>>
    BY <1>1, <1>3 DEF GoalReturned, fixed, world, Statuses
  <2>6. at' \in Where \ Calling
    BY <2>5 DEF Where, Calling
  <2> QED BY <1>1, <2>1, <2>4, <2>5, <2>6, BetweenInv
<1>4. CASE EndScan
  <2>1. stack = << >>
    BY <1>4 DEF MakeInv, WhereIn, EndScan
  <2>2. /\ considered' = {} /\ at' \in {"die", "pass"} /\ goals' = goals /\ visited' = visited
        /\ goal_status' = goal_status
        /\ UNCHANGED <<mf, job_slots, keep_going_flag, shuf, file, deps, stack, ret,
                       children, disk, now, runs>>
    BY <1>4 DEF EndScan, fixed, goalVars, world
  <2>3. at' \in Where \ Calling
    BY <2>2 DEF Where, Calling
  <2> QED BY <1>1, <2>1, <2>2, <2>3, BetweenInv
<1>5. CASE die
  <2>1. /\ at' = "exited"
        /\ UNCHANGED <<mf, job_slots, keep_going_flag, shuf, file, deps, considered, stack, ret,
                       goals, visited, goal_status, children, disk, now, runs>>
    BY <1>5 DEF die, fixed, goalVars, world
  <2>2. MakeTypes' /\ WorldTypes'
    BY <2>1 DEF MakeInv, MakeTypes, WorldTypes, Where, Calling
  <2>3. SameUpdating(file, file') /\ Advances(file, file', {}) /\ WhereIn(mf, shuf, stack, at')
    BY <2>1 DEF SameUpdating, Advances, WhereIn
  <2> QED BY <2>1, <2>2, <2>3, StaysInv
<1> QED BY <1>2, <1>3, <1>4, <1>5

----------------------------------------------------------------------------
(***************************************************************************)
(* The theorem                                                             *)
(***************************************************************************)
LEMMA MakeInit == Init /\ GroupsApart(mf) => MakeInv
<1> SUFFICES ASSUME Init, GroupsApart(mf) PROVE MakeInv
  OBVIOUS
<1>1. /\ mf \in Makefiles /\ job_slots \in JobSlots /\ keep_going_flag \in KeepGoing
      /\ file = [f \in Files |-> FreshFile(f \in mf.phony)]
      /\ deps = [f \in Files |-> Listed(f)] /\ considered = {} /\ stack = << >>
      /\ ret = "success" /\ at = "pass" /\ visited = 0 /\ goal_status = "none"
      /\ children = << >> /\ disk \in [Files -> OldTimes] /\ now \in OldTimes
      /\ runs = [f \in Files |-> 0]
  BY DEF Init
<1>2. PICK mode \in ShuffleModes :
         /\ goals \in shuffler(mode, mf.goals)
         /\ \E order \in [Files -> UNION {shuffle_deps_recursive(mode, f) : f \in Files}] :
               /\ \A f \in Files : order[f] \in shuffle_deps_recursive(mode, f)
               /\ shuf = order
  BY DEF Init
<1>3. DOMAIN shuf = Files /\ \A f \in Files : shuf[f] \in shuffle_deps_recursive(mode, f)
  BY <1>2
<1>4. OldTimes \subseteq Nat /\ mode \in {"none", "identity", "reverse", "random"}
      /\ job_slots \in Nat \ {0}
  BY <1>1, <1>2, MakeAssumption
<1>5. \A f \in Files : Listed(f) = ListedIn(mf, f) /\ ListedIn(mf, f) \in Seq(Pairs)
                       /\ ToSet(ListedIn(mf, f)) = Own(mf, f)
  BY <1>1, OwnNeeds DEF Listed, ListedIn, Own
<1>6. ASSUME NEW f \in Files
      PROVE  /\ shuf[f] \in Seq(Pairs) /\ DOMAIN shuf[f] = DOMAIN ListedIn(mf, f)
             /\ ToSet(shuf[f]) \subseteq Own(mf, f)
  <2>1. shuf[f] = ListedIn(mf, f) \/ shuf[f] \in shuffler(mode, ListedIn(mf, f))
    BY <1>3, <1>5 DEF shuffle_deps_recursive, shuffle_deps
  <2>2. CASE shuf[f] = ListedIn(mf, f)
    BY <1>5, <2>2
  <2>3. CASE shuf[f] \in shuffler(mode, ListedIn(mf, f))
    BY <1>4, <1>5, <2>3, ShufflerKeeps
  <2> QED BY <2>1, <2>2, <2>3
<1>7. ListsIn(mf, shuf, deps)
  <2>1. shuf \in [Files -> Seq(Pairs)]
    <3>1. shuf = [f \in Files |-> shuf[f]]
      BY <1>2
    <3> QED BY <1>6, <3>1
  <2>2. deps \in [Files -> Seq(Pairs)] /\ \A f \in Files : ToSet(deps[f]) = Own(mf, f)
    BY <1>1, <1>5
  <2> QED BY <1>6, <2>1, <2>2 DEF ListsIn
<1>8. DroppedIn(mf, shuf, deps)
  BY <1>1, <1>5 DEF DroppedIn
<1>9. WellStacked(mf, shuf, deps, stack) /\ WhereIn(mf, shuf, stack, at)
  <2>1. stack \in Seq(FrameShape) /\ DOMAIN stack = {}
    BY <1>1
  <2> QED BY <1>1, <2>1 DEF WellStacked, WhereIn
<1>10. file \in [Files -> FileShape] /\ \A f \in Files : ~file[f].updating
  <2>1. \A f \in Files : FreshFile(f \in mf.phony) \in FileShape /\ ~FreshFile(f \in mf.phony).updating
    BY DEF FreshFile, FileShape, States, Statuses, NONEXISTENT_MTIME
  <2> QED BY <1>1, <2>1
<1>11. UpdatingIn(file, stack, at)
  BY <1>1, <1>10 DEF UpdatingIn
<1>12. RunsIn(mf, file, runs, stack, at)
  <2>1. \A f \in Files : runs[f] = 0 /\ GroupIn(mf, f) \subseteq Files
    BY <1>1, ShapeOfMakefile
  <2>2. RunsOnceIn(mf, runs) /\ RunsBegun(mf, file, runs)
    BY <2>1 DEF RunsOnceIn, RunsBegun
  <2>3. DOMAIN stack = {}
    BY <1>1
  <2> QED BY <2>2, <2>3 DEF RunsIn
<1>13. MakeTypes
  <2>1. goals \in Seq(Files)
    BY <1>1, <1>2, <1>4, ShapeOfMakefile, ShufflerKeeps
  <2> QED BY <1>1, <1>10, <2>1 DEF MakeTypes, Where, Statuses, Calling
<1>14. WorldTypes
  <2>1. DOMAIN children = {} /\ Cardinality({}) = 0
    BY <1>1, FS_EmptySet
  <2>2. disk \in [Files -> Nat] /\ now \in Nat /\ runs \in [Files -> Nat]
    BY <1>1, <1>4
  <2> QED BY <1>4, <2>1, <2>2 DEF WorldTypes
<1> QED BY <1>7, <1>8, <1>9, <1>11, <1>12, <1>13, <1>14 DEF MakeInv

LEMMA MakeStays == MakeInv /\ [Next]_vars => MakeInv'
<1> SUFFICES ASSUME MakeInv, [Next]_vars PROVE MakeInv'
  OBVIOUS
<1>1. CASE WaitHere \/ DropCircular \/ NextList \/ check_dep \/ DepReturned
  BY <1>1, WaitHereInv, DropCircularInv, NextListInv, CheckDepInv, DepReturnedInv
<1>2. CASE DepsRunning \/ GiveUp \/ NoNeedToRemake \/ RemakeWithoutRecipe \/ remake_file
  BY <1>2, DepsRunningInv, GiveUpInv, NoNeedToRemakeInv, RemakeWithoutRecipeInv, RemakeFileInv
<1>3. CASE new_job \/ Started \/ reap_children
  BY <1>3, NewJobInv, StartedInv, ReapChildrenInv
<1>4. CASE BeginScan \/ UpdateGoal \/ GoalReturned \/ EndScan \/ die
  BY <1>4, UpdateGoalInv, PassInv
<1>5. ASSUME NEW f \in Files, NEW result \in {"won", "failed"}, RecipeEnds(f, result)
      PROVE  MakeInv'
  BY <1>5, RecipeEndsInv
<1>6. CASE UNCHANGED vars
  BY <1>6 DEF vars, MakeInv, MakeTypes, WorldTypes
<1> QED BY <1>1, <1>2, <1>3, <1>4, <1>5, <1>6 DEF Next, MakeStep

\* No more activations than files.
LEMMA StackFits == MakeInv => Len(stack) <= Cardinality(Files)
<1> SUFFICES ASSUME MakeInv PROVE Len(stack) <= Cardinality(Files)
  OBVIOUS
<1> DEFINE at_file == [i \in 1 .. Len(stack) |-> stack[i].file]
<1>1. stack \in Seq(FrameShape) /\ Len(stack) \in Nat /\ DOMAIN stack = 1 .. Len(stack)
  BY DEF MakeInv, WellStacked
<1>2. \A i \in 1 .. Len(stack) : stack[i].file \in Files
  <2>1. \A i \in 1 .. Len(stack) : stack[i] \in FrameShape
    BY <1>1
  <2> QED BY <2>1 DEF FrameShape
<1>3. at_file \in Injection(1 .. Len(stack), Files)
  <2>1. \A i, j \in 1 .. Len(stack) : stack[i].file = stack[j].file => i = j
    BY <1>1 DEF MakeInv, WellStacked
  <2>2. at_file \in [1 .. Len(stack) -> Files] /\ IsInjective(at_file)
    BY <1>2, <2>1 DEF IsInjective
  <2> QED BY <2>2, Zenon DEF Injection
<1>4. IsFiniteSet(1 .. Len(stack)) /\ Cardinality(1 .. Len(stack)) = Len(stack)
  BY <1>1, FS_Interval
<1>5. IsFiniteSet(Files)
  BY MakeAssumption
<1> HIDE DEF at_file
<1> QED BY <1>3, <1>4, <1>5, FS_Injection

LEMMA MakeInvImplies == MakeInv => MakeConsistent
<1> SUFFICES ASSUME MakeInv PROVE MakeConsistent
  OBVIOUS
<1>1. MakeTypeOK
  BY StackFits DEF MakeInv, MakeTypes, WorldTypes, MakeTypeOK, FileShape, ListsIn, Pairs
<1>2. DroppedInCircle
  <2>1. \A f \in Files : Listed(f) = ListedIn(mf, f) /\ ToSet(Listed(f)) = Own(mf, f)
    BY DEF Listed, ListedIn, Own
  <2>2. \A p : InCircle(p) <=> CircleIn(mf, p)
    BY DEF InCircle, CircleIn, Below
  <2> QED BY <2>1, <2>2 DEF MakeInv, DroppedIn, DroppedInCircle
<1>3. RecipeRunsOnce
  BY DEF MakeInv, RunsIn, RunsOnceIn, RecipeRunsOnce, Group
<1> QED BY <1>1, <1>2, <1>3 DEF MakeConsistent

\* THEOREM of update_file, remake_file and new_job: for any makefile, any number
\* of job slots, any order of the lists and any outcome of the recipes, a list
\* of prerequisites only loses what closes a circle, no file is made by two
\* activations, no more recipes run than there are job slots, and the recipe of
\* a group is started at most once.  The makefile's grouped targets need none
\* of each other.
THEOREM MakeStaysConsistent == GroupsApart(mf) /\ Spec => []MakeConsistent
<1>1. Init /\ GroupsApart(mf) => MakeInv
  BY MakeInit
<1>2. MakeInv /\ [Next]_vars => MakeInv'
  BY MakeStays
<1>3. MakeInv => MakeConsistent
  BY MakeInvImplies
<1> QED BY <1>1, <1>2, <1>3, PTL DEF Spec

----------------------------------------------------------------------------
(***************************************************************************)
(* When a recipe starts                                                    *)
(***************************************************************************)
\* What has been made.
DoneIn(fs, f) == fs[f].command_state = "finished" /\ fs[f].update_status = "success"
RealIn(m, f, d) == BelowIn(m, d) \cap GroupIn(m, f) = {}
MadeFirst(m, fs, f) == \A d \in NeedsIn(m, f) : RealIn(m, f, d) => DoneIn(fs, d)

\* The targets of a group have one recipe, and no list names a file twice.
GroupsAlike(m) == \A f \in Files : \A g \in PeersIn(m, f) : g \in m.cmds <=> f \in m.cmds
ListedOnce(m) == \A f \in Files : IsInjective(m.deps[f])

\* A file is made when it has an outcome.
OutcomesIn(fs) ==
    \A f \in Files : /\ fs[f].command_state = "finished" <=> fs[f].update_status # "none"
                     /\ fs[f].updated <=> fs[f].command_state = "finished"

\* No file that a running recipe makes counts as made before it ends.
ChildrenIn(m, fs, rs, cs) ==
    \A c \in cs :
        /\ rs[c] > 0 /\ fs[c].command_state = "running"
        /\ MadeFirst(m, fs, c)
        /\ \A g \in GroupIn(m, c) : /\ fs[g].command_state \in Begun
                                    /\ ~DoneIn(fs, g)

\* What was considered on this pass is under way.
ConsideredIn(fs, cons, s) ==
    \A f \in cons : fs[f].command_state = "not_started" => \E i \in DOMAIN s : s[i].file = f

FreshIn(fs, s, a) ==
    /\ a \notin {"die", "exited"} =>
          \A i \in DOMAIN s : \/ fs[s[i].file].command_state \notin Begun
                              \/ i = 1 /\ a \in {"started", "linear"}
    /\ a \in {"started", "linear"} => fs[s[1].file].command_state \in Begun

\* What update_file answers is what became of the file.
TruthfulIn(fs, d, r) ==
    \/ fs[d].command_state \in {"deps_running", "running"}
    \/ DoneIn(fs, d)
    \/ fs[d].command_state = "finished" /\ r = "failed"
AnsweredIn(m, sh, fs, s, a, r) ==
    a = "returned" /\ s # << >> => TruthfulIn(fs, CalledIn(m, sh, s[1]), r)

\* What is not on the list any more is what would close a circle.
CircularIn(m, sh, dps) ==
    \A f \in Files : \A q \in Own(m, f) \ ToSet(dps[f]) : CircleIn(m, VisitIn(m, sh, q))
\* The walk of a whole list visits all of it.
OntoIn(m, sh) == \A f \in Files : \A p \in Own(m, f) : \E q \in Own(m, f) : VisitIn(m, sh, q) = p

\* The group of f is as new as all that it is made from.
KnownMtime(fs, f) == fs[f].last_mtime # UNKNOWN_MTIME /\ fs[f].last_mtime # NONEXISTENT_MTIME
Quiet(m, fs, f) ==
    \A h \in GroupIn(m, f) :
        /\ KnownMtime(fs, h)
        /\ \A p \in Own(m, h) :
              p \notin m.order_only =>
                 /\ DoneIn(fs, p[2]) /\ KnownMtime(fs, p[2])
                 /\ \A k \in GroupIn(m, f) : fs[p[2]].last_mtime <= fs[k].last_mtime
\* A grouped target that is made without its recipe needs none.
QuietIn(m, fs) ==
    \A g \in Files : PeersIn(m, g) # {} /\ DoneIn(fs, g) /\ g \in m.cmds =>
        (\A h \in GroupIn(m, g) : fs[h].command_state \in Begun) \/ Quiet(m, fs, g)

\* What an activation knows of the times of its group.
StampsIn(m, fs, fr) ==
    /\ \A h \in GroupIn(m, fr.file) :
          /\ fs[h].last_mtime # UNKNOWN_MTIME /\ fr.this_mtime <= fs[h].last_mtime
          /\ ~fr.must_make => fs[h].last_mtime # NONEXISTENT_MTIME
    /\ \E h \in GroupIn(m, fr.file) : fr.this_mtime = fs[h].last_mtime

\* An activation that waits for nothing and saw no failure has seen each
\* prerequisite made, or has still to look at it.
Ahead(m, sh, fr, p) == (\E q \in ToSet(fr.todo) : VisitIn(m, sh, q) = p) \/ p[1] \in ToSet(fr.lists)
Seen1(m, fs, fr, p) ==
    /\ DoneIn(fs, p[2])
    /\ p \notin m.order_only /\ ~fr.must_make =>
          KnownMtime(fs, p[2]) /\ fs[p[2]].last_mtime <= fr.this_mtime
WalkedIn(m, sh, fs, fr) ==
    ~fr.running /\ fr.dep_status = "success" =>
        \A h \in GroupIn(m, fr.file) : \A p \in Own(m, h) :
            RealIn(m, fr.file, p[2]) => Ahead(m, sh, fr, p) \/ Seen1(m, fs, fr, p)

\* No reason to make a group is found where one of it was made without.
NoReason(m, fs, fr) ==
    fr.file \in m.cmds /\ (\E g \in GroupIn(m, fr.file) : DoneIn(fs, g)) => ~fr.must_make

FrameWell(m, sh, fs, fr) == StampsIn(m, fs, fr) /\ WalkedIn(m, sh, fs, fr) /\ NoReason(m, fs, fr)
FramesIn(m, sh, fs, s, a) ==
    a \notin {"die", "exited"} =>
        \A i \in DOMAIN s : FrameWell(m, sh, fs, s[i]) \/ (i = 1 /\ a \in {"new_job", "started", "linear"})

\* A recipe that is about to start.
StartingIn(m, fs, s, a) ==
    a = "new_job" => MadeFirst(m, fs, s[1].file) /\ \A g \in GroupIn(m, s[1].file) : ~DoneIn(fs, g)

TurnInv ==
    /\ GroupsAlike(mf) /\ ListedOnce(mf)
    /\ OutcomesIn(file) /\ ChildrenIn(mf, file, runs, DOMAIN children)
    /\ ConsideredIn(file, considered, stack) /\ FreshIn(file, stack, at)
    /\ AnsweredIn(mf, shuf, file, stack, at, ret)
    /\ OntoIn(mf, shuf) /\ CircularIn(mf, shuf, deps)
    /\ QuietIn(mf, file) /\ FramesIn(mf, shuf, file, stack, at) /\ StartingIn(mf, file, stack, at)

----------------------------------------------------------------------------
(***************************************************************************)
(* What is made stays made                                                 *)
(***************************************************************************)
\* The states and outcomes are those of before, and known times are kept.
Same(fs, gs) ==
    \A g \in Files : /\ gs[g].command_state = fs[g].command_state
                     /\ gs[g].update_status = fs[g].update_status
                     /\ gs[g].updated = fs[g].updated
                     /\ fs[g].last_mtime # UNKNOWN_MTIME => gs[g].last_mtime = fs[g].last_mtime

\* What was made is, and its time is known as before.
Steady(fs, gs) ==
    \A d \in Files : DoneIn(fs, d) =>
        DoneIn(gs, d) /\ (fs[d].last_mtime # UNKNOWN_MTIME => gs[d].last_mtime = fs[d].last_mtime)

OnlyIn(G, fs, gs) == \A g \in Files : g \notin G => gs[g] = fs[g]

LEMMA SameIsSteady ==
  ASSUME NEW fs, NEW gs, Same(fs, gs)
  PROVE  Steady(fs, gs) /\ \A d \in Files : DoneIn(gs, d) <=> DoneIn(fs, d)
BY DEF Same, Steady, DoneIn

LEMMA MadeFirstKept ==
  ASSUME NEW m \in Makefiles, NEW fs, NEW gs, Steady(fs, gs), NEW f \in Files, MadeFirst(m, fs, f)
  PROVE  MadeFirst(m, gs, f)
<1>1. NeedsIn(m, f) \subseteq Files
  BY ShapeOfMakefile
<1> QED BY <1>1 DEF MadeFirst, Steady

LEMMA FrameKept ==
  ASSUME NEW m \in Makefiles, NEW sh, NEW fs, NEW gs, Steady(fs, gs), NEW fr \in FrameShape,
         FrameWell(m, sh, fs, fr),
         \A h \in GroupIn(m, fr.file) :
            /\ fs[h].last_mtime # UNKNOWN_MTIME => gs[h].last_mtime = fs[h].last_mtime
            /\ DoneIn(gs, h) => DoneIn(fs, h)
  PROVE  FrameWell(m, sh, gs, fr)
<1>1. fr.file \in Files
  BY DEF FrameShape
<1>2. GroupIn(m, fr.file) \subseteq Files
  BY <1>1, ShapeOfMakefile
<1>3. \A h \in GroupIn(m, fr.file) : gs[h].last_mtime = fs[h].last_mtime
  BY DEF FrameWell, StampsIn
<1>4. StampsIn(m, gs, fr)
  <2>1. StampsIn(m, fs, fr)
    BY DEF FrameWell
  <2>2. \A h \in GroupIn(m, fr.file) :
           /\ gs[h].last_mtime # UNKNOWN_MTIME /\ fr.this_mtime <= gs[h].last_mtime
           /\ ~fr.must_make => gs[h].last_mtime # NONEXISTENT_MTIME
    BY <1>3, <2>1 DEF StampsIn
  <2>3. \E h \in GroupIn(m, fr.file) : fr.this_mtime = gs[h].last_mtime
    <3>1. PICK h \in GroupIn(m, fr.file) : fr.this_mtime = fs[h].last_mtime
      BY <2>1 DEF StampsIn
    <3> QED BY <1>3, <3>1
  <2> QED BY <2>2, <2>3 DEF StampsIn
<1>5. WalkedIn(m, sh, gs, fr)
  <2> SUFFICES ASSUME ~fr.running, fr.dep_status = "success",
                      NEW h \in GroupIn(m, fr.file), NEW p \in Own(m, h), RealIn(m, fr.file, p[2])
               PROVE  Ahead(m, sh, fr, p) \/ Seen1(m, gs, fr, p)
    BY DEF WalkedIn
  <2>1. p[2] \in Files
    BY <1>2, OwnNeeds
  <2>2. Ahead(m, sh, fr, p) \/ Seen1(m, fs, fr, p)
    BY DEF FrameWell, WalkedIn
  <2>3. ASSUME Seen1(m, fs, fr, p) PROVE Seen1(m, gs, fr, p)
    <3>1. DoneIn(gs, p[2]) /\ (fs[p[2]].last_mtime # UNKNOWN_MTIME => gs[p[2]].last_mtime = fs[p[2]].last_mtime)
      BY <2>1, <2>3 DEF Seen1, Steady
    <3> QED BY <2>3, <3>1 DEF Seen1, KnownMtime
  <2> QED BY <2>2, <2>3
<1>6. NoReason(m, gs, fr)
  BY DEF FrameWell, NoReason
<1> QED BY <1>4, <1>5, <1>6 DEF FrameWell

LEMMA QuietKept ==
  ASSUME NEW m \in Makefiles, NEW fs, NEW gs, Steady(fs, gs), NEW f \in Files, Quiet(m, fs, f),
         \A h \in GroupIn(m, f) :
            fs[h].last_mtime # UNKNOWN_MTIME => gs[h].last_mtime = fs[h].last_mtime
  PROVE  Quiet(m, gs, f)
<1>1. GroupIn(m, f) \subseteq Files
  BY ShapeOfMakefile
<1>2. \A h \in GroupIn(m, f) : KnownMtime(gs, h) /\ gs[h].last_mtime = fs[h].last_mtime
  BY DEF Quiet, KnownMtime
<1>3. ASSUME NEW h \in GroupIn(m, f), NEW p \in Own(m, h), p \notin m.order_only
      PROVE  /\ DoneIn(gs, p[2]) /\ KnownMtime(gs, p[2])
             /\ \A k \in GroupIn(m, f) : gs[p[2]].last_mtime <= gs[k].last_mtime
  <2>1. p[2] \in Files
    BY <1>1, OwnNeeds
  <2>2. /\ DoneIn(fs, p[2]) /\ KnownMtime(fs, p[2])
        /\ \A k \in GroupIn(m, f) : fs[p[2]].last_mtime <= fs[k].last_mtime
    BY <1>3 DEF Quiet
  <2>3. DoneIn(gs, p[2]) /\ gs[p[2]].last_mtime = fs[p[2]].last_mtime
    BY <2>1, <2>2 DEF Steady, KnownMtime
  <2> QED BY <1>2, <2>2, <2>3 DEF KnownMtime
<1> QED BY <1>2, <1>3 DEF Quiet

\* Groups are the same or apart.
LEMMA GroupsDisjoint ==
  ASSUME NEW m \in Makefiles, GroupsApart(m), NEW f \in Files, NEW x \in Files, x \notin GroupIn(m, f)
  PROVE  /\ f \notin GroupIn(m, x) /\ \A h \in GroupIn(m, f) : h \in Files /\ h \notin GroupIn(m, x)
<1>1. ASSUME NEW h \in GroupIn(m, f) PROVE h \in Files /\ h \notin GroupIn(m, x)
  <2>1. h \in Files /\ GroupIn(m, h) = GroupIn(m, f)
    BY SameGroup
  <2>2. ASSUME h \in GroupIn(m, x) PROVE FALSE
    <3>1. x \in GroupIn(m, h)
      BY <2>2, SameGroup
    <3> QED BY <2>1, <3>1
  <2> QED BY <2>1, <2>2
<1>2. f \in GroupIn(m, f)
  BY ShapeOfMakefile
<1> QED BY <1>1, <1>2

\* Only the group of x changes: the rest stays as quiet as it was.
LEMMA QuietMoved ==
  ASSUME NEW m \in Makefiles, GroupsApart(m), NEW x \in Files, NEW fs, NEW gs,
         OnlyIn(GroupIn(m, x), fs, gs), Steady(fs, gs), QuietIn(m, fs),
         \/ \A h \in GroupIn(m, x) : gs[h].command_state \in Begun
         \/ \A h \in GroupIn(m, x) :
               /\ fs[h].last_mtime # UNKNOWN_MTIME => gs[h].last_mtime = fs[h].last_mtime
               /\ fs[h].command_state \in Begun => gs[h].command_state \in Begun
               /\ DoneIn(gs, h) => \/ DoneIn(fs, h)
                                   \/ h = x /\ (PeersIn(m, x) = {} \/ x \notin m.cmds \/ Quiet(m, gs, x))
  PROVE  QuietIn(m, gs)
<1> SUFFICES ASSUME NEW g \in Files, PeersIn(m, g) # {}, DoneIn(gs, g), g \in m.cmds
             PROVE  (\A h \in GroupIn(m, g) : gs[h].command_state \in Begun) \/ Quiet(m, gs, g)
  BY DEF QuietIn
<1>1. CASE g \in GroupIn(m, x)
  <2>1. GroupIn(m, g) = GroupIn(m, x)
    BY <1>1, SameGroup
  <2>2. CASE \A h \in GroupIn(m, x) : gs[h].command_state \in Begun
    BY <2>1, <2>2
  <2>3. CASE \A h \in GroupIn(m, x) :
               /\ fs[h].last_mtime # UNKNOWN_MTIME => gs[h].last_mtime = fs[h].last_mtime
               /\ fs[h].command_state \in Begun => gs[h].command_state \in Begun
               /\ DoneIn(gs, h) => \/ DoneIn(fs, h)
                                   \/ h = x /\ (PeersIn(m, x) = {} \/ x \notin m.cmds \/ Quiet(m, gs, x))
    <3>1. CASE DoneIn(fs, g)
      <4>1. (\A h \in GroupIn(m, g) : fs[h].command_state \in Begun) \/ Quiet(m, fs, g)
        BY <3>1 DEF QuietIn
      <4>2. CASE \A h \in GroupIn(m, g) : fs[h].command_state \in Begun
        BY <2>1, <2>3, <4>2
      <4>3. CASE Quiet(m, fs, g)
        BY <2>1, <2>3, <4>3, QuietKept
      <4> QED BY <4>1, <4>2, <4>3
    <3>2. CASE ~DoneIn(fs, g)
      <4>1. g = x /\ Quiet(m, gs, x)
        BY <1>1, <2>3, <3>2
      <4> QED BY <4>1
    <3> QED BY <3>1, <3>2
  <2> QED BY <2>2, <2>3
<1>2. CASE g \notin GroupIn(m, x)
  <2>1. \A h \in GroupIn(m, g) : h \in Files /\ h \notin GroupIn(m, x)
    <3>1. x \notin GroupIn(m, g)
      <4>1. ASSUME x \in GroupIn(m, g) PROVE FALSE
        <5>1. g \in GroupIn(m, x)
          BY <4>1, SameGroup
        <5> QED BY <1>2, <5>1
      <4> QED BY <4>1
    <3> QED BY <3>1, GroupsDisjoint
  <2>2. \A h \in GroupIn(m, g) : gs[h] = fs[h]
    BY <2>1 DEF OnlyIn
  <2>3. g \in GroupIn(m, g)
    BY ShapeOfMakefile
  <2>4. DoneIn(fs, g)
    BY <2>2, <2>3 DEF DoneIn
  <2>5. (\A h \in GroupIn(m, g) : fs[h].command_state \in Begun) \/ Quiet(m, fs, g)
    BY <2>4 DEF QuietIn
  <2>6. CASE \A h \in GroupIn(m, g) : fs[h].command_state \in Begun
    BY <2>2, <2>6
  <2>7. CASE Quiet(m, fs, g)
    BY <2>2, <2>7, QuietKept
  <2> QED BY <2>5, <2>6, <2>7
<1> QED BY <1>1, <1>2

LEMMA FrameMoved ==
  ASSUME NEW m \in Makefiles, GroupsApart(m), NEW x \in Files, NEW sh, NEW fs, NEW gs,
         OnlyIn(GroupIn(m, x), fs, gs), Steady(fs, gs),
         NEW fr \in FrameShape, x \notin GroupIn(m, fr.file), FrameWell(m, sh, fs, fr)
  PROVE  FrameWell(m, sh, gs, fr) /\ gs[fr.file] = fs[fr.file]
<1>1. fr.file \in Files
  BY DEF FrameShape
<1>2. /\ fr.file \notin GroupIn(m, x)
      /\ \A h \in GroupIn(m, fr.file) : h \in Files /\ h \notin GroupIn(m, x)
  BY <1>1, GroupsDisjoint
<1>3. \A h \in GroupIn(m, fr.file) : gs[h] = fs[h]
  BY <1>2 DEF OnlyIn
<1>4. \A h \in GroupIn(m, fr.file) : DoneIn(gs, h) => DoneIn(fs, h)
  BY <1>3 DEF DoneIn
<1>5. gs[fr.file] = fs[fr.file]
  BY <1>1, <1>2 DEF OnlyIn
<1>6. FrameWell(m, sh, gs, fr)
  BY <1>3, <1>4, FrameKept
<1> QED BY <1>5, <1>6

\* A child whose group is not that of x is as it was.
LEMMA ChildMoved ==
  ASSUME NEW m \in Makefiles, GroupsApart(m), NEW x \in Files, NEW fs, NEW gs, NEW rs, NEW cs,
         OnlyIn(GroupIn(m, x), fs, gs), Steady(fs, gs), ChildrenIn(m, fs, rs, cs),
         NEW ds, ds \subseteq cs, ds \subseteq Files, \A c \in ds : c \notin GroupIn(m, x)
  PROVE  ChildrenIn(m, gs, rs, ds)
<1> SUFFICES ASSUME NEW c \in ds
             PROVE  /\ rs[c] > 0 /\ gs[c].command_state = "running" /\ MadeFirst(m, gs, c)
                    /\ \A g \in GroupIn(m, c) : gs[g].command_state \in Begun /\ ~DoneIn(gs, g)
  BY DEF ChildrenIn
<1>1. c \in cs /\ c \in Files /\ c \notin GroupIn(m, x)
  OBVIOUS
<1>2. /\ rs[c] > 0 /\ fs[c].command_state = "running" /\ MadeFirst(m, fs, c)
      /\ \A g \in GroupIn(m, c) : fs[g].command_state \in Begun /\ ~DoneIn(fs, g)
  BY <1>1 DEF ChildrenIn
<1>3. x \notin GroupIn(m, c)
  <2>1. ASSUME x \in GroupIn(m, c) PROVE FALSE
    <3>1. c \in GroupIn(m, x)
      BY <1>1, <2>1, SameGroup
    <3> QED BY <1>1, <3>1
  <2> QED BY <2>1
<1>4. \A g \in GroupIn(m, c) : gs[g] = fs[g]
  <2>1. \A g \in GroupIn(m, c) : g \in Files /\ g \notin GroupIn(m, x)
    BY <1>1, <1>3, GroupsDisjoint
  <2> QED BY <2>1 DEF OnlyIn
<1>5. c \in GroupIn(m, c)
  BY <1>1, ShapeOfMakefile
<1>6. MadeFirst(m, gs, c)
  BY <1>1, <1>2, MadeFirstKept
<1> QED BY <1>2, <1>4, <1>5, <1>6 DEF DoneIn

----------------------------------------------------------------------------
(***************************************************************************)
(* Steps that make nothing                                                 *)
(***************************************************************************)
LEMMA SameOutcomes ==
  ASSUME NEW fs, NEW gs, Same(fs, gs), OutcomesIn(fs)
  PROVE  OutcomesIn(gs)
BY DEF Same, OutcomesIn

LEMMA SameChildren ==
  ASSUME NEW m \in Makefiles, NEW fs, NEW gs, Same(fs, gs), NEW rs, NEW cs, cs \subseteq Files,
         ChildrenIn(m, fs, rs, cs)
  PROVE  ChildrenIn(m, gs, rs, cs)
<1> SUFFICES ASSUME NEW c \in cs
             PROVE  /\ rs[c] > 0 /\ gs[c].command_state = "running" /\ MadeFirst(m, gs, c)
                    /\ \A g \in GroupIn(m, c) : gs[g].command_state \in Begun /\ ~DoneIn(gs, g)
  BY DEF ChildrenIn
<1>1. /\ rs[c] > 0 /\ fs[c].command_state = "running" /\ MadeFirst(m, fs, c)
      /\ \A g \in GroupIn(m, c) : fs[g].command_state \in Begun /\ ~DoneIn(fs, g)
  BY DEF ChildrenIn
<1>2. GroupIn(m, c) \subseteq Files
  BY ShapeOfMakefile
<1>3. \A g \in Files : gs[g].command_state = fs[g].command_state /\ (DoneIn(gs, g) <=> DoneIn(fs, g))
  BY SameIsSteady DEF Same
<1>4. MadeFirst(m, gs, c)
  BY <1>1, SameIsSteady, MadeFirstKept
<1> QED BY <1>1, <1>2, <1>3, <1>4

LEMMA SameQuiet ==
  ASSUME NEW m \in Makefiles, NEW fs, NEW gs, Same(fs, gs), QuietIn(m, fs)
  PROVE  QuietIn(m, gs)
<1> SUFFICES ASSUME NEW g \in Files, PeersIn(m, g) # {}, DoneIn(gs, g), g \in m.cmds
             PROVE  (\A h \in GroupIn(m, g) : gs[h].command_state \in Begun) \/ Quiet(m, gs, g)
  BY DEF QuietIn
<1>1. GroupIn(m, g) \subseteq Files
  BY ShapeOfMakefile
<1>2. (\A h \in GroupIn(m, g) : fs[h].command_state \in Begun) \/ Quiet(m, fs, g)
  BY SameIsSteady DEF QuietIn
<1>3. CASE \A h \in GroupIn(m, g) : fs[h].command_state \in Begun
  BY <1>1, <1>3 DEF Same
<1>4. CASE Quiet(m, fs, g)
  <2>1. Steady(fs, gs)
    BY SameIsSteady
  <2>2. \A h \in GroupIn(m, g) : fs[h].last_mtime # UNKNOWN_MTIME => gs[h].last_mtime = fs[h].last_mtime
    BY <1>1 DEF Same
  <2> QED BY <1>4, <2>1, <2>2, QuietKept
<1> QED BY <1>2, <1>3, <1>4

LEMMA SameFrame ==
  ASSUME NEW m \in Makefiles, NEW sh, NEW fs, NEW gs, Same(fs, gs), NEW fr \in FrameShape,
         FrameWell(m, sh, fs, fr)
  PROVE  FrameWell(m, sh, gs, fr)
<1>1. GroupIn(m, fr.file) \subseteq Files
  BY ShapeOfMakefile DEF FrameShape
<1>2. Steady(fs, gs) /\ \A d \in Files : DoneIn(gs, d) <=> DoneIn(fs, d)
  BY SameIsSteady
<1>3. \A h \in GroupIn(m, fr.file) :
         /\ fs[h].last_mtime # UNKNOWN_MTIME => gs[h].last_mtime = fs[h].last_mtime
         /\ DoneIn(gs, h) => DoneIn(fs, h)
  BY <1>1, <1>2 DEF Same
<1> QED BY <1>2, <1>3, FrameKept

\* A group one of which was made though another has not begun is quiet.
LEMMA QuietGroup ==
  ASSUME NEW m \in Makefiles, GroupsApart(m), GroupsAlike(m), NEW fs, QuietIn(m, fs),
         NEW f \in Files, f \in m.cmds, fs[f].command_state \notin Begun,
         NEW g \in GroupIn(m, f), DoneIn(fs, g)
  PROVE  Quiet(m, fs, f) /\ PeersIn(m, f) # {}
<1>1. g # f
  BY DEF DoneIn, Begun
<1>2. g \in Files /\ GroupIn(m, g) = GroupIn(m, f) /\ f \in GroupIn(m, g)
  BY SameGroup
<1>3. g \in PeersIn(m, f) /\ f \in PeersIn(m, g)
  BY <1>1, <1>2 DEF GroupIn
<1>4. g \in m.cmds
  BY <1>3 DEF GroupsAlike
<1>5. Quiet(m, fs, g)
  BY <1>2, <1>3, <1>4 DEF QuietIn
<1>6. Quiet(m, fs, f)
  BY <1>2, <1>5 DEF Quiet
<1> QED BY <1>3, <1>6

\* A whole list leads to each of its prerequisites that closes no circle.
LEMMA Reached ==
  ASSUME NEW m \in Makefiles, NEW sh, NEW dps, OntoIn(m, sh), CircularIn(m, sh, dps),
         NEW f \in Files, NEW h \in GroupIn(m, f), NEW p \in Own(m, h), RealIn(m, f, p[2])
  PROVE  \E q \in ToSet(dps[h]) : VisitIn(m, sh, q) = p
<1>1. h \in Files
  BY ShapeOfMakefile
<1>2. p[1] = h
  BY <1>1, OwnNeeds
<1>3. PICK q \in Own(m, h) : VisitIn(m, sh, q) = p
  BY <1>1 DEF OntoIn
<1>4. ASSUME q \notin ToSet(dps[h]) PROVE FALSE
  <2>1. CircleIn(m, p)
    BY <1>1, <1>3, <1>4 DEF CircularIn
  <2> QED BY <1>2, <2>1 DEF CircleIn, RealIn
<1> QED BY <1>3, <1>4

LEMMA SameTurn ==
  ASSUME MakeInv, TurnInv, Same(file, file'), mf' = mf, shuf' = shuf, runs' = runs,
         DOMAIN children' = DOMAIN children, CircularIn(mf, shuf, deps'),
         ConsideredIn(file', considered', stack'), FreshIn(file', stack', at'),
         AnsweredIn(mf, shuf, file', stack', at', ret'),
         FramesIn(mf, shuf, file', stack', at'), StartingIn(mf, file', stack', at')
  PROVE  TurnInv'
<1>1. mf \in Makefiles /\ DOMAIN children \subseteq Files
  BY DEF MakeInv, MakeTypes, WorldTypes
<1>2. OutcomesIn(file')
  BY SameOutcomes DEF TurnInv
<1>3. ChildrenIn(mf, file', runs, DOMAIN children)
  BY <1>1, SameChildren DEF TurnInv
<1>4. QuietIn(mf, file')
  BY <1>1, SameQuiet DEF TurnInv
<1> QED BY <1>2, <1>3, <1>4 DEF TurnInv

\* Who is on the stack has not begun, while make walks it.
LEMMA NotBegun ==
  ASSUME TurnInv, at \in {"deps", "returned", "new_job"}, NEW i \in DOMAIN stack
  PROVE  file[stack[i].file].command_state \notin Begun /\ ~DoneIn(file, stack[i].file)
BY DEF TurnInv, FreshIn, DoneIn, Begun

LEMMA FrameOfStack ==
  ASSUME TurnInv, at \in {"deps", "returned"}, NEW i \in DOMAIN stack
  PROVE  FrameWell(mf, shuf, file, stack[i])
BY DEF TurnInv, FramesIn

\* The innermost activation goes on.
LEMMA WalkTurn ==
  ASSUME MakeInv, TurnInv, at \in {"deps", "returned"}, stack # << >>,
         NEW fr \in FrameShape, fr.file = Top.file, Same(file, file'),
         CircularIn(mf, shuf, deps'), FrameWell(mf, shuf, file', fr),
         stack' = <<fr>> \o Tail(stack), at' = "deps",
         UNCHANGED <<mf, shuf, considered, runs, children>>
  PROVE  TurnInv'
<1>1. /\ stack \in Seq(FrameShape) /\ Top = stack[1] /\ 1 \in DOMAIN stack /\ mf \in Makefiles
  BY TopFacts DEF MakeInv, MakeTypes
<1>2. /\ DOMAIN stack' = DOMAIN stack /\ stack'[1] = fr
      /\ \A i \in DOMAIN stack : i # 1 => stack'[i] = stack[i]
  BY <1>1, Replaced
<1>3. \A i \in DOMAIN stack : stack'[i].file = stack[i].file /\ stack[i] \in FrameShape
  <2>1. \A i \in DOMAIN stack : stack[i] \in FrameShape
    BY <1>1
  <2> QED BY <1>1, <1>2, <2>1
<1>4. \A i \in DOMAIN stack : stack[i].file \in Files
  BY <1>3 DEF FrameShape
<1>5. ConsideredIn(file', considered', stack')
  <2>1. ConsideredIn(file, considered, stack) /\ considered \subseteq Files
    BY DEF TurnInv, MakeInv, MakeTypes
  <2>2. considered' = considered
    OBVIOUS
  <2> SUFFICES ASSUME NEW f \in considered, file'[f].command_state = "not_started"
               PROVE  \E i \in DOMAIN stack' : stack'[i].file = f
    BY <2>2 DEF ConsideredIn
  <2>3. file[f].command_state = "not_started"
    BY <2>1 DEF Same
  <2>4. PICK i \in DOMAIN stack : stack[i].file = f
    BY <2>1, <2>3 DEF ConsideredIn
  <2> QED BY <2>4, <1>2, <1>3
<1>6. FreshIn(file', stack', at')
  <2>1. \A i \in DOMAIN stack : file[stack[i].file].command_state \notin Begun
    BY NotBegun
  <2> QED BY <2>1, <1>2, <1>3, <1>4 DEF FreshIn, Same
<1>7. FramesIn(mf, shuf, file', stack', at')
  <2>1. \A i \in DOMAIN stack : i # 1 => FrameWell(mf, shuf, file', stack[i])
    BY <1>1, <1>3, FrameOfStack, SameFrame
  <2> QED BY <2>1, <1>2 DEF FramesIn
<1>8. AnsweredIn(mf, shuf, file', stack', at', ret') /\ StartingIn(mf, file', stack', at')
  BY DEF AnsweredIn, StartingIn
<1> QED BY <1>5, <1>6, <1>7, <1>8, SameTurn

LEMMA StatSame ==
  ASSUME disk \in [Files -> Nat], NEW fs \in [Files -> FileShape], NEW f \in Files
  PROVE  /\ Same(fs, Stat(fs, f)) /\ Stat(fs, f)[f].last_mtime = MtimeIn(fs, f)
         /\ MtimeIn(fs, f) # UNKNOWN_MTIME
         /\ fs[f].last_mtime # UNKNOWN_MTIME => MtimeIn(fs, f) = fs[f].last_mtime
<1>1. ASSUME NEW g \in Files
      PROVE  /\ Stat(fs, f)[g].command_state = fs[g].command_state
             /\ Stat(fs, f)[g].update_status = fs[g].update_status
             /\ Stat(fs, f)[g].updated = fs[g].updated
             /\ Stat(fs, f)[g].last_mtime = IF g = f THEN MtimeIn(fs, f) ELSE fs[g].last_mtime
  <2>1. fs[g] \in FileShape
    OBVIOUS
  <2>2. CASE g = f
    <3>1. Stat(fs, f)[g] = [fs[g] EXCEPT !.last_mtime = MtimeIn(fs, f)]
      BY <2>2 DEF Stat
    <3> HIDE DEF MtimeIn
    <3> QED BY <2>1, <2>2, <3>1 DEF FileShape
  <2>3. CASE g # f
    BY <2>3 DEF Stat
  <2> QED BY <2>2, <2>3
<1>2. MtimeIn(fs, f) \in Nat
  BY Times
<1>3. fs[f].last_mtime # UNKNOWN_MTIME => MtimeIn(fs, f) = fs[f].last_mtime
  BY DEF MtimeIn
<1> QED BY <1>1, <1>2, <1>3 DEF Same, UNKNOWN_MTIME

LEMMA NextDepVisited == NextDep = VisitIn(mf, shuf, Head(Top.todo))
BY DEF NextDep, Shuffled, VisitIn, Listed, ListedIn

LEMMA WaitHereTurn == MakeInv /\ TurnInv /\ WaitHere => TurnInv'
<1> SUFFICES ASSUME MakeInv, TurnInv, WaitHere PROVE TurnInv'
  OBVIOUS
<1> DEFINE fr == [Top EXCEPT !.todo = << >>]
<1>1. at = "deps" /\ stack # << >> /\ Top.running
  BY DEF MakeInv, WhereIn, WaitHere, AtDep, Blocked
<1>2. Top = stack[1] /\ 1 \in DOMAIN stack /\ Top \in FrameShape
  BY <1>1, TopFacts
<1>3. /\ fr \in FrameShape /\ fr.file = Top.file /\ fr.running = Top.running
      /\ fr.this_mtime = Top.this_mtime /\ fr.must_make = Top.must_make
  BY <1>2, EmptySeq DEF FrameShape
<1>4. /\ stack' = <<fr>> \o Tail(stack) /\ at' = at /\ file' = file /\ deps' = deps
      /\ UNCHANGED <<mf, shuf, considered, runs, children>>
  BY DEF WaitHere, fixed, goalVars, world
<1> HIDE DEF fr
<1>5. FrameWell(mf, shuf, file, Top)
  BY <1>1, <1>2, FrameOfStack
<1>6. FrameWell(mf, shuf, file', fr)
  BY <1>1, <1>3, <1>4, <1>5 DEF FrameWell, StampsIn, WalkedIn, NoReason
<1>7. Same(file, file') /\ CircularIn(mf, shuf, deps')
  BY <1>4 DEF Same, TurnInv
<1> QED BY <1>1, <1>3, <1>4, <1>6, <1>7, WalkTurn

LEMMA NextListTurn == MakeInv /\ TurnInv /\ NextList => TurnInv'
<1> SUFFICES ASSUME MakeInv, TurnInv, NextList PROVE TurnInv'
  OBVIOUS
<1> DEFINE fr == [Top EXCEPT !.todo = deps[Head(Top.lists)], !.kept = FALSE, !.lists = Tail(@)]
<1>1. at = "deps" /\ stack # << >> /\ Top.todo = << >> /\ Top.lists # << >>
  BY DEF MakeInv, WhereIn, NextList
<1>2. /\ Top = stack[1] /\ 1 \in DOMAIN stack /\ Top \in FrameShape /\ Top.file \in Files
      /\ Top.lists \in Seq(Files) /\ FrameOK(mf, deps, Top)
  BY <1>1, TopFacts
<1>3. /\ Head(Top.lists) \in Files /\ Tail(Top.lists) \in Seq(Files)
      /\ \A h \in ToSet(Top.lists) : h = Head(Top.lists) \/ h \in ToSet(Tail(Top.lists))
  BY <1>1, <1>2, TopOf
<1>4. deps[Head(Top.lists)] \in Seq(Pairs) /\ mf \in Makefiles
  BY <1>3 DEF MakeInv, MakeTypes, ListsIn
<1>5. /\ fr \in FrameShape /\ fr.file = Top.file /\ fr.running = Top.running
      /\ fr.this_mtime = Top.this_mtime /\ fr.must_make = Top.must_make
      /\ fr.dep_status = Top.dep_status
      /\ fr.todo = deps[Head(Top.lists)] /\ fr.lists = Tail(Top.lists)
  BY <1>2, <1>3, <1>4 DEF FrameShape
<1>6. /\ stack' = <<fr>> \o Tail(stack) /\ at' = at /\ file' = file /\ deps' = deps
      /\ UNCHANGED <<mf, shuf, considered, runs, children>>
  BY DEF NextList, fixed, goalVars, world
<1> HIDE DEF fr
<1>7. FrameWell(mf, shuf, file, Top)
  BY <1>1, <1>2, FrameOfStack
<1>8. StampsIn(mf, file, fr) /\ NoReason(mf, file, fr)
  BY <1>5, <1>7 DEF FrameWell, StampsIn, NoReason
<1>9. WalkedIn(mf, shuf, file, fr)
  <2> SUFFICES ASSUME ~fr.running, fr.dep_status = "success",
                      NEW h \in GroupIn(mf, Top.file), NEW p \in Own(mf, h), RealIn(mf, Top.file, p[2])
               PROVE  Ahead(mf, shuf, fr, p) \/ Seen1(mf, file, fr, p)
    BY <1>5 DEF WalkedIn
  <2>1. Ahead(mf, shuf, Top, p) \/ Seen1(mf, file, Top, p)
    BY <1>5, <1>7 DEF FrameWell, WalkedIn
  <2>2. CASE Seen1(mf, file, Top, p)
    BY <1>5, <2>2 DEF Seen1
  <2>3. CASE Ahead(mf, shuf, Top, p)
    <3>1. p[1] \in ToSet(Top.lists)
      BY <1>1, <2>3 DEF Ahead, ToSet
    <3>2. CASE p[1] \in ToSet(Tail(Top.lists))
      BY <1>5, <3>2 DEF Ahead
    <3>3. CASE p[1] = Head(Top.lists)
      <4>1. p[1] = h
        BY <1>2, <1>4, OwnNeeds, ShapeOfMakefile
      <4>2. \E q \in ToSet(deps[h]) : VisitIn(mf, shuf, q) = p
        BY <1>2, <1>4, Reached DEF TurnInv
      <4> QED BY <1>5, <3>3, <4>1, <4>2 DEF Ahead
    <3> QED BY <1>3, <3>1, <3>2, <3>3
  <2> QED BY <2>1, <2>2, <2>3
<1>10. FrameWell(mf, shuf, file', fr)
  BY <1>6, <1>8, <1>9 DEF FrameWell
<1>11. Same(file, file') /\ CircularIn(mf, shuf, deps')
  BY <1>6 DEF Same, TurnInv
<1> QED BY <1>1, <1>5, <1>6, <1>10, <1>11, WalkTurn

LEMMA DropCircularTurn == MakeInv /\ TurnInv /\ DropCircular => TurnInv'
<1> SUFFICES ASSUME MakeInv, TurnInv, DropCircular PROVE TurnInv'
  OBVIOUS
<1> DEFINE fr == [Top EXCEPT !.todo = Tail(@)]
<1>1. at = "deps" /\ stack # << >> /\ Top.todo # << >>
  BY DEF MakeInv, WhereIn, DropCircular, AtDep
<1>2. /\ Top = stack[1] /\ 1 \in DOMAIN stack /\ Top \in FrameShape /\ Top.file \in Files
      /\ Top.todo \in Seq(Pairs)
  BY <1>1, TopFacts
<1>3. /\ Tail(Top.todo) \in Seq(Pairs)
      /\ \A x \in ToSet(Top.todo) : x = Head(Top.todo) \/ x \in ToSet(Tail(Top.todo))
  BY <1>1, <1>2, TopOf
<1>4. NextDep[2] \in Files /\ mf \in Makefiles /\ disk \in [Files -> Nat] /\ file \in [Files -> FileShape]
  BY <1>1, NextDepFacts DEF MakeInv, MakeTypes, WorldTypes
<1>5. /\ fr \in FrameShape /\ fr.file = Top.file /\ fr.running = Top.running
      /\ fr.this_mtime = Top.this_mtime /\ fr.must_make = Top.must_make
      /\ fr.dep_status = Top.dep_status /\ fr.todo = Tail(Top.todo) /\ fr.lists = Top.lists
  BY <1>2, <1>3 DEF FrameShape
<1>6. /\ stack' = <<fr>> \o Tail(stack) /\ at' = "deps" /\ file' = Stat(file, NextDep[2])
      /\ UNCHANGED <<mf, shuf, considered, runs, children>>
  BY <1>1 DEF DropCircular, AtDep, fixed, goalVars, world
<1> HIDE DEF fr
<1>7. /\ PeersIn(mf, Top.file) = {} /\ NextDep[1] = Top.file /\ CircleIn(mf, NextDep)
      /\ \A x \in ToSet(deps[Top.file]) : x # Head(Top.todo) => x \in ToSet(deps'[Top.file])
      /\ \A g \in Files : g # Top.file => deps'[g] = deps[g]
  BY CircleDropped
<1>8. CircularIn(mf, shuf, deps')
  <2> SUFFICES ASSUME NEW g \in Files, NEW q \in Own(mf, g), q \notin ToSet(deps'[g])
               PROVE  CircleIn(mf, VisitIn(mf, shuf, q))
    BY DEF CircularIn
  <2>1. CASE q \notin ToSet(deps[g])
    BY <2>1 DEF TurnInv, CircularIn
  <2>2. CASE q \in ToSet(deps[g])
    <3>1. q = Head(Top.todo)
      BY <1>7, <2>2
    <3> QED BY <1>7, <3>1, NextDepVisited
  <2> QED BY <2>1, <2>2
<1>9. Same(file, file')
  BY <1>4, <1>6, StatSame
<1>10. FrameWell(mf, shuf, file', Top)
  BY <1>1, <1>2, <1>4, <1>9, FrameOfStack, SameFrame
<1>11. StampsIn(mf, file', fr) /\ NoReason(mf, file', fr)
  BY <1>5, <1>10 DEF FrameWell, StampsIn, NoReason
<1>12. WalkedIn(mf, shuf, file', fr)
  <2> SUFFICES ASSUME ~fr.running, fr.dep_status = "success",
                      NEW h \in GroupIn(mf, Top.file), NEW p \in Own(mf, h), RealIn(mf, Top.file, p[2])
               PROVE  Ahead(mf, shuf, fr, p) \/ Seen1(mf, file', fr, p)
    BY <1>5 DEF WalkedIn
  <2>1. Ahead(mf, shuf, Top, p) \/ Seen1(mf, file', Top, p)
    BY <1>5, <1>10 DEF FrameWell, WalkedIn
  <2>2. CASE Seen1(mf, file', Top, p)
    BY <1>5, <2>2 DEF Seen1
  <2>3. CASE p[1] \in ToSet(Top.lists)
    BY <1>5, <2>3 DEF Ahead
  <2>4. ASSUME NEW q \in ToSet(Top.todo), VisitIn(mf, shuf, q) = p
        PROVE  Ahead(mf, shuf, fr, p)
    <3>1. CASE q \in ToSet(Tail(Top.todo))
      BY <1>5, <2>4, <3>1 DEF Ahead
    <3>2. CASE q = Head(Top.todo)
      <4>1. p = NextDep
        BY <2>4, <3>2, NextDepVisited
      <4>2. Top.file \in GroupIn(mf, Top.file)
        BY DEF GroupIn
      <4> QED BY <1>7, <4>1, <4>2 DEF CircleIn, RealIn
    <3> QED BY <1>3, <2>4, <3>1, <3>2
  <2> QED BY <2>1, <2>2, <2>3, <2>4 DEF Ahead
<1>13. FrameWell(mf, shuf, file', fr)
  BY <1>11, <1>12 DEF FrameWell
<1> QED BY <1>1, <1>5, <1>6, <1>8, <1>9, <1>13, WalkTurn

\* No outcome and no time changes with the other fields.
Like(fs, gs) ==
    \A g \in Files : /\ gs[g].command_state = fs[g].command_state
                     /\ gs[g].update_status = fs[g].update_status
                     /\ gs[g].updated = fs[g].updated
                     /\ gs[g].last_mtime = fs[g].last_mtime

LEMMA ClearedLike ==
  ASSUME NEW fs \in [Files -> FileShape], NEW d \in Files
  PROVE  Like(fs, [fs EXCEPT ![d].updating = FALSE])
<1> DEFINE gs == [fs EXCEPT ![d].updating = FALSE]
<1>1. fs[d] \in FileShape
  OBVIOUS
<1>2. gs = [fs EXCEPT ![d] = [fs[d] EXCEPT !.updating = FALSE]]
  OBVIOUS
<1>3. /\ [fs[d] EXCEPT !.updating = FALSE].command_state = fs[d].command_state
      /\ [fs[d] EXCEPT !.updating = FALSE].update_status = fs[d].update_status
      /\ [fs[d] EXCEPT !.updating = FALSE].updated = fs[d].updated
      /\ [fs[d] EXCEPT !.updating = FALSE].last_mtime = fs[d].last_mtime
  BY <1>1 DEF FileShape
<1> QED BY <1>2, <1>3 DEF Like

LEMMA ChangedLike ==
  ASSUME NEW fs \in [Files -> FileShape], NEW f \in Files, NEW d, NEW b \in BOOLEAN
  PROVE  Like(fs, [fs EXCEPT ![f].changed = IF b THEN @ \cup {d} ELSE @ \ {d}])
<1> DEFINE set == IF b THEN fs[f].changed \cup {d} ELSE fs[f].changed \ {d}
           gs == [fs EXCEPT ![f] = [fs[f] EXCEPT !.changed = set]]
<1>1. fs[f] \in FileShape
  OBVIOUS
<1>2. [fs EXCEPT ![f].changed = IF b THEN @ \cup {d} ELSE @ \ {d}] = gs
  OBVIOUS
<1> HIDE DEF set
<1>3. /\ [fs[f] EXCEPT !.changed = set].command_state = fs[f].command_state
      /\ [fs[f] EXCEPT !.changed = set].update_status = fs[f].update_status
      /\ [fs[f] EXCEPT !.changed = set].updated = fs[f].updated
      /\ [fs[f] EXCEPT !.changed = set].last_mtime = fs[f].last_mtime
  BY <1>1 DEF FileShape
<1>4. Like(fs, gs)
  BY <1>3 DEF Like
<1> QED BY <1>2, <1>4

LEMMA DepReturnedTurn == MakeInv /\ TurnInv /\ DepReturned => TurnInv'
<1> SUFFICES ASSUME MakeInv, TurnInv, DepReturned PROVE TurnInv'
  OBVIOUS
<1> DEFINE p == NextDep
           d == p[2]
           mtime == file_mtime(d)
           running == Top.running \/ InProgress(d)
           failed == Top.dep_status = "failed" \/ ret = "failed"
           status == IF failed THEN "failed" ELSE "success"
           stop == Stops(failed)
           newer == mtime = NONEXISTENT_MTIME \/ mtime > Top.this_mtime
           must == Top.must_make \/ (newer /\ Counts(p))
           rest == IF stop THEN << >> ELSE Tail(Top.todo)
           changed == mtime # Top.d_mtime \/ Top.d_mtime = NONEXISTENT_MTIME
           hs == Stat(file, d)
           fs == [hs EXCEPT ![d].updating = FALSE]
           gs == [fs EXCEPT ![p[1]].changed = IF changed THEN @ \cup {d} ELSE @ \ {d}]
           fr == [Top EXCEPT !.running = running, !.dep_status = status, !.must_make = must,
                             !.todo = rest, !.kept = TRUE]
<1>1. at = "returned" /\ stack # << >>
  BY DEF DepReturned
<1>2. /\ Top = stack[1] /\ 1 \in DOMAIN stack /\ Top \in FrameShape /\ Top.file \in Files
      /\ Top.todo \in Seq(Pairs) /\ Top.this_mtime \in Nat /\ Top.dep_status \in {"success", "failed"}
  BY <1>1, TopFacts DEF FrameShape
<1>3. /\ file \in [Files -> FileShape] /\ disk \in [Files -> Nat] /\ mf \in Makefiles
      /\ GroupsApart(mf)
  BY DEF MakeInv, MakeTypes, WorldTypes
<1>4. Top.todo # << >>
  BY <1>1, <1>2 DEF MakeInv, WhereIn
<1>5. /\ d \in Files /\ d = CalledIn(mf, shuf, Top) /\ p[1] \in Files
      /\ p = VisitIn(mf, shuf, Head(Top.todo))
      /\ p[1] \in GroupIn(mf, Top.file) /\ p \in Own(mf, p[1])
      /\ Tail(Top.todo) \in Seq(Pairs)
  <2>1. p = VisitIn(mf, shuf, Head(Top.todo))
    BY NextDepVisited
  <2> HIDE DEF p
  <2> QED BY <1>1, <1>4, <2>1, NextDepFacts DEF p
<1>6. /\ stack' = <<fr>> \o Tail(stack) /\ (file' = fs \/ file' = gs) /\ at' = "deps"
      /\ deps' = deps
      /\ UNCHANGED <<mf, shuf, considered, children, runs>>
  BY Zenon DEF DepReturned, fixed, goalVars, world
<1>7. /\ running \in BOOLEAN /\ status \in {"success", "failed"} /\ must \in BOOLEAN
      /\ rest \in Seq(Pairs) /\ changed \in BOOLEAN /\ failed \in BOOLEAN
      /\ status = "success" => ~failed /\ rest = Tail(Top.todo)
      /\ running = (Top.running \/ InProgress(d))
  <2>1. Top.running \in BOOLEAN /\ Top.must_make \in BOOLEAN
    BY <1>2 DEF FrameShape
  <2>2. << >> \in Seq(Pairs)
    OBVIOUS
  <2> HIDE DEF Top, p, d
  <2> QED BY <1>5, <2>1, <2>2 DEF InProgress, Stops
<1>8. mtime = MtimeIn(file, d) /\ mtime \in Nat
  BY <1>3, <1>5, Times DEF file_mtime
<1>9. must = (Top.must_make \/ (newer /\ p \notin mf.order_only))
  BY DEF Counts
<1>10. \A x \in ToSet(Top.todo) : x = Head(Top.todo) \/ x \in ToSet(Tail(Top.todo))
  BY <1>2, <1>4, TopOf
<1> HIDE DEF p, d, running, status, must, rest, changed, mtime
<1>11. /\ fr \in FrameShape /\ fr.file = Top.file /\ fr.todo = rest /\ fr.lists = Top.lists
       /\ fr.running = running /\ fr.dep_status = status /\ fr.must_make = must
       /\ fr.this_mtime = Top.this_mtime
  <2> HIDE DEF Top
  <2> QED BY <1>2, <1>7 DEF FrameShape
<1> HIDE DEF fr
<1>12. /\ hs \in [Files -> FileShape] /\ Same(file, hs) /\ hs[d].last_mtime = mtime
       /\ mtime # UNKNOWN_MTIME /\ (file[d].last_mtime # UNKNOWN_MTIME => mtime = file[d].last_mtime)
  BY <1>3, <1>5, <1>8, StatSame, Times
<1> HIDE DEF hs
<1>13. Like(hs, file')
  <2>1. Like(hs, fs) /\ fs \in [Files -> FileShape]
    BY <1>5, <1>12, ClearedLike, Cleared
  <2>2. Like(fs, gs)
    <3> HIDE DEF fs
    <3> QED BY <1>5, <1>7, <2>1, ChangedLike
  <2> HIDE DEF fs, gs
  <2>3. Like(hs, gs)
    BY <2>1, <2>2 DEF Like
  <2> QED BY <1>6, <2>1, <2>3
<1>14. Same(file, file') /\ file'[d].last_mtime = mtime
  BY <1>5, <1>12, <1>13 DEF Same, Like
<1> HIDE DEF fs, gs
<1>15. FrameWell(mf, shuf, file, Top)
  BY <1>1, <1>2, FrameOfStack
<1>16. FrameWell(mf, shuf, file', Top)
  BY <1>2, <1>3, <1>14, <1>15, SameFrame
<1>17. \A g \in Files : DoneIn(file', g) <=> DoneIn(file, g)
  BY <1>14, SameIsSteady
<1>18. StampsIn(mf, file', fr)
  BY <1>9, <1>11, <1>16 DEF FrameWell, StampsIn
<1>19. WalkedIn(mf, shuf, file', fr)
  <2> SUFFICES ASSUME ~fr.running, fr.dep_status = "success",
                      NEW h \in GroupIn(mf, Top.file), NEW x \in Own(mf, h), RealIn(mf, Top.file, x[2])
               PROVE  Ahead(mf, shuf, fr, x) \/ Seen1(mf, file', fr, x)
    BY <1>11 DEF WalkedIn
  <2>1. ~Top.running /\ ~InProgress(d) /\ ~failed /\ rest = Tail(Top.todo)
    BY <1>7, <1>11
  <2>2. Top.dep_status = "success" /\ ret # "failed"
    BY <1>2, <2>1
  <2>3. Ahead(mf, shuf, Top, x) \/ Seen1(mf, file', Top, x)
    BY <1>16, <2>1, <2>2 DEF FrameWell, WalkedIn
  <2>4. CASE Seen1(mf, file', Top, x)
    BY <1>9, <1>11, <2>4 DEF Seen1
  <2>5. CASE x[1] \in ToSet(Top.lists)
    BY <1>11, <2>5 DEF Ahead
  <2>6. ASSUME NEW q \in ToSet(Top.todo), VisitIn(mf, shuf, q) = x
        PROVE  Ahead(mf, shuf, fr, x) \/ Seen1(mf, file', fr, x)
    <3>1. CASE q \in ToSet(Tail(Top.todo))
      BY <1>11, <2>1, <2>6, <3>1 DEF Ahead
    <3>2. CASE q = Head(Top.todo)
      <4>1. x = p /\ x[2] = d
        BY <1>5, <2>6, <3>2 DEF d
      <4>2. TruthfulIn(file, d, ret)
        BY <1>1, <1>2, <1>5 DEF TurnInv, AnsweredIn
      <4>3. DoneIn(file', d)
        BY <1>5, <1>17, <2>1, <2>2, <4>2 DEF TruthfulIn, InProgress
      <4>4. ASSUME p \notin mf.order_only, ~fr.must_make
            PROVE  KnownMtime(file', d) /\ file'[d].last_mtime <= fr.this_mtime
        <5>1. mtime # NONEXISTENT_MTIME /\ ~(mtime > Top.this_mtime)
          BY <1>9, <1>11, <4>4
        <5> QED BY <1>2, <1>8, <1>11, <1>12, <1>14, <5>1 DEF KnownMtime
      <4> QED BY <4>1, <4>3, <4>4 DEF Seen1
    <3> QED BY <1>10, <2>6, <3>1, <3>2
  <2> QED BY <2>3, <2>4, <2>5, <2>6 DEF Ahead
<1>20. NoReason(mf, file', fr)
  <2> SUFFICES ASSUME Top.file \in mf.cmds, NEW g \in GroupIn(mf, Top.file), DoneIn(file', g)
               PROVE  ~fr.must_make
    BY <1>11 DEF NoReason
  <2>1. ~Top.must_make
    BY <1>16 DEF FrameWell, NoReason
  <2>2. g \in Files /\ DoneIn(file, g)
    BY <1>2, <1>3, <1>17, ShapeOfMakefile
  <2>3. file[Top.file].command_state \notin Begun
    BY <1>1, <1>2, NotBegun
  <2>4. Quiet(mf, file, Top.file)
    BY <1>2, <1>3, <2>2, <2>3, QuietGroup DEF TurnInv
  <2>5. ASSUME p \notin mf.order_only PROVE ~newer
    <3>1. /\ KnownMtime(file, d)
          /\ \A k \in GroupIn(mf, Top.file) : file[d].last_mtime <= file[k].last_mtime
      BY <1>5, <2>4, <2>5 DEF Quiet, d
    <3>2. mtime = file[d].last_mtime /\ mtime # NONEXISTENT_MTIME
      BY <1>12, <3>1 DEF KnownMtime
    <3>3. PICK k \in GroupIn(mf, Top.file) : Top.this_mtime = file[k].last_mtime
      BY <1>15 DEF FrameWell, StampsIn
    <3>4. mtime <= Top.this_mtime
      BY <3>1, <3>2, <3>3
    <3> QED BY <1>2, <1>8, <3>2, <3>4
  <2> HIDE DEF newer
  <2> QED BY <1>9, <1>11, <2>1, <2>5
<1>21. FrameWell(mf, shuf, file', fr)
  BY <1>18, <1>19, <1>20 DEF FrameWell
<1>22. CircularIn(mf, shuf, deps')
  BY <1>6 DEF TurnInv
<1> QED BY <1>1, <1>6, <1>11, <1>14, <1>21, <1>22, WalkTurn

LEMMA SeenSame ==
  ASSUME mf \in Makefiles, disk \in [Files -> Nat], NEW f \in Files, NEW fs \in [Files -> FileShape]
  PROVE  /\ Same(fs, Seen(fs, f))
         /\ \A h \in GroupIn(mf, f) : Seen(fs, f)[h].last_mtime \in Nat
                                      /\ MtimeIn(Seen(fs, f), h) = Seen(fs, f)[h].last_mtime
<1> DEFINE new(g) == [fs[g] EXCEPT !.last_mtime = MtimeIn(fs, g), !.updating = g = f \/ @]
<1>1. ASSUME NEW g \in Files
      PROVE  /\ new(g).command_state = fs[g].command_state
             /\ new(g).update_status = fs[g].update_status
             /\ new(g).updated = fs[g].updated
             /\ new(g).last_mtime = MtimeIn(fs, g) /\ MtimeIn(fs, g) \in Nat
             /\ fs[g].last_mtime # UNKNOWN_MTIME => MtimeIn(fs, g) = fs[g].last_mtime
  <2>1. MtimeIn(fs, g) \in Nat /\ fs[g] \in FileShape
    BY <1>1, Times
  <2>2. fs[g].last_mtime # UNKNOWN_MTIME => MtimeIn(fs, g) = fs[g].last_mtime
    BY DEF MtimeIn
  <2>3. /\ new(g).command_state = fs[g].command_state
        /\ new(g).update_status = fs[g].update_status
        /\ new(g).updated = fs[g].updated
        /\ new(g).last_mtime = MtimeIn(fs, g)
    BY <2>1 DEF FileShape
  <2> QED BY <2>1, <2>2, <2>3
<1>2. \A g \in Files : Seen(fs, f)[g] = IF g \in GroupIn(mf, f) THEN new(g) ELSE fs[g]
  BY DEF Seen, GroupIn, Peers
<1> HIDE DEF new
<1>3. Same(fs, Seen(fs, f))
  BY <1>1, <1>2 DEF Same
<1>4. ASSUME NEW h \in GroupIn(mf, f)
      PROVE  Seen(fs, f)[h].last_mtime \in Nat /\ MtimeIn(Seen(fs, f), h) = Seen(fs, f)[h].last_mtime
  <2>1. h \in Files
    BY ShapeOfMakefile
  <2>2. Seen(fs, f)[h].last_mtime \in Nat
    BY <1>1, <1>2, <2>1
  <2>3. Seen(fs, f)[h].last_mtime # UNKNOWN_MTIME
    BY <2>2 DEF UNKNOWN_MTIME
  <2> QED BY <2>2, <2>3 DEF MtimeIn
<1> QED BY <1>3, <1>4

\* What a new activation knows of its group, and has still to walk.
LEMMA NewFrameWell ==
  ASSUME MakeInv, TurnInv, NEW f \in Files, file[f].command_state \notin Begun,
         NEW gs \in [Files -> FileShape], Same(file, gs),
         \A h \in GroupIn(mf, f) : gs[h].last_mtime \in Nat /\ MtimeIn(gs, h) = gs[h].last_mtime
  PROVE  FrameWell(mf, shuf, gs, Frame(f, gs))
<1> DEFINE group == GroupIn(mf, f)
           times == {MtimeIn(gs, g) : g \in group}
           least == CHOOSE t \in times : \A u \in times : t <= u
           none == NONEXISTENT_MTIME \in times
           fr == Frame(f, gs)
<1>1. mf \in Makefiles /\ GroupsApart(mf) /\ QuietIn(mf, file) /\ GroupsAlike(mf)
  BY DEF MakeInv, MakeTypes, TurnInv
<1>2. /\ fr.file = f /\ fr.todo = deps[f] /\ fr.lists = mf.also_make[f]
      /\ fr.this_mtime = least /\ fr.must_make = none
  BY DEF Frame, GroupIn, Peers
<1> HIDE DEF fr
<1>3. f \in group /\ group \subseteq Files
  BY <1>1, ShapeOfMakefile
<1>4. times \subseteq Nat /\ times # {}
  BY <1>3
<1>5. least \in times /\ \A u \in times : least <= u
  <2> HIDE DEF times
  <2>1. \E t \in times : \A u \in times : t <= u
    BY <1>4, LeastNatural
  <2> QED BY <2>1, Zenon
<1> HIDE DEF least
<1>6. StampsIn(mf, gs, fr)
  <2>1. \A h \in group : gs[h].last_mtime \in times /\ gs[h].last_mtime # UNKNOWN_MTIME
    BY DEF UNKNOWN_MTIME
  <2>2. PICK h \in group : least = gs[h].last_mtime
    BY <1>5
  <2> QED BY <1>2, <1>5, <2>1, <2>2 DEF StampsIn
<1>7. WalkedIn(mf, shuf, gs, fr)
  <2> SUFFICES ASSUME NEW h \in group, NEW p \in Own(mf, h), RealIn(mf, f, p[2])
               PROVE  Ahead(mf, shuf, fr, p)
    BY <1>2 DEF WalkedIn
  <2>1. CASE h = f
    <3>1. \E q \in ToSet(deps[h]) : VisitIn(mf, shuf, q) = p
      BY <1>1, Reached DEF TurnInv
    <3> QED BY <1>2, <2>1, <3>1 DEF Ahead
  <2>2. CASE h \in PeersIn(mf, f)
    <3>1. p[1] = h
      BY <1>1, <1>3, OwnNeeds
    <3> QED BY <1>2, <2>2, <3>1 DEF Ahead, PeersIn
  <2> QED BY <2>1, <2>2 DEF GroupIn
<1>8. NoReason(mf, gs, fr)
  <2> SUFFICES ASSUME f \in mf.cmds, NEW g \in group, DoneIn(gs, g)
               PROVE  ~none
    BY <1>2 DEF NoReason
  <2>1. DoneIn(file, g)
    BY <1>3, SameIsSteady
  <2>2. Quiet(mf, file, f)
    BY <1>1, <2>1, QuietGroup
  <2>3. \A h \in group : gs[h].last_mtime # NONEXISTENT_MTIME
    BY <1>3, <2>2 DEF Quiet, KnownMtime, Same
  <2> QED BY <2>3
<1> QED BY <1>6, <1>7, <1>8 DEF FrameWell, fr

\* update_file, for a file that no activation is at.
LEMMA UpdateFileTurn ==
  ASSUME MakeInv, TurnInv, NEW f \in Files, NEW fs \in [Files -> FileShape], Same(file, fs),
         NEW s \in Seq(FrameShape),
         \A i \in DOMAIN s : /\ file[s[i].file].command_state \notin Begun
                             /\ FrameWell(mf, shuf, file, s[i]),
         s # << >> => CalledIn(mf, shuf, s[1]) = f,
         \A i \in DOMAIN stack : /\ stack[i].file # f
                                 /\ \E j \in DOMAIN s : s[j].file = stack[i].file,
         update_file(f, fs, s), UNCHANGED <<mf, shuf, deps, runs, children>>
  PROVE  TurnInv'
<1>1. /\ mf \in Makefiles /\ disk \in [Files -> Nat] /\ considered \subseteq Files
      /\ file \in [Files -> FileShape]
  BY DEF MakeInv, MakeTypes, WorldTypes
<1>2. /\ ConsideredIn(file, considered, stack) /\ CircularIn(mf, shuf, deps') /\ OutcomesIn(file)
      /\ considered' = considered \cup {f}
  BY DEF TurnInv, update_file
<1>3. \A i \in DOMAIN s : s[i] \in FrameShape /\ s[i].file \in Files
  <2>1. \A i \in DOMAIN s : s[i] \in FrameShape
    OBVIOUS
  <2> QED BY <2>1 DEF FrameShape
<1>4. ASSUME NEW g \in considered, file[g].command_state = "not_started"
      PROVE  g # f /\ \E j \in DOMAIN s : s[j].file = g
  <2>1. PICK i \in DOMAIN stack : stack[i].file = g
    BY <1>1, <1>2, <1>4 DEF ConsideredIn
  <2> QED BY <2>1
<1>5. ASSUME NEW gs, Same(file, gs)
      PROVE  /\ \A i \in DOMAIN s : FrameWell(mf, shuf, gs, s[i]) /\ gs[s[i].file].command_state \notin Begun
             /\ \A g \in Files : gs[g].command_state = file[g].command_state
  <2>1. \A g \in Files : gs[g].command_state = file[g].command_state
    BY <1>5 DEF Same
  <2>2. \A i \in DOMAIN s : FrameWell(mf, shuf, gs, s[i])
    BY <1>1, <1>3, <1>5, SameFrame
  <2> QED BY <1>3, <2>1, <2>2
<1>6. CASE Settled(f)
  <2>1. stack' = s /\ at' = "returned" /\ file' = fs /\ ret' = Answer(f)
    BY <1>6 DEF update_file
  <2>2. file[f] \in FileShape
    BY <1>1
  <2>3. file[f].command_state \in {"deps_running", "running", "finished"}
    <3>1. CASE f \in considered
      BY <1>4, <2>2, <3>1 DEF FileShape, States
    <3>2. CASE file[f].updated
      BY <1>2, <3>2 DEF OutcomesIn
    <3>3. CASE file[f].command_state \in {"running", "finished"}
      BY <3>3
    <3> QED BY <1>6, <3>1, <3>2, <3>3 DEF Settled
  <2>4. TruthfulIn(fs, f, Answer(f))
    <3>1. /\ fs[f].command_state = file[f].command_state
          /\ fs[f].update_status = file[f].update_status
      BY DEF Same
    <3>2. CASE file[f].command_state = "finished"
      <4>1. file[f].update_status \in {"success", "failed"}
        BY <1>2, <2>2, <3>2 DEF OutcomesIn, FileShape, Statuses
      <4> QED BY <3>1, <3>2, <4>1 DEF TruthfulIn, DoneIn, Answer
    <3> QED BY <2>3, <3>1, <3>2 DEF TruthfulIn
  <2>5. AnsweredIn(mf, shuf, file', stack', at', ret')
    BY <2>1, <2>4 DEF AnsweredIn
  <2>6. ConsideredIn(file', considered', stack')
    <3> SUFFICES ASSUME NEW g \in considered \cup {f}, fs[g].command_state = "not_started"
                 PROVE  \E j \in DOMAIN s : s[j].file = g
      BY <1>2, <2>1 DEF ConsideredIn
    <3>1. file[g].command_state = "not_started"
      BY <1>1, <1>5
    <3> QED BY <1>4, <2>3, <3>1
  <2>7. FreshIn(file', stack', at') /\ FramesIn(mf, shuf, file', stack', at')
    BY <1>5, <2>1 DEF FreshIn, FramesIn
  <2>8. StartingIn(mf, file', stack', at')
    BY <2>1 DEF StartingIn
  <2> QED BY <1>2, <2>1, <2>5, <2>6, <2>7, <2>8, SameTurn
<1>7. CASE ~Settled(f)
  <2> DEFINE gs == Seen(fs, f)
             t == <<Frame(f, gs)>> \o s
  <2>1. stack' = t /\ at' = "deps" /\ file' = gs
    BY <1>7 DEF update_file, Seen
  <2>2. /\ gs \in [Files -> FileShape] /\ Same(file, gs)
        /\ \A h \in GroupIn(mf, f) : gs[h].last_mtime \in Nat /\ MtimeIn(gs, h) = gs[h].last_mtime
    <3>1. Same(fs, gs)
      BY <1>1, SeenSame
    <3>2. Same(file, gs)
      <4> HIDE DEF gs
      <4> QED BY <3>1 DEF Same
    <3>3. gs \in [Files -> FileShape]
      BY <1>1, Looked
    <3>4. \A h \in GroupIn(mf, f) : gs[h].last_mtime \in Nat /\ MtimeIn(gs, h) = gs[h].last_mtime
      BY <1>1, SeenSame
    <3> HIDE DEF gs
    <3> QED BY <3>2, <3>3, <3>4
  <2> HIDE DEF gs
  <2>3. file[f].command_state \notin Begun
    BY <1>7 DEF Settled, Begun
  <2>4. FrameWell(mf, shuf, gs, Frame(f, gs))
    BY <2>2, <2>3, NewFrameWell
  <2>5. Frame(f, gs) \in FrameShape /\ Frame(f, gs).file = f
    BY <1>1, <2>2, NewFrame DEF MakeInv
  <2>6. /\ t # << >> /\ t[1] = Frame(f, gs) /\ 1 \in DOMAIN t
        /\ \A i \in DOMAIN t : i # 1 => i - 1 \in DOMAIN s /\ t[i] = s[i - 1]
        /\ \A i \in DOMAIN s : i + 1 \in DOMAIN t /\ t[i + 1] = s[i]
    BY <2>5, PushedOn
  <2> HIDE DEF t
  <2>7. ConsideredIn(gs, considered', t)
    <3> SUFFICES ASSUME NEW g \in considered \cup {f}, gs[g].command_state = "not_started"
                 PROVE  \E i \in DOMAIN t : t[i].file = g
      BY <1>2 DEF ConsideredIn
    <3>1. CASE g = f
      BY <2>5, <2>6, <3>1
    <3>2. CASE g \in considered
      <4>1. file[g].command_state = "not_started"
        BY <1>1, <1>5, <2>2, <3>2
      <4>2. PICK j \in DOMAIN s : s[j].file = g
        BY <1>4, <3>2, <4>1
      <4> QED BY <2>6, <4>2
    <3> QED BY <3>1, <3>2
  <2>8. \A i \in DOMAIN t : FrameWell(mf, shuf, gs, t[i]) /\ gs[t[i].file].command_state \notin Begun
    <3>1. gs[f].command_state \notin Begun
      BY <1>5, <2>2, <2>3
    <3> QED BY <1>5, <2>2, <2>4, <2>5, <2>6, <3>1
  <2>9. FreshIn(gs, t, "deps") /\ FramesIn(mf, shuf, gs, t, "deps")
    BY <2>8 DEF FreshIn, FramesIn
  <2>10. AnsweredIn(mf, shuf, gs, t, "deps", ret') /\ StartingIn(mf, gs, t, "deps")
    BY DEF AnsweredIn, StartingIn
  <2> QED BY <1>2, <2>1, <2>2, <2>7, <2>9, <2>10, SameTurn
<1> QED BY <1>6, <1>7

LEMMA CheckDepTurn == MakeInv /\ TurnInv /\ check_dep => TurnInv'
<1> SUFFICES ASSUME MakeInv, TurnInv, check_dep PROVE TurnInv'
  OBVIOUS
<1> DEFINE d == NextDep[2]
           fs == Stat(file, d)
           fr == [Top EXCEPT !.d_mtime = file_mtime(d)]
           s == <<fr>> \o Tail(stack)
<1>1. at = "deps" /\ stack # << >> /\ Top.todo # << >> /\ ~file[d].updating
  BY DEF MakeInv, WhereIn, check_dep, AtDep
<1>2. /\ stack \in Seq(FrameShape) /\ Top = stack[1] /\ 1 \in DOMAIN stack /\ Top \in FrameShape
  BY <1>1, TopFacts
<1>3. file \in [Files -> FileShape] /\ disk \in [Files -> Nat] /\ mf \in Makefiles
  BY DEF MakeInv, MakeTypes, WorldTypes
<1>4. d \in Files /\ d = CalledIn(mf, shuf, Top)
  BY <1>1, NextDepFacts
<1>5. update_file(d, fs, s) /\ UNCHANGED <<mf, shuf, deps, runs, children>>
  BY DEF check_dep, fixed, world
<1>6. \A i \in DOMAIN stack : stack[i].file # d
  <2>1. \A i \in DOMAIN stack : file[stack[i].file].updating
    BY <1>1 DEF MakeInv, UpdatingIn
  <2> QED BY <1>1, <2>1
<1> HIDE DEF d
<1>7. fs \in [Files -> FileShape] /\ Same(file, fs)
  BY <1>3, <1>4, Times, StatSame
<1> HIDE DEF fs
<1>8. file_mtime(d) \in Nat
  BY <1>3, <1>4, Times DEF file_mtime
<1>9. /\ fr \in FrameShape /\ fr.file = Top.file /\ fr.todo = Top.todo /\ fr.lists = Top.lists
      /\ fr.this_mtime = Top.this_mtime /\ fr.must_make = Top.must_make
      /\ fr.running = Top.running /\ fr.dep_status = Top.dep_status
  <2> HIDE DEF Top
  <2> QED BY <1>2, <1>8 DEF FrameShape
<1> HIDE DEF fr
<1>10. FrameWell(mf, shuf, file, fr)
  <2>1. FrameWell(mf, shuf, file, Top)
    BY <1>1, <1>2, FrameOfStack
  <2> QED BY <1>9, <2>1 DEF FrameWell, StampsIn, WalkedIn, NoReason, Ahead, Seen1
<1>11. /\ s \in Seq(FrameShape) /\ s # << >> /\ s[1] = fr /\ DOMAIN s = DOMAIN stack
       /\ \A i \in DOMAIN stack : i # 1 => s[i] = stack[i]
  BY <1>1, <1>2, <1>9, Replaced
<1> HIDE DEF s
<1>12. \A i \in DOMAIN s : s[i].file = stack[i].file
  BY <1>2, <1>9, <1>11
<1>13. ASSUME NEW i \in DOMAIN s
       PROVE  file[s[i].file].command_state \notin Begun /\ FrameWell(mf, shuf, file, s[i])
  <2>1. i \in DOMAIN stack /\ file[stack[i].file].command_state \notin Begun
        /\ FrameWell(mf, shuf, file, stack[i])
    BY <1>1, <1>11, NotBegun, FrameOfStack
  <2> QED BY <1>10, <1>11, <1>12, <2>1
<1>14. CalledIn(mf, shuf, s[1]) = d
  BY <1>4, <1>9, <1>11 DEF CalledIn
<1>15. \A i \in DOMAIN stack : stack[i].file # d /\ \E j \in DOMAIN s : s[j].file = stack[i].file
  BY <1>6, <1>11, <1>12
<1> QED BY <1>4, <1>5, <1>7, <1>11, <1>13, <1>14, <1>15, UpdateFileTurn

LEMMA UpdateGoalTurn == MakeInv /\ TurnInv /\ UpdateGoal => TurnInv'
<1> SUFFICES ASSUME MakeInv, TurnInv, UpdateGoal PROVE TurnInv'
  OBVIOUS
<1> DEFINE f == goals[visited + 1]
<1>1. /\ at = "scan" /\ visited < Len(goals) /\ update_file(f, file, << >>)
      /\ UNCHANGED <<mf, shuf, deps, runs, children>>
  BY DEF UpdateGoal, fixed, goalVars, world
<1>2. goals \in Seq(Files) /\ visited \in 0 .. Len(goals) /\ file \in [Files -> FileShape]
  BY DEF MakeInv, MakeTypes
<1>3. f \in Files
  BY <1>1, <1>2
<1>4. stack = << >> /\ DOMAIN << >> = {} /\ << >> \in Seq(FrameShape)
  BY <1>1 DEF MakeInv, WhereIn
<1>5. Same(file, file)
  BY DEF Same
<1> HIDE DEF f
<1> QED BY <1>1, <1>2, <1>3, <1>4, <1>5, UpdateFileTurn

----------------------------------------------------------------------------
(***************************************************************************)
(* The end of an activation, and the outcome of its file                   *)
(***************************************************************************)
LEMMA StateSet ==
  ASSUME mf \in Makefiles, NEW fs \in [Files -> FileShape], NEW f \in Files, NEW st \in States
  PROVE  LET gs == set_command_state(fs, f, st) IN
         /\ OnlyIn(GroupIn(mf, f), fs, gs) /\ gs[f].command_state = st
         /\ \A g \in Files :
               /\ gs[g].update_status = fs[g].update_status
               /\ gs[g].updated = fs[g].updated /\ gs[g].last_mtime = fs[g].last_mtime
               /\ \/ g = f \/ gs[g].command_state = fs[g].command_state
                  \/ /\ gs[g].command_state = st
                     /\ StateRank(st) > StateRank(fs[g].command_state)
<1> DEFINE gs == set_command_state(fs, f, st)
           up(g) == g = f \/ (g \in Peers(f) /\ StateRank(st) > StateRank(fs[g].command_state))
<1>1. ASSUME NEW g \in Files
      PROVE  /\ [fs[g] EXCEPT !.command_state = st].command_state = st
             /\ [fs[g] EXCEPT !.command_state = st].update_status = fs[g].update_status
             /\ [fs[g] EXCEPT !.command_state = st].updated = fs[g].updated
             /\ [fs[g] EXCEPT !.command_state = st].last_mtime = fs[g].last_mtime
  <2>1. fs[g] \in FileShape
    OBVIOUS
  <2> QED BY <2>1 DEF FileShape
<1>2. \A g \in Files : gs[g] = IF up(g) THEN [fs[g] EXCEPT !.command_state = st] ELSE fs[g]
  BY DEF set_command_state
<1> HIDE DEF gs
<1>3. OnlyIn(GroupIn(mf, f), fs, gs)
  BY <1>2 DEF OnlyIn, GroupIn, Peers
<1>4. gs[f].command_state = st
  BY <1>1, <1>2
<1>5. ASSUME NEW g \in Files
      PROVE  /\ gs[g].update_status = fs[g].update_status
             /\ gs[g].updated = fs[g].updated /\ gs[g].last_mtime = fs[g].last_mtime
             /\ \/ g = f \/ gs[g].command_state = fs[g].command_state
                \/ /\ gs[g].command_state = st
                   /\ StateRank(st) > StateRank(fs[g].command_state)
  BY <1>1, <1>2
<1> QED BY <1>3, <1>4, <1>5 DEF gs

\* A file whose recipe did not run is finished alone.
LEMMA NoticedAlone ==
  ASSUME NEW fs \in [Files -> FileShape], NEW f \in Files, fs[f].command_state # "running"
  PROVE  LET gs == notice_finished_file(fs, f) IN
         /\ \A g \in Files : g # f => gs[g] = fs[g]
         /\ gs[f].command_state = "finished" /\ gs[f].updated
         /\ gs[f].update_status = IF fs[f].update_status = "none" THEN "success"
                                  ELSE fs[f].update_status
         /\ gs[f].last_mtime = fs[f].last_mtime
<1> DEFINE gs == notice_finished_file(fs, f)
           status == IF fs[f].update_status = "none" THEN "success" ELSE fs[f].update_status
           done == [fs[f] EXCEPT !.command_state = "finished", !.updated = TRUE,
                                 !.last_mtime = fs[f].last_mtime, !.update_status = status]
<1>1. gs[f] = done /\ \A g \in Files : g # f => gs[g] = fs[g]
  BY DEF notice_finished_file
<1>2. fs[f] \in FileShape
  OBVIOUS
<1> HIDE DEF status, gs
<1>3. /\ done.command_state = "finished" /\ done.updated /\ done.update_status = status
      /\ done.last_mtime = fs[f].last_mtime
  BY <1>2 DEF FileShape
<1> QED BY <1>1, <1>3 DEF gs, status

LEMMA FinishedAlone ==
  ASSUME NEW fs \in [Files -> FileShape], NEW f \in Files, fs[f].command_state # "running",
         NEW status \in {"success", "failed"}
  PROVE  LET gs == Finish(fs, f, status) IN
         /\ \A g \in Files : g # f => gs[g] = fs[g]
         /\ gs[f].command_state = "finished" /\ gs[f].updated
         /\ gs[f].update_status = status /\ gs[f].last_mtime = fs[f].last_mtime
<1> DEFINE hs == [fs EXCEPT ![f] = [fs[f] EXCEPT !.update_status = status]]
<1>1. fs[f] \in FileShape
  OBVIOUS
<1>2. /\ [fs[f] EXCEPT !.update_status = status] \in FileShape
      /\ [fs[f] EXCEPT !.update_status = status].update_status = status
      /\ [fs[f] EXCEPT !.update_status = status].last_mtime = fs[f].last_mtime
      /\ [fs[f] EXCEPT !.update_status = status].command_state = fs[f].command_state
  BY <1>1 DEF FileShape, Statuses
<1>3. /\ hs \in [Files -> FileShape] /\ hs[f].update_status = status
      /\ hs[f].last_mtime = fs[f].last_mtime /\ hs[f].command_state # "running"
      /\ \A g \in Files : g # f => hs[g] = fs[g]
  BY <1>2
<1>4. Finish(fs, f, status) = notice_finished_file(hs, f)
  BY DEF Finish
<1> HIDE DEF hs
<1>5. LET gs == notice_finished_file(hs, f) IN
      /\ \A g \in Files : g # f => gs[g] = hs[g]
      /\ gs[f].command_state = "finished" /\ gs[f].updated
      /\ gs[f].update_status = IF hs[f].update_status = "none" THEN "success"
                               ELSE hs[f].update_status
      /\ gs[f].last_mtime = hs[f].last_mtime
  BY <1>3, NoticedAlone
<1> QED BY <1>3, <1>4, <1>5

\* A recipe that ran finishes all of its group.
LEMMA FinishedTogether ==
  ASSUME mf \in Makefiles, disk \in [Files -> Nat], NEW fs \in [Files -> FileShape], NEW f \in Files,
         fs[f].command_state = "running", NEW status \in {"success", "failed"}
  PROVE  LET gs == Finish(fs, f, status) IN
         /\ OnlyIn(GroupIn(mf, f), fs, gs)
         /\ \A g \in GroupIn(mf, f) : /\ gs[g].command_state = "finished" /\ gs[g].updated
                                      /\ gs[g].update_status = status
<1> DEFINE hs == [fs EXCEPT ![f] = [fs[f] EXCEPT !.update_status = status]]
           gs == notice_finished_file(hs, f)
           time == IF f \notin mf.phony THEN UNKNOWN_MTIME ELSE hs[f].last_mtime
           done == [hs[f] EXCEPT !.command_state = "finished", !.updated = TRUE,
                                 !.last_mtime = time, !.update_status = status]
           timeOf(g) == IF g \in mf.phony THEN hs[g].last_mtime ELSE disk[g]
           peer(g) == [hs[g] EXCEPT !.command_state = "finished", !.updated = TRUE,
                                    !.update_status = status, !.last_mtime = timeOf(g)]
<1>1. fs[f] \in FileShape
  OBVIOUS
<1>2. /\ [fs[f] EXCEPT !.update_status = status] \in FileShape
      /\ [fs[f] EXCEPT !.update_status = status].update_status = status
      /\ [fs[f] EXCEPT !.update_status = status].command_state = fs[f].command_state
  BY <1>1 DEF FileShape, Statuses
<1>3. /\ hs \in [Files -> FileShape] /\ hs[f].update_status = status
      /\ hs[f].command_state = "running" /\ \A g \in Files : g # f => hs[g] = fs[g]
  BY <1>2
<1>4. Finish(fs, f, status) = gs
  BY DEF Finish
<1> HIDE DEF hs
<1>5. /\ gs[f] = done
      /\ \A g \in Files : g # f => gs[g] = IF g \in Peers(f) THEN peer(g) ELSE hs[g]
  BY <1>3 DEF notice_finished_file
<1> HIDE DEF gs, time, timeOf
<1>6. done.command_state = "finished" /\ done.updated /\ done.update_status = status
  <2>1. hs[f] \in FileShape
    BY <1>3
  <2> QED BY <2>1 DEF FileShape
<1>7. ASSUME NEW g \in Files
      PROVE  peer(g).command_state = "finished" /\ peer(g).updated /\ peer(g).update_status = status
  <2>1. hs[g] \in FileShape
    BY <1>3
  <2> QED BY <2>1 DEF FileShape
<1> HIDE DEF done, peer
<1>8. OnlyIn(GroupIn(mf, f), fs, gs)
  BY <1>3, <1>5 DEF OnlyIn, GroupIn, Peers
<1>9. ASSUME NEW g \in GroupIn(mf, f)
      PROVE  gs[g].command_state = "finished" /\ gs[g].updated /\ gs[g].update_status = status
  <2>1. g \in Files
    BY ShapeOfMakefile
  <2>2. CASE g = f
    BY <1>5, <1>6, <2>2
  <2>3. CASE g # f
    <3>1. g \in Peers(f)
      BY <2>3 DEF GroupIn, Peers
    <3>2. gs[g] = peer(g)
      BY <1>5, <2>1, <2>3, <3>1
    <3> QED BY <1>7, <2>1, <3>2
  <2> QED BY <2>2, <2>3
<1> QED BY <1>4, <1>8, <1>9

\* What the innermost activation does to its group the others do not notice.
LEMMA OthersMoved ==
  ASSUME MakeInv, NEW gs, stack # << >>,
         OnlyIn(GroupIn(mf, Top.file), file, gs), Steady(file, gs),
         NEW i \in DOMAIN stack, i # 1, FrameWell(mf, shuf, file, stack[i])
  PROVE  FrameWell(mf, shuf, gs, stack[i]) /\ gs[stack[i].file] = file[stack[i].file]
<1>1. stack \in Seq(FrameShape) /\ Top = stack[1] /\ Top.file \in Files
  BY TopFacts
<1>2. mf \in Makefiles /\ GroupsApart(mf) /\ WellStacked(mf, shuf, deps, stack)
  BY DEF MakeInv, MakeTypes
<1>3. PICK fr \in FrameShape : fr = stack[i]
  BY <1>1
<1>4. Top.file \notin GroupIn(mf, fr.file)
  BY <1>1, <1>2, <1>3, OthersApart
<1>5. PICK x \in Files : x = Top.file
  BY <1>1
<1>6. /\ x \notin GroupIn(mf, fr.file) /\ OnlyIn(GroupIn(mf, x), file, gs)
      /\ FrameWell(mf, shuf, file, fr) /\ Steady(file, gs)
  BY <1>3, <1>4, <1>5
<1>7. FrameWell(mf, shuf, gs, fr) /\ gs[fr.file] = file[fr.file]
  BY ONLY <1>2, <1>3, <1>5, <1>6, FrameMoved
<1> QED BY <1>3, <1>7

\* The end of an activation, with the outcome of its file in fs.
LEMMA ReturnTurn ==
  ASSUME MakeInv, TurnInv, at = "deps", stack # << >>,
         NEW fs \in [Files -> FileShape],
         OnlyIn(GroupIn(mf, Top.file), file, fs), Steady(file, fs), OutcomesIn(fs), QuietIn(mf, fs),
         TruthfulIn(fs, Top.file, ret'),
         \A g \in Files : fs[g].command_state = "not_started" =>
                             g # Top.file /\ file[g].command_state = "not_started",
         file' = [fs EXCEPT ![Top.file].updating = FALSE],
         stack' = Tail(stack), at' = "returned",
         UNCHANGED <<mf, shuf, deps, considered, children, runs>>
  PROVE  TurnInv'
<1> DEFINE x == Top.file
           t == Tail(stack)
<1>1. /\ stack \in Seq(FrameShape) /\ Top = stack[1] /\ 1 \in DOMAIN stack /\ x \in Files
  BY TopFacts
<1>2. /\ mf \in Makefiles /\ GroupsApart(mf) /\ considered \subseteq Files
      /\ DOMAIN children \subseteq Files /\ WellStacked(mf, shuf, deps, stack)
  BY DEF MakeInv, MakeTypes, WorldTypes
<1>3. /\ t \in Seq(FrameShape) /\ DOMAIN t \subseteq Nat \ {0}
      /\ \A i \in DOMAIN t : i + 1 \in DOMAIN stack /\ t[i] = stack[i + 1] /\ i + 1 # 1
      /\ \A i \in DOMAIN stack : i # 1 => i - 1 \in DOMAIN t /\ stack[i] = t[i - 1]
  BY <1>1, TopOf
<1>4. Like(fs, file') /\ x \in GroupIn(mf, x) /\ \A g \in Files : g # x => file'[g] = fs[g]
  BY <1>1, <1>2, ClearedLike, Cleared, ShapeOfMakefile
<1> HIDE DEF t, x
<1>5. Same(fs, file') /\ OnlyIn(GroupIn(mf, x), file, file') /\ Steady(file, file')
  BY <1>1, <1>4 DEF Like, Same, OnlyIn, Steady, DoneIn, x
<1>6. OutcomesIn(file') /\ QuietIn(mf, file') /\ TruthfulIn(file', x, ret')
  <2>1. OutcomesIn(file') /\ QuietIn(mf, file')
    BY <1>2, <1>5, SameOutcomes, SameQuiet
  <2>2. TruthfulIn(file', x, ret')
    BY <1>1, <1>4 DEF TruthfulIn, DoneIn, Like, x
  <2> QED BY <2>1, <2>2
<1>7. ChildrenIn(mf, file', runs, DOMAIN children)
  <2>1. NoneRan(mf, runs, x)
    BY <1>1 DEF MakeInv, RunsIn, x
  <2>2. \A c \in DOMAIN children : runs[c] > 0
    BY DEF TurnInv, ChildrenIn
  <2>3. \A c \in DOMAIN children : c \notin GroupIn(mf, x)
    <3>1. ~(0 > 0)
      OBVIOUS
    <3> QED BY <2>1, <2>2, <3>1 DEF NoneRan
  <2> QED BY <1>1, <1>2, <1>5, <2>3, ChildMoved DEF TurnInv, x
<1>8. ASSUME NEW i \in DOMAIN t
      PROVE  FrameWell(mf, shuf, file', t[i]) /\ file'[t[i].file].command_state \notin Begun
  <2>1. i + 1 \in DOMAIN stack /\ i + 1 # 1 /\ t[i] = stack[i + 1]
    BY <1>3
  <2>2. FrameWell(mf, shuf, file, stack[i + 1]) /\ file[stack[i + 1].file].command_state \notin Begun
    BY <2>1, FrameOfStack, NotBegun
  <2>3. FrameWell(mf, shuf, file', stack[i + 1]) /\ file'[stack[i + 1].file] = file[stack[i + 1].file]
    BY <1>5, <2>1, <2>2, OthersMoved DEF x
  <2> QED BY <2>1, <2>2, <2>3
<1>9. FreshIn(file', t, "returned") /\ FramesIn(mf, shuf, file', t, "returned")
  BY <1>8 DEF FreshIn, FramesIn
<1>10. ConsideredIn(file', considered, t)
  <2> SUFFICES ASSUME NEW g \in considered, file'[g].command_state = "not_started"
               PROVE  \E i \in DOMAIN t : t[i].file = g
    BY DEF ConsideredIn
  <2>1. g \in Files
    BY <1>2
  <2>2. g # x /\ file[g].command_state = "not_started"
    BY <1>4, <2>1 DEF Like, x
  <2>3. PICK i \in DOMAIN stack : stack[i].file = g
    BY <2>2 DEF TurnInv, ConsideredIn
  <2>4. i # 1
    BY <1>1, <2>2, <2>3 DEF x
  <2> QED BY <1>3, <2>3, <2>4
<1>11. AnsweredIn(mf, shuf, file', t, "returned", ret')
  <2> SUFFICES ASSUME t # << >> PROVE CalledIn(mf, shuf, t[1]) = x
    BY <1>6 DEF AnsweredIn
  <2>1. 1 \in DOMAIN t /\ t[1] = stack[1 + 1] /\ 1 + 1 \in DOMAIN stack
    BY <1>3
  <2>2. \A i \in DOMAIN stack : i > 1 => CalledIn(mf, shuf, stack[i]) = stack[i - 1].file
    BY <1>2 DEF WellStacked
  <2>3. 1 + 1 > 1 /\ (1 + 1) - 1 = 1
    OBVIOUS
  <2> QED BY <1>1, <2>1, <2>2, <2>3 DEF x
<1>12. StartingIn(mf, file', t, "returned")
  BY DEF StartingIn
<1> QED BY <1>6, <1>7, <1>9, <1>10, <1>11, <1>12 DEF TurnInv, t

\* The innermost activation has seen all its prerequisites.
LEMMA ActiveFacts ==
  ASSUME MakeInv, TurnInv, AllSeen
  PROVE  /\ Top = stack[1] /\ 1 \in DOMAIN stack /\ GroupsApart(mf) /\ GroupsAlike(mf)
         /\ file[Top.file].command_state \in {"not_started", "deps_running"}
         /\ ~DoneIn(file, Top.file) /\ file[Top.file].update_status = "none"
         /\ ~file[Top.file].updated
         /\ FrameWell(mf, shuf, file, Top) /\ OutcomesIn(file) /\ QuietIn(mf, file)
         /\ \A g \in Files : g # Top.file => NotStarted(Top.file)[g] = file[g]
         /\ NotStarted(Top.file)[Top.file].command_state = "not_started"
         /\ NotStarted(Top.file)[Top.file].update_status = "none"
         /\ ~NotStarted(Top.file)[Top.file].updated
         /\ NotStarted(Top.file)[Top.file].last_mtime = file[Top.file].last_mtime
<1> DEFINE x == Top.file
<1>1. /\ at = "deps" /\ stack # << >> /\ x \in Files /\ mf \in Makefiles
      /\ file \in [Files -> FileShape]
  BY AllSeenFacts
<1>2. Top = stack[1] /\ 1 \in DOMAIN stack
  BY <1>1, TopFacts
<1>3. file[x].command_state \notin Begun /\ ~DoneIn(file, x) /\ FrameWell(mf, shuf, file, Top)
  BY <1>1, <1>2, NotBegun, FrameOfStack
<1>4. OutcomesIn(file) /\ QuietIn(mf, file) /\ GroupsApart(mf) /\ GroupsAlike(mf)
  BY DEF TurnInv, MakeInv
<1>5. file[x] \in FileShape
  BY <1>1
<1>6. file[x].command_state \in {"not_started", "deps_running"}
  BY <1>3, <1>5 DEF FileShape, States, Begun
<1>7. file[x].update_status = "none" /\ ~file[x].updated
  BY <1>1, <1>4, <1>6 DEF OutcomesIn
<1> HIDE DEF x
<1>8. /\ \A g \in Files : g # x => NotStarted(x)[g] = file[g]
      /\ NotStarted(x)[x].command_state = "not_started"
      /\ NotStarted(x)[x].update_status = file[x].update_status
      /\ NotStarted(x)[x].updated = file[x].updated
      /\ NotStarted(x)[x].last_mtime = file[x].last_mtime
  <2>1. CASE file[x].command_state = "deps_running"
    <3> DEFINE hs == set_command_state(file, x, "not_started")
    <3>1. NotStarted(x) = hs
      BY <2>1 DEF NotStarted
    <3>2. /\ hs[x].command_state = "not_started" /\ hs[x].update_status = file[x].update_status
          /\ hs[x].updated = file[x].updated /\ hs[x].last_mtime = file[x].last_mtime
      BY <1>1, StateSet DEF States
    <3>3. \A g \in Files : g # x => hs[g] = file[g]
      BY <1>1, SetState DEF States
    <3> HIDE DEF hs
    <3> QED BY <3>1, <3>2, <3>3
  <2>2. CASE file[x].command_state # "deps_running"
    BY <1>6, <2>2 DEF NotStarted
  <2> QED BY <2>1, <2>2
<1> QED BY <1>2, <1>3, <1>4, <1>6, <1>7, <1>8 DEF x

\* Nothing is left ahead: each prerequisite that closes no circle was made.
LEMMA AllMade ==
  ASSUME MakeInv, TurnInv, Settles
  PROVE  /\ \A h \in GroupIn(mf, Top.file) : \A p \in Own(mf, h) :
               RealIn(mf, Top.file, p[2]) => Seen1(mf, file, Top, p)
         /\ MadeFirst(mf, file, Top.file)
<1>1. AllSeen /\ ~Top.running /\ Top.dep_status = "success" /\ Top.todo = << >> /\ Top.lists = << >>
  BY DEF Settles, AllSeen
<1>2. WalkedIn(mf, shuf, file, Top) /\ Top.file \in Files /\ mf \in Makefiles
  BY <1>1, ActiveFacts, AllSeenFacts DEF FrameWell
<1>3. ToSet(<< >>) = {}
  BY DEF ToSet
<1>4. \A p : ~Ahead(mf, shuf, Top, p)
  BY <1>1, <1>3 DEF Ahead
<1>5. \A h \in GroupIn(mf, Top.file) : \A p \in Own(mf, h) :
         RealIn(mf, Top.file, p[2]) => Seen1(mf, file, Top, p)
  BY <1>1, <1>2, <1>4 DEF WalkedIn
<1>6. ASSUME NEW d \in NeedsIn(mf, Top.file), RealIn(mf, Top.file, d) PROVE DoneIn(file, d)
  <2>1. PICK h \in GroupIn(mf, Top.file) : d \in ToSet(mf.deps[h])
    BY <1>6 DEF NeedsIn
  <2>2. PICK i \in DOMAIN mf.deps[h] : d = mf.deps[h][i]
    BY <2>1 DEF ToSet
  <2>3. <<h, d>> \in Own(mf, h)
    <3>1. ListedIn(mf, h)[i] = <<h, d>> /\ i \in DOMAIN ListedIn(mf, h)
      BY <2>2 DEF ListedIn
    <3> QED BY <3>1 DEF Own, ToSet
  <2>4. <<h, d>>[2] = d
    OBVIOUS
  <2>5. Seen1(mf, file, Top, <<h, d>>)
    BY <1>5, <1>6, <2>3, <2>4
  <2> QED BY <2>4, <2>5 DEF Seen1
<1> QED BY <1>5, <1>6 DEF MadeFirst

\* A grouped target with a recipe that needs no remaking is of a quiet group.
LEMMA QuietNow ==
  ASSUME MakeInv, TurnInv, Settles, ~MustMake, PeersIn(mf, Top.file) # {}, Top.file \in mf.cmds
  PROVE  Quiet(mf, file, Top.file)
<1>1. AllSeen
  BY DEF Settles
<1>2. /\ StampsIn(mf, file, Top) /\ Top.file \in Files /\ mf \in Makefiles /\ GroupsApart(mf)
  BY <1>1, ActiveFacts, AllSeenFacts DEF FrameWell
<1>3. ~Top.must_make
  BY DEF MustMake
<1>4. \A h \in GroupIn(mf, Top.file) : KnownMtime(file, h) /\ Top.this_mtime <= file[h].last_mtime
  BY <1>2, <1>3 DEF StampsIn, KnownMtime
<1>5. ASSUME NEW h \in GroupIn(mf, Top.file), NEW p \in Own(mf, h), p \notin mf.order_only
      PROVE  /\ DoneIn(file, p[2]) /\ KnownMtime(file, p[2])
             /\ file[p[2]].last_mtime <= Top.this_mtime /\ p[2] \in Files
  <2>1. h \in Files
    BY <1>2, ShapeOfMakefile
  <2>2. p[2] \in NeedsIn(mf, Top.file) /\ p[2] \in Files
    BY <1>2, <2>1, OwnNeeds
  <2>3. BelowIn(mf, p[2]) \subseteq UnderIn(mf, Top.file)
    BY <1>2, <2>2, UnderClosed
  <2>4. GroupIn(mf, Top.file) \cap UnderIn(mf, Top.file) = {}
    BY <1>2 DEF GroupsApart
  <2>5. RealIn(mf, Top.file, p[2])
    BY <2>3, <2>4 DEF RealIn
  <2>6. Seen1(mf, file, Top, p)
    BY <2>5, AllMade
  <2> QED BY <1>3, <1>5, <2>2, <2>6 DEF Seen1
<1>6. \A f \in Files : file[f].last_mtime \in Int
  <2>1. file \in [Files -> FileShape]
    BY <1>1, AllSeenFacts
  <2>2. \A f \in Files : file[f] \in FileShape
    BY <2>1
  <2> QED BY <2>2 DEF FileShape, UNKNOWN_MTIME
<1>7. Top.this_mtime \in Int
  <2>1. Top \in FrameShape
    BY <1>1, AllSeenFacts, TopFacts
  <2> QED BY <2>1 DEF FrameShape
<1>8. ASSUME NEW h \in GroupIn(mf, Top.file), NEW p \in Own(mf, h), p \notin mf.order_only,
             NEW k \in GroupIn(mf, Top.file)
      PROVE  file[p[2]].last_mtime <= file[k].last_mtime
  <2>1. k \in Files
    BY <1>2, ShapeOfMakefile
  <2>2. file[p[2]].last_mtime <= Top.this_mtime /\ p[2] \in Files
    BY <1>5, <1>8
  <2>3. Top.this_mtime <= file[k].last_mtime
    BY <1>4
  <2> QED BY <1>6, <1>7, <2>1, <2>2, <2>3
<1> QED BY <1>4, <1>5, <1>8 DEF Quiet

\* When a recipe has to run nobody of its group was made.
LEMMA NoneMade ==
  ASSUME MakeInv, TurnInv, Settles, MustMake, Top.file \in mf.cmds, NEW g \in GroupIn(mf, Top.file)
  PROVE  ~DoneIn(file, g)
<1> SUFFICES ASSUME DoneIn(file, g) PROVE FALSE
  OBVIOUS
<1>1. AllSeen
  BY DEF Settles
<1>2. /\ NoReason(mf, file, Top) /\ Top.file \in Files /\ mf \in Makefiles /\ GroupsApart(mf)
      /\ GroupsAlike(mf) /\ QuietIn(mf, file) /\ file[Top.file].command_state \notin Begun
  BY <1>1, ActiveFacts, AllSeenFacts DEF FrameWell, Begun
<1>3. ~Top.must_make
  BY <1>2 DEF NoReason
<1>4. PICK d \in NormalDeps(Top.file) : file_mtime(d) = NONEXISTENT_MTIME
  BY <1>3 DEF MustMake
<1>5. PICK p \in ToSet(deps[Top.file]) : p[2] = d /\ p \notin mf.order_only
  BY <1>4 DEF NormalDeps, Counts
<1>6. p \in Own(mf, Top.file)
  BY <1>2, <1>5 DEF MakeInv, ListsIn
<1>7. Quiet(mf, file, Top.file)
  BY <1>2, QuietGroup
<1>8. Top.file \in GroupIn(mf, Top.file)
  BY DEF GroupIn
<1>9. KnownMtime(file, d)
  BY <1>5, <1>6, <1>7, <1>8 DEF Quiet
<1> QED BY <1>4, <1>9 DEF KnownMtime, file_mtime, MtimeIn

LEMMA DepsRunningTurn == MakeInv /\ TurnInv /\ DepsRunning => TurnInv'
<1> SUFFICES ASSUME MakeInv, TurnInv, DepsRunning PROVE TurnInv'
  OBVIOUS
<1> DEFINE x == Top.file
           fs == set_command_state(file, x, "deps_running")
<1>1. AllSeen /\ Return(fs, "success") /\ UNCHANGED <<mf, shuf, deps, considered, children, runs>>
  BY DEF DepsRunning, fixed, world
<1>2. /\ at = "deps" /\ stack # << >> /\ x \in Files /\ mf \in Makefiles
      /\ file \in [Files -> FileShape]
  BY <1>1, AllSeenFacts
<1>3. /\ file[x].command_state \in {"not_started", "deps_running"} /\ ~DoneIn(file, x)
      /\ OutcomesIn(file) /\ QuietIn(mf, file) /\ GroupsApart(mf)
  BY <1>1, ActiveFacts
<1>4. fs \in [Files -> FileShape]
  BY <1>2, SetState DEF States
<1>5. /\ OnlyIn(GroupIn(mf, x), file, fs) /\ fs[x].command_state = "deps_running"
      /\ \A g \in Files :
            /\ fs[g].update_status = file[g].update_status
            /\ fs[g].updated = file[g].updated /\ fs[g].last_mtime = file[g].last_mtime
            /\ \/ g = x \/ fs[g].command_state = file[g].command_state
               \/ /\ fs[g].command_state = "deps_running"
                  /\ StateRank("deps_running") > StateRank(file[g].command_state)
  BY <1>2, StateSet DEF States
<1>6. /\ file' = [fs EXCEPT ![x].updating = FALSE] /\ stack' = Tail(stack) /\ at' = "returned"
  BY <1>1 DEF Return
<1> HIDE DEF fs, x
<1>7. ASSUME NEW g \in Files
      PROVE  \/ fs[g].command_state = file[g].command_state
             \/ fs[g].command_state = "deps_running" /\ file[g].command_state \notin Begun
  <2>1. file[g].command_state \in States
    <3>1. file[g] \in FileShape
      BY <1>2
    <3> QED BY <3>1 DEF FileShape
  <2>2. StateRank("deps_running") > StateRank(file[g].command_state)
           => file[g].command_state \notin Begun
    BY <2>1 DEF StateRank, Begun, States
  <2> QED BY <1>3, <1>5, <2>2 DEF Begun
<1>8. Steady(file, fs) /\ OutcomesIn(fs)
  BY <1>3, <1>5, <1>7 DEF Steady, OutcomesIn, DoneIn, Begun
<1>9. QuietIn(mf, fs)
  <2>1. ASSUME NEW h \in GroupIn(mf, x)
        PROVE  /\ file[h].last_mtime # UNKNOWN_MTIME => fs[h].last_mtime = file[h].last_mtime
               /\ file[h].command_state \in Begun => fs[h].command_state \in Begun
               /\ DoneIn(fs, h) => DoneIn(file, h)
    <3>1. h \in Files
      BY <1>2, ShapeOfMakefile
    <3> QED BY <1>5, <1>7, <3>1 DEF DoneIn, Begun
  <2> QED BY <1>2, <1>3, <1>5, <1>8, <2>1, QuietMoved
<1>10. TruthfulIn(fs, x, ret')
  BY <1>5 DEF TruthfulIn
<1>11. \A g \in Files : fs[g].command_state = "not_started" =>
                            g # x /\ file[g].command_state = "not_started"
  BY <1>5, <1>7
<1> QED BY <1>1, <1>2, <1>4, <1>5, <1>6, <1>8, <1>9, <1>10, <1>11, ReturnTurn DEF x

\* The file of the innermost activation gets its outcome alone.
LEMMA AloneTurn ==
  ASSUME MakeInv, TurnInv, AllSeen, NEW fs \in [Files -> FileShape],
         \A g \in Files : g # Top.file => fs[g] = file[g],
         fs[Top.file].command_state = "finished", fs[Top.file].updated,
         fs[Top.file].update_status \in {"success", "failed"},
         fs[Top.file].last_mtime = file[Top.file].last_mtime,
         NEW status, fs[Top.file].update_status = "failed" => status = "failed",
         \/ fs[Top.file].update_status = "failed" \/ PeersIn(mf, Top.file) = {}
         \/ Top.file \notin mf.cmds \/ Quiet(mf, file, Top.file),
         Return(fs, status), UNCHANGED <<mf, shuf, deps, considered, children, runs>>
  PROVE  TurnInv'
<1> DEFINE x == Top.file
<1>1. /\ at = "deps" /\ stack # << >> /\ x \in Files /\ mf \in Makefiles
      /\ file \in [Files -> FileShape]
  BY AllSeenFacts
<1>2. /\ ~DoneIn(file, x) /\ OutcomesIn(file) /\ QuietIn(mf, file) /\ GroupsApart(mf)
  BY ActiveFacts
<1>3. /\ file' = [fs EXCEPT ![x].updating = FALSE] /\ stack' = Tail(stack) /\ at' = "returned"
      /\ ret' = status
  BY DEF Return
<1>4. x \in GroupIn(mf, x) /\ GroupIn(mf, x) \subseteq Files
  BY <1>1, ShapeOfMakefile
<1>5. OnlyIn(GroupIn(mf, x), file, fs)
  BY <1>4 DEF OnlyIn
<1>6. Steady(file, fs)
  BY <1>2 DEF Steady, DoneIn
<1>7. OutcomesIn(fs)
  BY <1>2 DEF OutcomesIn
<1>8. QuietIn(mf, fs)
  <2>1. ASSUME Quiet(mf, file, x) PROVE Quiet(mf, fs, x)
    BY <1>1, <1>4, <1>6, <2>1, QuietKept
  <2>2. ASSUME NEW h \in GroupIn(mf, x)
        PROVE  /\ file[h].last_mtime # UNKNOWN_MTIME => fs[h].last_mtime = file[h].last_mtime
               /\ file[h].command_state \in Begun => fs[h].command_state \in Begun
               /\ DoneIn(fs, h) => \/ DoneIn(file, h)
                                   \/ h = x /\ (\/ PeersIn(mf, x) = {} \/ x \notin mf.cmds
                                                \/ Quiet(mf, fs, x))
    <3>1. h \in Files
      BY <1>4
    <3>2. CASE h = x
      BY <2>1, <3>2 DEF DoneIn, Begun
    <3>3. CASE h # x
      BY <3>1, <3>3 DEF DoneIn
    <3> QED BY <3>2, <3>3
  <2> HIDE DEF x
  <2> QED BY <1>1, <1>2, <1>5, <1>6, <2>2, QuietMoved
<1>9. TruthfulIn(fs, x, ret')
  BY <1>3 DEF TruthfulIn, DoneIn
<1>10. \A g \in Files : fs[g].command_state = "not_started" =>
                            g # x /\ file[g].command_state = "not_started"
  OBVIOUS
<1> QED BY <1>1, <1>3, <1>5, <1>6, <1>7, <1>8, <1>9, <1>10, ReturnTurn

LEMMA GiveUpTurn == MakeInv /\ TurnInv /\ GiveUp => TurnInv'
<1> SUFFICES ASSUME MakeInv, TurnInv, GiveUp PROVE TurnInv'
  OBVIOUS
<1> DEFINE fs == Finish(file, Top.file, "failed")
<1>1. AllSeen /\ Return(fs, "failed") /\ UNCHANGED <<mf, shuf, deps, considered, children, runs>>
  BY DEF GiveUp, fixed, world
<1>2. /\ Top.file \in Files /\ file \in [Files -> FileShape] /\ mf \in Makefiles
      /\ disk \in [Files -> Nat] /\ file[Top.file].command_state # "running"
  BY <1>1, AllSeenFacts, ActiveFacts
<1>3. fs \in [Files -> FileShape]
  BY <1>2, Finished DEF Statuses
<1>4. /\ \A g \in Files : g # Top.file => fs[g] = file[g]
      /\ fs[Top.file].command_state = "finished" /\ fs[Top.file].updated
      /\ fs[Top.file].update_status = "failed"
      /\ fs[Top.file].last_mtime = file[Top.file].last_mtime
  BY <1>2, FinishedAlone
<1> HIDE DEF fs
<1> QED BY <1>1, <1>3, <1>4, AloneTurn

LEMMA NoNeedToRemakeTurn == MakeInv /\ TurnInv /\ NoNeedToRemake => TurnInv'
<1> SUFFICES ASSUME MakeInv, TurnInv, NoNeedToRemake PROVE TurnInv'
  OBVIOUS
<1> DEFINE x == Top.file
           hs == NotStarted(x)
           fs == notice_finished_file(hs, x)
<1>1. /\ AllSeen /\ Settles /\ ~MustMake /\ Return(fs, "success")
      /\ UNCHANGED <<mf, shuf, deps, considered, children, runs>>
  BY DEF NoNeedToRemake, Settles, fixed, world
<1>2. /\ x \in Files /\ mf \in Makefiles /\ disk \in [Files -> Nat] /\ hs \in [Files -> FileShape]
  BY <1>1, AllSeenFacts
<1>3. /\ \A g \in Files : g # x => hs[g] = file[g]
      /\ hs[x].command_state = "not_started" /\ hs[x].update_status = "none"
      /\ hs[x].last_mtime = file[x].last_mtime
  BY <1>1, ActiveFacts
<1> HIDE DEF hs
<1>4. fs \in [Files -> FileShape]
  BY <1>2, Noticed
<1>5. /\ \A g \in Files : g # x => fs[g] = hs[g]
      /\ fs[x].command_state = "finished" /\ fs[x].updated
      /\ fs[x].update_status = "success" /\ fs[x].last_mtime = hs[x].last_mtime
  BY <1>2, <1>3, NoticedAlone
<1> HIDE DEF fs
<1>6. PeersIn(mf, x) = {} \/ x \notin mf.cmds \/ Quiet(mf, file, x)
  BY <1>1, QuietNow
<1>7. /\ \A g \in Files : g # x => fs[g] = file[g]
      /\ fs[x].last_mtime = file[x].last_mtime
  BY <1>3, <1>5
<1> QED BY <1>1, <1>4, <1>5, <1>6, <1>7, AloneTurn

LEMMA RemakeWithoutRecipeTurn == MakeInv /\ TurnInv /\ RemakeWithoutRecipe => TurnInv'
<1> SUFFICES ASSUME MakeInv, TurnInv, RemakeWithoutRecipe PROVE TurnInv'
  OBVIOUS
<1> DEFINE x == Top.file
           status == IF x \in mf.phony \cup mf.is_target THEN "success" ELSE "failed"
           hs == NotStarted(x)
           fs == Finish(hs, x, status)
<1>1. /\ AllSeen /\ status \in {"success", "failed"} /\ x \notin mf.cmds
      /\ UNCHANGED <<mf, shuf, deps, considered, children, runs>>
  BY DEF RemakeWithoutRecipe, Settles, fixed, world
<1>2. CASE status = "failed" /\ ~keep_going_flag
  <2>1. at' = "die" /\ file' = file /\ stack' = stack
    BY <1>2 DEF RemakeWithoutRecipe
  <2>2. Same(file, file') /\ CircularIn(mf, shuf, deps') /\ ConsideredIn(file', considered', stack')
    BY <1>1, <2>1 DEF Same, TurnInv
  <2>3. FreshIn(file', stack', at') /\ AnsweredIn(mf, shuf, file', stack', at', ret')
    BY <2>1 DEF FreshIn, AnsweredIn
  <2>4. FramesIn(mf, shuf, file', stack', at') /\ StartingIn(mf, file', stack', at')
    BY <2>1 DEF FramesIn, StartingIn
  <2> QED BY <1>1, <2>2, <2>3, <2>4, SameTurn
<1>3. CASE ~(status = "failed" /\ ~keep_going_flag)
  <2>1. Return(fs, status)
    BY <1>3 DEF RemakeWithoutRecipe
  <2>2. /\ x \in Files /\ mf \in Makefiles /\ disk \in [Files -> Nat] /\ hs \in [Files -> FileShape]
    BY <1>1, AllSeenFacts
  <2>3. /\ \A g \in Files : g # x => hs[g] = file[g]
        /\ hs[x].command_state = "not_started" /\ hs[x].last_mtime = file[x].last_mtime
    BY <1>1, ActiveFacts
  <2> HIDE DEF hs, status
  <2>4. fs \in [Files -> FileShape]
    BY <1>1, <2>2, Finished DEF Statuses
  <2>5. /\ \A g \in Files : g # x => fs[g] = hs[g]
        /\ fs[x].command_state = "finished" /\ fs[x].updated
        /\ fs[x].update_status = status /\ fs[x].last_mtime = hs[x].last_mtime
    BY <1>1, <2>2, <2>3, FinishedAlone
  <2> HIDE DEF fs
  <2>6. /\ \A g \in Files : g # x => fs[g] = file[g]
        /\ fs[x].last_mtime = file[x].last_mtime
    BY <2>3, <2>5
  <2> QED BY <1>1, <2>1, <2>4, <2>5, <2>6, AloneTurn
<1> QED BY <1>2, <1>3

\* An empty recipe makes its whole group at once.
LEMMA RemakeEmptyTurn ==
  ASSUME MakeInv, TurnInv, remake_file, Top.file \in mf.empty
  PROVE  TurnInv'
<1> DEFINE x == Top.file
           hs == NotStarted(x)
           gs == set_command_state(hs, x, "running")
           fs == Finish(gs, x, "success")
<1>1. /\ AllSeen /\ Settles /\ MustMake /\ x \in mf.cmds /\ Return(fs, "success")
      /\ UNCHANGED <<mf, shuf, deps, considered, children, runs>>
  BY DEF remake_file, Settles, fixed, world
<1>2. /\ x \in Files /\ mf \in Makefiles /\ disk \in [Files -> Nat] /\ hs \in [Files -> FileShape]
      /\ file \in [Files -> FileShape] /\ at = "deps" /\ stack # << >>
  BY <1>1, AllSeenFacts
<1>3. /\ \A g \in Files : g # x => hs[g] = file[g]
      /\ OutcomesIn(file) /\ QuietIn(mf, file) /\ GroupsApart(mf)
  BY <1>1, ActiveFacts
<1>4. /\ file' = [fs EXCEPT ![x].updating = FALSE] /\ stack' = Tail(stack) /\ at' = "returned"
      /\ ret' = "success"
  BY <1>1 DEF Return
<1>5. x \in GroupIn(mf, x)
  BY <1>2, ShapeOfMakefile
<1>6. \A g \in GroupIn(mf, x) : ~DoneIn(file, g)
  BY <1>1, NoneMade
<1> HIDE DEF hs
<1>7. gs \in [Files -> FileShape] /\ gs[x].command_state = "running" /\ OnlyIn(GroupIn(mf, x), hs, gs)
  <2>1. gs \in [Files -> FileShape]
    BY <1>2, SetState DEF States
  <2>2. gs[x].command_state = "running" /\ OnlyIn(GroupIn(mf, x), hs, gs)
    BY <1>2, StateSet DEF States
  <2> QED BY <2>1, <2>2
<1> HIDE DEF gs
<1>8. /\ fs \in [Files -> FileShape] /\ OnlyIn(GroupIn(mf, x), gs, fs)
      /\ \A g \in GroupIn(mf, x) : /\ fs[g].command_state = "finished" /\ fs[g].updated
                                   /\ fs[g].update_status = "success"
  BY <1>2, <1>7, Finished, FinishedTogether DEF Statuses
<1> HIDE DEF fs, x
<1>9. OnlyIn(GroupIn(mf, x), file, fs)
  BY <1>3, <1>5, <1>7, <1>8 DEF OnlyIn
<1>10. Steady(file, fs) /\ OutcomesIn(fs)
  BY <1>3, <1>6, <1>8, <1>9 DEF Steady, OutcomesIn, OnlyIn, DoneIn
<1>11. QuietIn(mf, fs)
  <2>1. \A h \in GroupIn(mf, x) : fs[h].command_state \in Begun
    BY <1>8 DEF Begun
  <2> QED BY <1>2, <1>3, <1>9, <1>10, <2>1, QuietMoved
<1>12. TruthfulIn(fs, x, ret')
  BY <1>5, <1>8 DEF TruthfulIn, DoneIn
<1>13. \A g \in Files : fs[g].command_state = "not_started" =>
                            g # x /\ file[g].command_state = "not_started"
  BY <1>5, <1>8, <1>9 DEF OnlyIn
<1> QED BY <1>1, <1>2, <1>4, <1>8, <1>9, <1>10, <1>11, <1>12, <1>13, ReturnTurn DEF x

\* Children of other groups stand, as nobody of this one was started.
LEMMA OtherChildren ==
  ASSUME MakeInv, TurnInv, at \in {"deps", "new_job"}, stack # << >>, NEW gs,
         OnlyIn(GroupIn(mf, Top.file), file, gs), Steady(file, gs)
  PROVE  ChildrenIn(mf, gs, runs, DOMAIN children) /\ Top.file \notin DOMAIN children
<1>1. Top = stack[1] /\ 1 \in DOMAIN stack /\ Top.file \in Files
  BY TopFacts
<1>2. mf \in Makefiles /\ GroupsApart(mf) /\ DOMAIN children \subseteq Files
  BY DEF MakeInv, MakeTypes, WorldTypes
<1>3. NoneRan(mf, runs, Top.file) /\ Top.file \in GroupIn(mf, Top.file)
  BY <1>1, <1>2, ShapeOfMakefile DEF MakeInv, RunsIn
<1>4. ~(0 > 0)
  OBVIOUS
<1>5. \A c \in DOMAIN children : c \notin GroupIn(mf, Top.file)
  BY <1>3, <1>4 DEF NoneRan, TurnInv, ChildrenIn
<1> QED BY <1>1, <1>2, <1>3, <1>5, ChildMoved DEF TurnInv

LEMMA RemakeFileTurn == MakeInv /\ TurnInv /\ remake_file => TurnInv'
<1> SUFFICES ASSUME MakeInv, TurnInv, remake_file, Top.file \notin mf.empty PROVE TurnInv'
  BY RemakeEmptyTurn
<1> DEFINE x == Top.file
           hs == NotStarted(x)
<1>1. /\ AllSeen /\ Settles /\ MustMake /\ x \in mf.cmds
      /\ file' = [hs EXCEPT ![x].updating = FALSE] /\ at' = "new_job" /\ stack' = stack
      /\ UNCHANGED <<mf, shuf, deps, considered, children, runs>>
  BY DEF remake_file, Settles, fixed, world
<1>2. /\ x \in Files /\ mf \in Makefiles /\ hs \in [Files -> FileShape]
      /\ at = "deps" /\ stack # << >> /\ Top = stack[1]
  BY <1>1, AllSeenFacts, ActiveFacts
<1>3. /\ \A g \in Files : g # x => hs[g] = file[g]
      /\ hs[x].command_state = "not_started" /\ hs[x].update_status = "none"
      /\ ~hs[x].updated /\ hs[x].last_mtime = file[x].last_mtime
      /\ ~DoneIn(file, x) /\ OutcomesIn(file) /\ QuietIn(mf, file) /\ GroupsApart(mf)
      /\ file[x].command_state \in {"not_started", "deps_running"}
  BY <1>1, ActiveFacts
<1>4. x \in GroupIn(mf, x) /\ GroupIn(mf, x) \subseteq Files
  BY <1>2, ShapeOfMakefile
<1>5. (\A g \in GroupIn(mf, x) : ~DoneIn(file, g)) /\ MadeFirst(mf, file, x)
  BY <1>1, NoneMade, AllMade
<1> HIDE DEF hs, x
<1>6. Like(hs, file') /\ \A g \in Files : g # x => file'[g] = hs[g]
  BY <1>1, <1>2, ClearedLike, Cleared
<1>7. /\ \A g \in Files : g # x => file'[g] = file[g]
      /\ file'[x].command_state = "not_started" /\ file'[x].update_status = "none"
      /\ ~file'[x].updated /\ file'[x].last_mtime = file[x].last_mtime
  BY <1>2, <1>3, <1>6 DEF Like
<1>8. OnlyIn(GroupIn(mf, x), file, file') /\ Steady(file, file') /\ OutcomesIn(file')
  BY <1>3, <1>4, <1>7 DEF OnlyIn, Steady, OutcomesIn, DoneIn
<1>9. \A g \in GroupIn(mf, x) : ~DoneIn(file', g)
  BY <1>4, <1>5, <1>7 DEF DoneIn
<1>10. QuietIn(mf, file')
  <2>1. \A h \in GroupIn(mf, x) :
           /\ file[h].last_mtime # UNKNOWN_MTIME => file'[h].last_mtime = file[h].last_mtime
           /\ file[h].command_state \in Begun => file'[h].command_state \in Begun
           /\ ~DoneIn(file', h)
    BY <1>3, <1>4, <1>7, <1>9 DEF Begun
  <2> QED BY <1>2, <1>3, <1>8, <2>1, QuietMoved
<1>11. ChildrenIn(mf, file', runs, DOMAIN children)
  BY <1>2, <1>8, OtherChildren DEF x
<1>12. ASSUME NEW i \in DOMAIN stack, i # 1
       PROVE  FrameWell(mf, shuf, file', stack[i]) /\ file'[stack[i].file].command_state \notin Begun
  <2>1. FrameWell(mf, shuf, file, stack[i]) /\ file[stack[i].file].command_state \notin Begun
    BY <1>2, FrameOfStack, NotBegun
  <2>2. FrameWell(mf, shuf, file', stack[i]) /\ file'[stack[i].file] = file[stack[i].file]
    BY <1>2, <1>8, <1>12, <2>1, OthersMoved DEF x
  <2> QED BY <2>1, <2>2
<1>13. FreshIn(file', stack', at') /\ FramesIn(mf, shuf, file', stack', at')
  <2>1. file'[stack[1].file].command_state \notin Begun
    BY <1>2, <1>7 DEF Begun, x
  <2> QED BY <1>1, <1>12, <2>1 DEF FreshIn, FramesIn
<1>14. ConsideredIn(file', considered', stack')
  <2> SUFFICES ASSUME NEW g \in considered, file'[g].command_state = "not_started"
               PROVE  \E i \in DOMAIN stack : stack[i].file = g
    BY <1>1 DEF ConsideredIn
  <2>1. CASE g = x
    <3>1. 1 \in DOMAIN stack
      BY <1>1, ActiveFacts
    <3> QED BY <1>2, <2>1, <3>1 DEF x
  <2>2. CASE g # x
    <3>1. g \in Files
      BY DEF MakeInv, MakeTypes
    <3>2. file[g].command_state = "not_started"
      BY <1>7, <2>2, <3>1
    <3> QED BY <3>2 DEF TurnInv, ConsideredIn
  <2> QED BY <2>1, <2>2
<1>15. StartingIn(mf, file', stack', at')
  <2>1. MadeFirst(mf, file', x)
    BY <1>2, <1>5, <1>8, MadeFirstKept
  <2> QED BY <1>1, <1>2, <1>9, <2>1 DEF StartingIn, x
<1>16. AnsweredIn(mf, shuf, file', stack', at', ret')
  BY <1>1 DEF AnsweredIn
<1> QED BY <1>1, <1>8, <1>10, <1>11, <1>13, <1>14, <1>15, <1>16 DEF TurnInv

----------------------------------------------------------------------------
(***************************************************************************)
(* Recipes start and end                                                   *)
(***************************************************************************)
LEMMA StartedTurn == MakeInv /\ TurnInv /\ Started => TurnInv'
<1> SUFFICES ASSUME MakeInv, TurnInv, Started PROVE TurnInv'
  OBVIOUS
<1> DEFINE x == Top.file
           t == Tail(stack)
<1>1. /\ at \in {"started", "linear"} /\ stack # << >> /\ stack' = t /\ ret' = Answer(x)
      /\ at' = "returned" /\ file' = file
      /\ UNCHANGED <<mf, shuf, deps, considered, children, runs>>
  BY DEF Started, MakeInv, WhereIn, fixed, world
<1>2. /\ stack \in Seq(FrameShape) /\ Top = stack[1] /\ 1 \in DOMAIN stack /\ x \in Files
  BY <1>1, TopFacts
<1>3. /\ t \in Seq(FrameShape) /\ DOMAIN t \subseteq Nat \ {0}
      /\ \A i \in DOMAIN t : i + 1 \in DOMAIN stack /\ t[i] = stack[i + 1] /\ i + 1 # 1
      /\ \A i \in DOMAIN stack : i # 1 => i - 1 \in DOMAIN t /\ stack[i] = t[i - 1]
  BY <1>1, <1>2, TopOf
<1>4. file \in [Files -> FileShape] /\ considered \subseteq Files
      /\ WellStacked(mf, shuf, deps, stack)
  BY DEF MakeInv, MakeTypes
<1>5. /\ file[x].command_state \in Begun
      /\ \A i \in DOMAIN stack : i # 1 => /\ file[stack[i].file].command_state \notin Begun
                                          /\ FrameWell(mf, shuf, file, stack[i])
  BY <1>1, <1>2 DEF TurnInv, FreshIn, FramesIn
<1> HIDE DEF t, x
<1>6. Same(file, file') /\ CircularIn(mf, shuf, deps')
  BY <1>1 DEF Same, TurnInv
<1>7. ConsideredIn(file', considered', stack')
  <2> SUFFICES ASSUME NEW g \in considered, file[g].command_state = "not_started"
               PROVE  \E i \in DOMAIN t : t[i].file = g
    BY <1>1 DEF ConsideredIn
  <2>1. g # x
    BY <1>5 DEF Begun
  <2>2. PICK i \in DOMAIN stack : stack[i].file = g
    BY DEF TurnInv, ConsideredIn
  <2>3. i # 1
    BY <1>2, <2>1, <2>2 DEF x
  <2> QED BY <1>3, <2>2, <2>3
<1>8. FreshIn(file', stack', at') /\ FramesIn(mf, shuf, file', stack', at')
  <2>1. \A i \in DOMAIN t : /\ file[t[i].file].command_state \notin Begun
                            /\ FrameWell(mf, shuf, file, t[i])
    BY <1>3, <1>5
  <2> QED BY <1>1, <2>1 DEF FreshIn, FramesIn
<1>9. AnsweredIn(mf, shuf, file', stack', at', ret')
  <2> SUFFICES ASSUME t # << >> PROVE TruthfulIn(file, CalledIn(mf, shuf, t[1]), Answer(x))
    BY <1>1 DEF AnsweredIn
  <2>1. 1 \in DOMAIN t /\ t[1] = stack[1 + 1] /\ 1 + 1 \in DOMAIN stack
    BY <1>3
  <2>2. \A i \in DOMAIN stack : i > 1 => CalledIn(mf, shuf, stack[i]) = stack[i - 1].file
    BY <1>4 DEF WellStacked
  <2>3. 1 + 1 > 1 /\ (1 + 1) - 1 = 1
    OBVIOUS
  <2>4. CalledIn(mf, shuf, t[1]) = x
    BY <1>2, <2>1, <2>2, <2>3 DEF x
  <2>5. file[x] \in FileShape
    BY <1>2, <1>4 DEF x
  <2>6. file[x].command_state = "finished" => file[x].update_status \in {"success", "failed"}
    BY <1>2, <2>5 DEF TurnInv, OutcomesIn, FileShape, Statuses, x
  <2>7. TruthfulIn(file, x, Answer(x))
    BY <1>5, <2>6 DEF TruthfulIn, DoneIn, Answer, Begun
  <2> QED BY <2>4, <2>7
<1>10. StartingIn(mf, file', stack', at')
  BY <1>1 DEF StartingIn
<1> QED BY <1>1, <1>6, <1>7, <1>8, <1>9, <1>10, SameTurn

LEMMA NewJobTurn == MakeInv /\ TurnInv /\ new_job => TurnInv'
<1> SUFFICES ASSUME MakeInv, TurnInv, new_job PROVE TurnInv'
  OBVIOUS
<1> DEFINE x == Top.file
           gs == set_command_state(file, x, "running")
           rs == [runs EXCEPT ![x] = @ + 1]
<1>1. at = "new_job" /\ stack # << >>
  BY DEF new_job, MakeInv, WhereIn
<1>2. /\ stack \in Seq(FrameShape) /\ Top = stack[1] /\ 1 \in DOMAIN stack /\ x \in Files
  BY <1>1, TopFacts
<1>3. /\ mf \in Makefiles /\ GroupsApart(mf) /\ file \in [Files -> FileShape]
      /\ runs \in [Files -> Nat] /\ considered \subseteq Files
      /\ OutcomesIn(file) /\ QuietIn(mf, file) /\ DOMAIN children \subseteq Files
  BY DEF MakeInv, MakeTypes, WorldTypes, TurnInv
<1>4. /\ file' = gs /\ runs' = rs /\ at' \in {"linear", "started"} /\ stack' = stack
      /\ DOMAIN children' = DOMAIN children \cup {x}
      /\ UNCHANGED <<mf, shuf, deps, considered, ret>>
  BY DEF new_job, fixed, goalVars
<1>5. x \in GroupIn(mf, x) /\ GroupIn(mf, x) \subseteq Files
  BY <1>2, <1>3, ShapeOfMakefile
<1>6. /\ MadeFirst(mf, file, x) /\ \A g \in GroupIn(mf, x) : ~DoneIn(file, g)
      /\ file[x].command_state \notin Begun
  BY <1>1, <1>2, NotBegun DEF TurnInv, StartingIn
<1> HIDE DEF x
<1>7. /\ gs \in [Files -> FileShape]
      /\ \A g \in GroupIn(mf, x) : gs[g].command_state \in Begun
  <2>1. "running" \in States /\ "running" \in Begun
    BY DEF States, Begun
  <2> QED BY <1>2, <1>3, <2>1, SetState DEF Group, x
<1>8. /\ OnlyIn(GroupIn(mf, x), file, gs) /\ gs[x].command_state = "running"
      /\ \A g \in Files :
            /\ gs[g].update_status = file[g].update_status
            /\ gs[g].updated = file[g].updated /\ gs[g].last_mtime = file[g].last_mtime
            /\ \/ g = x \/ gs[g].command_state = file[g].command_state
               \/ /\ gs[g].command_state = "running"
                  /\ StateRank("running") > StateRank(file[g].command_state)
  BY <1>2, <1>3, StateSet DEF States, x
<1>9. rs[x] > 0 /\ \A g \in Files : rs[g] >= runs[g]
  BY <1>2, <1>3 DEF x
<1> HIDE DEF gs, rs
<1>10. ASSUME NEW g \in Files
       PROVE  \/ gs[g].command_state = file[g].command_state
              \/ gs[g].command_state = "running" /\ file[g].command_state \notin Begun
  <2>1. file[g].command_state \in States
    <3>1. file[g] \in FileShape
      BY <1>3
    <3> QED BY <3>1 DEF FileShape
  <2>2. StateRank("running") > StateRank(file[g].command_state)
           => file[g].command_state \notin Begun
    BY <2>1 DEF StateRank, Begun, States
  <2> QED BY <1>6, <1>8, <2>2
<1>11. Steady(file, gs) /\ OutcomesIn(gs)
  BY <1>3, <1>8, <1>10 DEF Steady, OutcomesIn, DoneIn, Begun
<1>12. \A g \in Files : DoneIn(gs, g) => DoneIn(file, g)
  BY <1>8, <1>10 DEF DoneIn
<1>13. QuietIn(mf, gs)
  BY <1>2, <1>3, <1>7, <1>8, <1>11, QuietMoved DEF x
<1>14. ChildrenIn(mf, gs, rs, DOMAIN children \cup {x})
  <2> SUFFICES ASSUME NEW c \in DOMAIN children \cup {x}
               PROVE  /\ rs[c] > 0 /\ gs[c].command_state = "running" /\ MadeFirst(mf, gs, c)
                      /\ \A g \in GroupIn(mf, c) : gs[g].command_state \in Begun /\ ~DoneIn(gs, g)
    BY DEF ChildrenIn
  <2>1. CASE c = x
    <3>1. MadeFirst(mf, gs, x)
      BY <1>2, <1>3, <1>6, <1>11, MadeFirstKept DEF x
    <3> QED BY <1>5, <1>6, <1>7, <1>8, <1>9, <1>12, <2>1, <3>1
  <2>2. CASE c \in DOMAIN children
    <3>1. ChildrenIn(mf, gs, runs, DOMAIN children)
      BY <1>1, <1>8, <1>11, OtherChildren DEF x
    <3>2. /\ runs[c] > 0 /\ gs[c].command_state = "running" /\ MadeFirst(mf, gs, c)
          /\ \A g \in GroupIn(mf, c) : gs[g].command_state \in Begun /\ ~DoneIn(gs, g)
      BY <2>2, <3>1 DEF ChildrenIn
    <3>3. runs[c] \in Nat /\ rs[c] >= runs[c] /\ c \in Files
      BY <1>3, <1>9, <2>2
    <3>4. rs[c] > 0
      BY <1>9, <2>2, <3>2, <3>3, <1>4, <1>2, <1>3 DEF rs, x
    <3> QED BY <3>2, <3>4
  <2> QED BY <2>1, <2>2
<1>15. ASSUME NEW i \in DOMAIN stack, i # 1
       PROVE  FrameWell(mf, shuf, gs, stack[i]) /\ gs[stack[i].file].command_state \notin Begun
  <2>1. FrameWell(mf, shuf, file, stack[i]) /\ file[stack[i].file].command_state \notin Begun
    BY <1>1, <1>15, NotBegun DEF TurnInv, FramesIn
  <2>2. FrameWell(mf, shuf, gs, stack[i]) /\ gs[stack[i].file] = file[stack[i].file]
    BY <1>1, <1>8, <1>11, <1>15, <2>1, OthersMoved DEF x
  <2> QED BY <2>1, <2>2
<1>16. FreshIn(gs, stack, at') /\ FramesIn(mf, shuf, gs, stack, at')
  <2>1. gs[stack[1].file].command_state \in Begun
    BY <1>2, <1>8 DEF Begun, x
  <2> QED BY <1>4, <1>15, <2>1 DEF FreshIn, FramesIn
<1>17. ConsideredIn(gs, considered, stack)
  <2> SUFFICES ASSUME NEW g \in considered, gs[g].command_state = "not_started"
               PROVE  \E i \in DOMAIN stack : stack[i].file = g
    BY DEF ConsideredIn
  <2>1. file[g].command_state = "not_started"
    BY <1>3, <1>10
  <2> QED BY <2>1 DEF TurnInv, ConsideredIn
<1>18. AnsweredIn(mf, shuf, gs, stack, at', ret) /\ StartingIn(mf, gs, stack, at')
  BY <1>4 DEF AnsweredIn, StartingIn
<1> QED BY <1>4, <1>11, <1>13, <1>14, <1>16, <1>17, <1>18 DEF TurnInv

LEMMA ReapChildrenTurn == MakeInv /\ TurnInv /\ reap_children => TurnInv'
<1> SUFFICES ASSUME MakeInv, TurnInv, reap_children PROVE TurnInv'
  OBVIOUS
<1>1. PICK c \in DeadChildren :
         /\ file' = Finish(file, c, IF children[c] = "won" THEN "success" ELSE "failed")
         /\ children' = [x \in DOMAIN children \ {c} |-> children[x]]
         /\ at' \in {"die", at}
  BY DEF reap_children
<1> DEFINE status == IF children[c] = "won" THEN "success" ELSE "failed"
           gs == Finish(file, c, status)
<1>2. /\ UNCHANGED <<mf, shuf, deps, considered, stack, ret, runs>>
      /\ at \in {"pass", "new_job", "linear", "die"}
      /\ DOMAIN children' = DOMAIN children \ {c} /\ c \in DOMAIN children
      /\ status \in {"success", "failed"}
  BY <1>1 DEF reap_children, fixed, DeadChildren
<1>3. /\ mf \in Makefiles /\ GroupsApart(mf) /\ file \in [Files -> FileShape] /\ disk \in [Files -> Nat]
      /\ c \in Files /\ DOMAIN children \subseteq Files /\ considered \subseteq Files
      /\ WellStacked(mf, shuf, deps, stack)
      /\ OutcomesIn(file) /\ QuietIn(mf, file) /\ RunsOnceIn(mf, runs)
  BY <1>2 DEF MakeInv, MakeTypes, WorldTypes, TurnInv, RunsIn
<1>4. /\ runs[c] > 0 /\ file[c].command_state = "running"
      /\ \A g \in GroupIn(mf, c) : file[g].command_state \in Begun /\ ~DoneIn(file, g)
  BY <1>2 DEF TurnInv, ChildrenIn
<1>5. c \in GroupIn(mf, c) /\ GroupIn(mf, c) \subseteq Files
  BY <1>3, ShapeOfMakefile
<1> HIDE DEF status
<1>6. /\ OnlyIn(GroupIn(mf, c), file, gs)
      /\ \A g \in GroupIn(mf, c) : /\ gs[g].command_state = "finished" /\ gs[g].updated
                                   /\ gs[g].update_status = status
  BY <1>2, <1>3, <1>4, FinishedTogether
<1>7. file' = gs
  BY <1>1 DEF status
<1> HIDE DEF gs
<1>8. Steady(file, gs) /\ OutcomesIn(gs)
  <2>1. ASSUME NEW d \in Files, DoneIn(file, d) PROVE gs[d] = file[d]
    <3>1. d \notin GroupIn(mf, c)
      BY <1>4, <2>1
    <3> QED BY <1>6, <3>1 DEF OnlyIn
  <2>2. Steady(file, gs)
    BY <2>1 DEF Steady, DoneIn
  <2>3. ASSUME NEW g \in Files
        PROVE  /\ gs[g].command_state = "finished" <=> gs[g].update_status # "none"
               /\ gs[g].updated <=> gs[g].command_state = "finished"
    <3>1. CASE g \in GroupIn(mf, c)
      BY <1>2, <1>6, <3>1
    <3>2. CASE g \notin GroupIn(mf, c)
      <4>1. gs[g] = file[g]
        BY <1>6, <3>2 DEF OnlyIn
      <4> QED BY <1>3, <4>1 DEF OutcomesIn
    <3> QED BY <3>1, <3>2
  <2>4. OutcomesIn(gs)
    BY <2>3 DEF OutcomesIn
  <2> QED BY <2>2, <2>4
<1>9. QuietIn(mf, gs)
  <2>1. \A h \in GroupIn(mf, c) : gs[h].command_state \in Begun
    BY <1>6 DEF Begun
  <2> QED BY <1>3, <1>6, <1>8, <2>1, QuietMoved
<1>10. ChildrenIn(mf, gs, runs, DOMAIN children \ {c})
  <2>1. ASSUME NEW b \in DOMAIN children \ {c} PROVE b \notin GroupIn(mf, c)
    <3>1. runs[b] > 0
      BY DEF TurnInv, ChildrenIn
    <3> QED BY <1>3, <1>4, <1>5, <3>1 DEF RunsOnceIn
  <2>2. ChildrenIn(mf, file, runs, DOMAIN children)
    BY DEF TurnInv
  <2>3. DOMAIN children \ {c} \subseteq DOMAIN children /\ DOMAIN children \ {c} \subseteq Files
    BY <1>3
  <2> QED BY <1>3, <1>6, <1>8, <2>1, <2>2, <2>3, ChildMoved
<1>11. ConsideredIn(gs, considered, stack)
  <2> SUFFICES ASSUME NEW g \in considered, gs[g].command_state = "not_started"
               PROVE  \E i \in DOMAIN stack : stack[i].file = g
    BY DEF ConsideredIn
  <2>1. g \in Files /\ g \notin GroupIn(mf, c)
    BY <1>3, <1>6
  <2>2. file[g].command_state = "not_started"
    BY <1>6, <2>1 DEF OnlyIn
  <2> QED BY <2>2 DEF TurnInv, ConsideredIn
\* Who has not begun is not of the group that ends.
<1>12. ASSUME NEW i \in DOMAIN stack, file[stack[i].file].command_state \notin Begun
       PROVE  /\ c \notin GroupIn(mf, stack[i].file) /\ stack[i] \in FrameShape
              /\ stack[i].file \in Files /\ gs[stack[i].file] = file[stack[i].file]
  <2>1. stack[i] \in FrameShape
    BY <1>3 DEF WellStacked
  <2>2. stack[i].file \in Files
    BY <2>1 DEF FrameShape
  <2>3. stack[i].file \notin GroupIn(mf, c)
    BY <1>4, <1>12
  <2>4. ASSUME c \in GroupIn(mf, stack[i].file) PROVE FALSE
    BY <1>3, <2>2, <2>3, <2>4, SameGroup
  <2> QED BY <1>6, <2>1, <2>2, <2>3, <2>4 DEF OnlyIn
<1>13. FreshIn(gs, stack, at')
  <2> SUFFICES ASSUME at' # "die" PROVE FreshIn(gs, stack, at)
    BY <1>1 DEF FreshIn
  <2>1. at' = at /\ at # "die" /\ FreshIn(file, stack, at)
    BY <1>1 DEF TurnInv
  <2>2. ASSUME NEW i \in DOMAIN stack
        PROVE  \/ gs[stack[i].file].command_state \notin Begun
               \/ i = 1 /\ at \in {"started", "linear"}
    <3>1. CASE file[stack[i].file].command_state \notin Begun
      BY <1>12, <3>1
    <3>2. CASE i = 1 /\ at \in {"started", "linear"}
      BY <3>2
    <3> QED BY <1>2, <2>1, <3>1, <3>2 DEF FreshIn
  <2>3. ASSUME at \in {"started", "linear"} PROVE gs[stack[1].file].command_state \in Begun
    <3>1. stack[1].file \in Files
      BY <2>3, TopFacts DEF MakeInv, WhereIn
    <3>2. file[stack[1].file].command_state \in Begun
      BY <2>1, <2>3 DEF FreshIn
    <3>3. CASE stack[1].file \in GroupIn(mf, c)
      BY <1>6, <3>3 DEF Begun
    <3>4. CASE stack[1].file \notin GroupIn(mf, c)
      BY <1>6, <3>1, <3>2, <3>4 DEF OnlyIn
    <3> QED BY <3>3, <3>4
  <2> QED BY <2>2, <2>3 DEF FreshIn
<1>14. FramesIn(mf, shuf, gs, stack, at')
  <2> SUFFICES ASSUME at' # "die", NEW i \in DOMAIN stack
               PROVE  \/ FrameWell(mf, shuf, gs, stack[i])
                      \/ i = 1 /\ at \in {"new_job", "started", "linear"}
    BY <1>1 DEF FramesIn
  <2>1. at' = at /\ at \in {"pass", "new_job", "linear"}
    BY <1>1, <1>2
  <2>2. CASE i = 1
    <3>1. at # "pass"
      BY <2>2 DEF MakeInv, WhereIn
    <3> QED BY <2>1, <2>2, <3>1
  <2>3. CASE i # 1
    <3>1. file[stack[i].file].command_state \notin Begun
      BY <2>1, <2>3 DEF TurnInv, FreshIn
    <3>2. FrameWell(mf, shuf, file, stack[i])
      BY <2>1, <2>3 DEF TurnInv, FramesIn
    <3>3. PICK fr \in FrameShape : fr = stack[i] /\ c \notin GroupIn(mf, fr.file)
      BY <1>12, <3>1
    <3>4. FrameWell(mf, shuf, gs, fr)
      BY <1>3, <1>6, <1>8, <3>2, <3>3, FrameMoved
    <3> QED BY <3>3, <3>4
  <2> QED BY <2>2, <2>3
<1>15. StartingIn(mf, gs, stack, at')
  <2> SUFFICES ASSUME at' = "new_job"
               PROVE  /\ MadeFirst(mf, gs, stack[1].file)
                      /\ \A g \in GroupIn(mf, stack[1].file) : ~DoneIn(gs, g)
    BY DEF StartingIn
  <2>1. at = "new_job"
    BY <1>1
  <2>2. 1 \in DOMAIN stack
    BY <2>1, TopFacts DEF MakeInv, WhereIn
  <2>3. file[stack[1].file].command_state \notin Begun
    BY <2>1, <2>2, NotBegun
  <2>4. /\ MadeFirst(mf, file, stack[1].file)
        /\ \A g \in GroupIn(mf, stack[1].file) : ~DoneIn(file, g)
    BY <2>1 DEF TurnInv, StartingIn
  <2>5. stack[1].file \in Files /\ c \notin GroupIn(mf, stack[1].file)
    BY <1>12, <2>2, <2>3
  <2>6. \A g \in GroupIn(mf, stack[1].file) : gs[g] = file[g]
    <3>1. \A g \in GroupIn(mf, stack[1].file) : g \in Files /\ g \notin GroupIn(mf, c)
      BY <1>3, <2>5, GroupsDisjoint
    <3> QED BY <1>6, <3>1 DEF OnlyIn
  <2>7. MadeFirst(mf, gs, stack[1].file)
    BY <1>3, <1>8, <2>4, <2>5, MadeFirstKept
  <2> QED BY <2>4, <2>6, <2>7 DEF DoneIn
<1>16. AnsweredIn(mf, shuf, gs, stack, at', ret)
  BY <1>1, <1>2 DEF AnsweredIn
<1> QED BY <1>2, <1>7, <1>8, <1>9, <1>10, <1>11, <1>13, <1>14, <1>15, <1>16 DEF TurnInv

\* What happens outside of update_file_1 leaves the files as they are.
LEMMA RecipeEndsTurn ==
  ASSUME MakeInv, TurnInv, NEW f \in Files, NEW result, RecipeEnds(f, result)
  PROVE  TurnInv'
<1>1. /\ UNCHANGED <<mf, shuf, file, deps, considered, stack, at, ret, runs>>
      /\ DOMAIN children' = DOMAIN children
  BY DEF RecipeEnds, fixed
<1>2. Same(file, file')
  BY <1>1 DEF Same
<1> QED BY <1>1, <1>2, SameTurn DEF TurnInv

LEMMA PassTurn ==
  ASSUME MakeInv, TurnInv, BeginScan \/ GoalReturned \/ EndScan \/ die
  PROVE  TurnInv'
<1>1. /\ UNCHANGED <<mf, shuf, file, deps, stack, ret, children, runs>>
      /\ at' \in {"scan", "pass", "die", "exited"} /\ considered' \in {considered, {}}
      /\ at' # "exited" => stack = << >>
  BY DEF BeginScan, GoalReturned, EndScan, die, fixed, world, MakeInv, WhereIn
<1>2. Same(file, file') /\ CircularIn(mf, shuf, deps')
  BY <1>1 DEF Same, TurnInv
<1>3. ConsideredIn(file', considered', stack')
  BY <1>1 DEF ConsideredIn, TurnInv
<1>4. FreshIn(file', stack', at') /\ FramesIn(mf, shuf, file', stack', at')
  BY <1>1 DEF FreshIn, FramesIn
<1>5. AnsweredIn(mf, shuf, file', stack', at', ret') /\ StartingIn(mf, file', stack', at')
  BY <1>1 DEF AnsweredIn, StartingIn
<1> QED BY <1>1, <1>2, <1>3, <1>4, <1>5, SameTurn

----------------------------------------------------------------------------
(***************************************************************************)
(* The theorem about the order of recipes                                  *)
(***************************************************************************)
\* A shuffled list has lost nothing.
LEMMA ShufflerOnto ==
  ASSUME NEW S, NEW list \in Seq(S), NEW mode \in {"none", "identity", "reverse", "random"},
         NEW t \in shuffler(mode, list)
  PROVE  ToSet(list) \subseteq ToSet(t)
<1>1. Len(list) \in Nat /\ DOMAIN list = 1 .. Len(list)
  OBVIOUS
<1>2. DOMAIN t = DOMAIN list
  BY ShufflerKeeps
<1> SUFFICES ASSUME NEW i \in DOMAIN list PROVE \E j \in DOMAIN list : t[j] = list[i]
  BY <1>2 DEF ToSet
<1>3. CASE mode \in {"none", "identity"}
  BY <1>3 DEF shuffler
<1>4. CASE mode = "reverse"
  <2>1. t = [k \in 1 .. Len(list) |-> list[(Len(list) - k) + 1]]
    BY <1>4 DEF shuffler, Reverse
  <2>2. (Len(list) - i) + 1 \in 1 .. Len(list) /\ (Len(list) - ((Len(list) - i) + 1)) + 1 = i
    BY <1>1
  <2>3. t[(Len(list) - i) + 1] = list[i]
    BY <2>1, <2>2
  <2> QED BY <1>1, <2>2, <2>3
<1>5. CASE mode = "random"
  <2>1. PICK p \in Bijection(DOMAIN list, DOMAIN list) : t = [k \in DOMAIN list |-> list[p[k]]]
    BY <1>5 DEF shuffler
  <2>2. p \in Surjection(DOMAIN list, DOMAIN list)
    BY DEF Bijection
  <2>3. PICK j \in DOMAIN list : p[j] = i
    BY <2>2 DEF Surjection
  <2> QED BY <2>1, <2>3
<1> QED BY <1>3, <1>4, <1>5

LEMMA TurnInit == Init /\ GroupsApart(mf) /\ GroupsAlike(mf) /\ ListedOnce(mf) => TurnInv
<1> SUFFICES ASSUME Init, GroupsApart(mf), GroupsAlike(mf), ListedOnce(mf) PROVE TurnInv
  OBVIOUS
<1>1. /\ mf \in Makefiles /\ file = [f \in Files |-> FreshFile(f \in mf.phony)]
      /\ deps = [f \in Files |-> Listed(f)] /\ considered = {} /\ stack = << >>
      /\ at = "pass" /\ children = << >>
  BY DEF Init
<1>2. PICK mode \in ShuffleModes :
         \E order \in [Files -> UNION {shuffle_deps_recursive(mode, f) : f \in Files}] :
            /\ \A f \in Files : order[f] \in shuffle_deps_recursive(mode, f)
            /\ shuf = order
  BY DEF Init
<1>3. \A f \in Files : shuf[f] \in shuffle_deps_recursive(mode, f)
  BY <1>2
<1>4. mode \in {"none", "identity", "reverse", "random"} /\ DOMAIN children = {}
  BY <1>1, <1>2, MakeAssumption
<1>5. \A f \in Files : /\ Listed(f) = ListedIn(mf, f) /\ ListedIn(mf, f) \in Seq(Pairs)
                       /\ ToSet(ListedIn(mf, f)) = Own(mf, f)
                       /\ DOMAIN ListedIn(mf, f) = DOMAIN mf.deps[f]
  BY <1>1, OwnNeeds DEF Listed, ListedIn, Own
<1>6. ASSUME NEW f \in Files, NEW p \in Own(mf, f) PROVE \E q \in Own(mf, f) : VisitIn(mf, shuf, q) = p
  <2> DEFINE list == ListedIn(mf, f)
  <2>1. shuf[f] = list \/ shuf[f] \in shuffler(mode, list)
    BY <1>3, <1>5 DEF shuffle_deps_recursive, shuffle_deps
  <2>2. DOMAIN shuf[f] = DOMAIN list /\ ToSet(list) \subseteq ToSet(shuf[f])
    BY <1>4, <1>5, <2>1, ShufflerKeeps, ShufflerOnto
  <2>3. PICK j \in DOMAIN list : shuf[f][j] = p
    BY <1>5, <1>6, <2>2 DEF ToSet
  <2>4. list[j] = <<f, mf.deps[f][j]>> /\ \A i \in DOMAIN list : list[i] = <<f, mf.deps[f][i]>>
    BY <1>5 DEF ListedIn
  <2>5. \A i \in DOMAIN list : list[i] = list[j] => i = j
    BY <1>5, <2>4 DEF ListedOnce, IsInjective
  <2>6. list[j] \in Own(mf, f) /\ list[j][1] = f
    BY <1>5, <2>4 DEF ToSet
  <2> HIDE DEF list
  <2>7. (CHOOSE i \in DOMAIN list : list[i] = list[j]) = j
    BY <2>5
  <2>8. VisitIn(mf, shuf, list[j]) = shuf[f][j]
    BY <2>6, <2>7 DEF VisitIn, list
  <2> QED BY <2>3, <2>6, <2>8
<1>7. OntoIn(mf, shuf) /\ CircularIn(mf, shuf, deps)
  BY <1>1, <1>5, <1>6 DEF OntoIn, CircularIn
<1>8. \A f \in Files : /\ file[f].command_state = "not_started" /\ file[f].update_status = "none"
                       /\ file[f].updated = FALSE
  BY <1>1 DEF FreshFile
<1>9. OutcomesIn(file) /\ QuietIn(mf, file)
  BY <1>8 DEF OutcomesIn, QuietIn, DoneIn
<1>10. ChildrenIn(mf, file, runs, DOMAIN children) /\ ConsideredIn(file, considered, stack)
  BY <1>1, <1>4 DEF ChildrenIn, ConsideredIn
<1>11. /\ FreshIn(file, stack, at) /\ AnsweredIn(mf, shuf, file, stack, at, ret)
       /\ FramesIn(mf, shuf, file, stack, at) /\ StartingIn(mf, file, stack, at)
  BY <1>1 DEF FreshIn, AnsweredIn, FramesIn, StartingIn
<1> QED BY <1>7, <1>9, <1>10, <1>11 DEF TurnInv

LEMMA TurnStays == MakeInv /\ TurnInv /\ [Next]_vars => TurnInv'
<1> SUFFICES ASSUME MakeInv, TurnInv, [Next]_vars PROVE TurnInv'
  OBVIOUS
<1>1. CASE WaitHere \/ DropCircular \/ NextList \/ check_dep \/ DepReturned
  BY <1>1, WaitHereTurn, DropCircularTurn, NextListTurn, CheckDepTurn, DepReturnedTurn
<1>2. CASE DepsRunning \/ GiveUp \/ NoNeedToRemake \/ RemakeWithoutRecipe \/ remake_file
  BY <1>2, DepsRunningTurn, GiveUpTurn, NoNeedToRemakeTurn, RemakeWithoutRecipeTurn, RemakeFileTurn
<1>3. CASE new_job \/ Started \/ reap_children
  BY <1>3, NewJobTurn, StartedTurn, ReapChildrenTurn
<1>4. CASE BeginScan \/ UpdateGoal \/ GoalReturned \/ EndScan \/ die
  BY <1>4, UpdateGoalTurn, PassTurn
<1>5. ASSUME NEW f \in Files, NEW result \in {"won", "failed"}, RecipeEnds(f, result)
      PROVE  TurnInv'
  BY <1>5, RecipeEndsTurn
<1>6. CASE UNCHANGED vars
  BY <1>6 DEF vars, TurnInv
<1> QED BY <1>1, <1>2, <1>3, <1>4, <1>5, <1>6 DEF Next, MakeStep

LEMMA TurnInvImplies == MakeInv /\ TurnInv => RecipeAfterPrereqs
<1> SUFFICES ASSUME TurnInv, NEW f \in DOMAIN children, NEW d \in RealNeeds(f)
             PROVE  file[d].command_state = "finished" /\ file[d].update_status = "success"
  BY DEF RecipeAfterPrereqs
<1>1. MadeFirst(mf, file, f)
  BY DEF TurnInv, ChildrenIn
<1>2. d \in NeedsIn(mf, f) /\ RealIn(mf, f, d)
  BY DEF RealNeeds, RealIn, Needs, Below, Group
<1> QED BY <1>1, <1>2 DEF MadeFirst, DoneIn

\* THEOREM of update_file_1, check_dep and remake_file: for any makefile, any
\* number of job slots, any order of the lists and any outcome of the recipes,
\* while a recipe runs everything its group needs has been made, order-only
\* prerequisites included, and made with success.  The targets of a group need
\* none of each other and have one recipe, and no list names a file twice.
THEOREM RecipesWaitTheirTurn ==
    GroupsApart(mf) /\ GroupsAlike(mf) /\ ListedOnce(mf) /\ Spec => []RecipeAfterPrereqs
<1>1. Init /\ GroupsApart(mf) /\ GroupsAlike(mf) /\ ListedOnce(mf) => MakeInv /\ TurnInv
  BY MakeInit, TurnInit
<1>2. MakeInv /\ TurnInv /\ [Next]_vars => (MakeInv /\ TurnInv)'
  BY MakeStays, TurnStays
<1>3. MakeInv /\ TurnInv => RecipeAfterPrereqs
  BY TurnInvImplies
<1> QED BY <1>1, <1>2, <1>3, PTL DEF Spec
====
