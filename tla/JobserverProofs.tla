---- MODULE JobserverProofs ----
(***************************************************************************)
(* Proofs about the jobserver of GNU make, for every tree of makes, every  *)
(* recipe and every -jN, over failing spawns and signals at any point.     *)
(*                                                                         *)
(* A make has one token for each job on its chains and one more while it   *)
(* is about to start a job (MakeOK); it counts the slots of its children;  *)
(* and what it still has to do has one of a few shapes, from which it      *)
(* follows where it may sleep and with which tokens in hand (Runs).  Only  *)
(* the step of a make itself changes its tokens, and the pipe, the tokens  *)
(* of killed makes and what the make holds change so that their sum stays  *)
(* (HeldChange).                                                           *)
(***************************************************************************)
EXTENDS Jobserver, FiniteSetTheorems, FunctionTheorems, SequenceTheorems, TLAPS

\* Of make m: the jobs it has a token for, those that have a job slot, those
\* that wait for the load to go down, those not decided on.
TokenJobs(m) == {j \in JobsOf(m) : job[j].child \in OnChain \cup {"waiting"}}
SlotJobs(m) == {j \in JobsOf(m) : job[j].jobslot = 1}
WaitJobs(m) == {j \in JobsOf(m) : job[j].child = "waiting"}
PendingJobs(m) == {j \in JobsOf(m) : job[j].child = "pending"}

\* What a running make k has to do.  With jobs that wait it comes to
\* take_waiting before it sleeps.
Plain == {<<"reap_or_wait">>, <<"reap", "looked">>, <<"wait", "looked">>, <<"looked">>, <<"scan">>,
          <<"reap", "token", "scan">>, <<"token", "scan">>, <<"start", "scan">>}
WithWaiting ==
    {<<"reap", "take_waiting", "reap_or_wait">>, <<"take_waiting", "reap_or_wait">>,
     <<"reap", "take_waiting", "reap", "token", "scan">>, <<"take_waiting", "reap", "token", "scan">>,
     <<"pre_acquire", "reap", "reap", "take_waiting", "recheck", "scan">>,
     <<"reap", "reap", "take_waiting", "recheck", "scan">>,
     <<"reap", "take_waiting", "recheck", "scan">>, <<"take_waiting", "recheck", "scan">>}
NoneWaiting == {<<"pre_acquire", "reap", "recheck", "scan">>, <<"reap", "recheck", "scan">>}

Runs(k) ==
    \/ k.agenda \in Plain
    \/ k.agenda \in WithWaiting /\ k.waiting_jobs # << >>
    \/ k.agenda \in NoneWaiting /\ k.waiting_jobs = << >>
    \/ k.agenda = <<"recheck", "scan">> /\ (k.waiting_jobs = << >> \/ k.job_slots_used > 0)
    \/ k.agenda = <<"acquire", "scan">> /\ k.jobserver_tokens > 0

Dies(k, held) ==
    \/ k.agenda = <<"acquire_all">> /\ k.job_slots_used = 0 /\ k.jobserver_tokens = 0
    \/ /\ k.agenda \in {<<"die">>, <<"wait", "die">>, <<"reap", "die">>, <<"clean_jobserver">>}
       /\ k.agenda = <<"clean_jobserver">> => k.job_slots_used = 0
       /\ k.jobserver_tokens = Cardinality(held)
       /\ k.status # 2 => held = {}

Killed(k, held) ==
    \/ k.agenda = <<"kill">> /\ k.job_slots_used = 0
    \/ /\ k.agenda \in {<<"kill">>, <<"wait", "kill">>, <<"reap", "kill">>}
       /\ k.jobserver_tokens >= Cardinality(held)

\* waits is the chain of the jobs that wait.
Chained(waits, jobs) ==
    /\ \A i, l \in 1 .. Len(waits) : waits[i] = waits[l] => i = l
    /\ \A i \in 1 .. Len(waits) : waits[i] \in jobs
    /\ \A j \in jobs : \E i \in 1 .. Len(waits) : waits[i] = j

\* A make k with the jobs it has tokens for, and slots, and so on.
MakeOK(k, held, slots, waits, pending) ==
    /\ k \in MakeState
    /\ k.jobserver_enabled <=> k.proc \in {"unborn", "running", "dying"}
    /\ k.proc = "unborn" => /\ k.agenda = <<"reap_or_wait">> /\ k.newjob = {} /\ k.jobserver_tokens = 0
                            /\ k.job_slots_used = 0 /\ k.waiting_jobs = << >> /\ held = {}
    /\ k.proc = "exited" => k.jobserver_tokens = 0
    /\ k.proc \in {"running", "dying", "signalled"} =>
          Chained(k.waiting_jobs, waits) /\ k.job_slots_used = Cardinality(slots)
    /\ k.proc = "running" => /\ Runs(k)
                             /\ k.newjob \subseteq pending /\ \A i, j \in k.newjob : i = j
                             /\ k.jobserver_tokens = IF k.agenda = <<"start", "scan">> THEN Cardinality(held) + 1
                                                     ELSE Cardinality(held)
    /\ k.proc = "dying" => Dies(k, held)
    /\ k.proc = "signalled" => Killed(k, held)

JobOK(c, lines) ==
    /\ c \in JobState /\ c.command_line <= Len(lines)
    /\ c.child \in {"pending", "waiting"} => c.command_line = 0
    /\ c.jobslot = 1 => c.child \in OnChain

\* The make of a line that was not taken yet is not born.
LinesAhead ==
    \A j \in Jobs : \A l \in job[j].command_line + 1 .. Len(CommandLines[j]) :
        CommandLines[j][l].submake # NoMake => make[CommandLines[j][l].submake].proc = "unborn"

Makes_OK ==
    /\ make \in [Makes -> MakeState]
    /\ \A m \in Makes : MakeOK(make[m], TokenJobs(m), SlotJobs(m), WaitJobs(m), PendingJobs(m))
    /\ \A m \in Makes : make[m].proc = "dying" /\ make[m].agenda = <<"acquire_all">> => m = Root
Jobs_OK == job \in [Jobs -> JobState] /\ \A j \in Jobs : JobOK(job[j], CommandLines[j])

\* The root takes the tokens out of the pipe when it exits.
Sum == /\ pipe \in Nat /\ lost \in Nat
       /\ pipe + Cardinality(HeldTokens) + lost <= master_job_slots - 1
       /\ make[Root].proc # "exited" => pipe + Cardinality(HeldTokens) + lost = master_job_slots - 1

TokensInv ==
    /\ Makes_OK /\ Jobs_OK /\ LinesAhead /\ Sum
    /\ internal \in BOOLEAN /\ keep_going_flag \in BOOLEAN /\ NoInternalError
----------------------------------------------------------------------------
(***************************************************************************)
(* Sequences, and the agendas that the operations leave.                   *)
(***************************************************************************)

\* A sequence is what two others make up if it has their elements.
LEMMA Joined ==
  ASSUME NEW S, NEW u \in Seq(S), NEW v \in Seq(S), NEW w \in Seq(S),
         Len(w) = Len(u) + Len(v),
         \A i \in 1 .. Len(w) : w[i] = IF i <= Len(u) THEN u[i] ELSE v[i - Len(u)]
  PROVE  u \o v = w
<1> DEFINE c == u \o v
<1>1. c \in Seq(S) /\ Len(c) = Len(u) + Len(v) /\ \A i \in 1 .. Len(u) + Len(v) : c[i] = IF i <= Len(u) THEN u[i] ELSE v[i - Len(u)]
  BY ConcatProperties
<1> HIDE DEF c
<1>2. c = w
  BY <1>1, SeqEqual
<1> QED BY <1>2 DEF c

\* An operation put back on an agenda, a job put back on its chain.
LEMMA Pushed ==
  ASSUME NEW S, NEW u \in Seq(S), u # << >>
  PROVE  <<Head(u)>> \o Tail(u) = u
<1>1. /\ Head(u) \in S /\ Tail(u) \in Seq(S) /\ Len(Tail(u)) = Len(u) - 1 /\ Len(u) \in Nat /\ Len(u) >= 1
      /\ \A i \in 1 .. Len(Tail(u)) : Tail(u)[i] = u[i + 1]
      /\ Head(u) = u[1]
  BY HeadTailProperties, EmptySeq, LenProperties
<1> DEFINE h == <<Head(u)>> t == Tail(u)
<1>2. h \in Seq(S) /\ Len(h) = 1 /\ h[1] = Head(u)
  BY <1>1
<1>3. t \in Seq(S) /\ Len(u) = Len(h) + Len(t)
  BY <1>1, <1>2
<1>4. \A i \in 1 .. Len(u) : u[i] = IF i <= Len(h) THEN h[i] ELSE t[i - Len(h)]
  BY <1>1, <1>2
<1> HIDE DEF h, t
<1>5. h \o t = u
  BY <1>2, <1>3, <1>4, Joined
<1> QED BY <1>5 DEF h, t

LEMMA Join20 ==
  ASSUME NEW a, NEW b
  PROVE  <<a, b>> \o << >> = <<a, b>>
<1> DEFINE S == {a, b} u == <<a, b>> v == << >> w == <<a, b>>
<1>1. u \in Seq(S) /\ v \in Seq(S) /\ w \in Seq(S) /\ Len(w) = Len(u) + Len(v)
  OBVIOUS
<1>2. \A i \in 1 .. Len(w) : w[i] = IF i <= Len(u) THEN u[i] ELSE v[i - Len(u)]
  OBVIOUS
<1> HIDE DEF S, u, v, w
<1>3. u \o v = w
  BY <1>1, <1>2, Joined
<1> QED BY <1>3 DEF u, v, w

LEMMA Join11 ==
  ASSUME NEW a, NEW b
  PROVE  <<a>> \o <<b>> = <<a, b>>
<1> DEFINE S == {a, b} u == <<a>> v == <<b>> w == <<a, b>>
<1>1. u \in Seq(S) /\ v \in Seq(S) /\ w \in Seq(S) /\ Len(w) = Len(u) + Len(v)
  OBVIOUS
<1>2. \A i \in 1 .. Len(w) : w[i] = IF i <= Len(u) THEN u[i] ELSE v[i - Len(u)]
  OBVIOUS
<1> HIDE DEF S, u, v, w
<1>3. u \o v = w
  BY <1>1, <1>2, Joined
<1> QED BY <1>3 DEF u, v, w

LEMMA Join21 ==
  ASSUME NEW a, NEW b, NEW c
  PROVE  <<a, b>> \o <<c>> = <<a, b, c>>
<1> DEFINE S == {a, b, c} u == <<a, b>> v == <<c>> w == <<a, b, c>>
<1>1. u \in Seq(S) /\ v \in Seq(S) /\ w \in Seq(S) /\ Len(w) = Len(u) + Len(v)
  OBVIOUS
<1>2. \A i \in 1 .. Len(w) : w[i] = IF i <= Len(u) THEN u[i] ELSE v[i - Len(u)]
  OBVIOUS
<1> HIDE DEF S, u, v, w
<1>3. u \o v = w
  BY <1>1, <1>2, Joined
<1> QED BY <1>3 DEF u, v, w

LEMMA Join31 ==
  ASSUME NEW a, NEW b, NEW c, NEW d
  PROVE  <<a, b, c>> \o <<d>> = <<a, b, c, d>>
<1> DEFINE S == {a, b, c, d} u == <<a, b, c>> v == <<d>> w == <<a, b, c, d>>
<1>1. u \in Seq(S) /\ v \in Seq(S) /\ w \in Seq(S) /\ Len(w) = Len(u) + Len(v)
  OBVIOUS
<1>2. \A i \in 1 .. Len(w) : w[i] = IF i <= Len(u) THEN u[i] ELSE v[i - Len(u)]
  OBVIOUS
<1> HIDE DEF S, u, v, w
<1>3. u \o v = w
  BY <1>1, <1>2, Joined
<1> QED BY <1>3 DEF u, v, w

LEMMA Join41 ==
  ASSUME NEW a, NEW b, NEW c, NEW d, NEW e
  PROVE  <<a, b, c, d>> \o <<e>> = <<a, b, c, d, e>>
<1> DEFINE S == {a, b, c, d, e} u == <<a, b, c, d>> v == <<e>> w == <<a, b, c, d, e>>
<1>1. u \in Seq(S) /\ v \in Seq(S) /\ w \in Seq(S) /\ Len(w) = Len(u) + Len(v)
  OBVIOUS
<1>2. \A i \in 1 .. Len(w) : w[i] = IF i <= Len(u) THEN u[i] ELSE v[i - Len(u)]
  OBVIOUS
<1> HIDE DEF S, u, v, w
<1>3. u \o v = w
  BY <1>1, <1>2, Joined
<1> QED BY <1>3 DEF u, v, w

LEMMA Join51 ==
  ASSUME NEW a, NEW b, NEW c, NEW d, NEW e, NEW f
  PROVE  <<a, b, c, d, e>> \o <<f>> = <<a, b, c, d, e, f>>
<1> DEFINE S == {a, b, c, d, e, f} u == <<a, b, c, d, e>> v == <<f>> w == <<a, b, c, d, e, f>>
<1>1. u \in Seq(S) /\ v \in Seq(S) /\ w \in Seq(S) /\ Len(w) = Len(u) + Len(v)
  OBVIOUS
<1>2. \A i \in 1 .. Len(w) : w[i] = IF i <= Len(u) THEN u[i] ELSE v[i - Len(u)]
  OBVIOUS
<1> HIDE DEF S, u, v, w
<1>3. u \o v = w
  BY <1>1, <1>2, Joined
<1> QED BY <1>3 DEF u, v, w

LEMMA Join22 ==
  ASSUME NEW a, NEW b, NEW c, NEW d
  PROVE  <<a, b>> \o <<c, d>> = <<a, b, c, d>>
<1> DEFINE S == {a, b, c, d} u == <<a, b>> v == <<c, d>> w == <<a, b, c, d>>
<1>1. u \in Seq(S) /\ v \in Seq(S) /\ w \in Seq(S) /\ Len(w) = Len(u) + Len(v)
  OBVIOUS
<1>2. \A i \in 1 .. Len(w) : w[i] = IF i <= Len(u) THEN u[i] ELSE v[i - Len(u)]
  OBVIOUS
<1> HIDE DEF S, u, v, w
<1>3. u \o v = w
  BY <1>1, <1>2, Joined
<1> QED BY <1>3 DEF u, v, w

LEMMA Join23 ==
  ASSUME NEW a, NEW b, NEW c, NEW d, NEW e
  PROVE  <<a, b>> \o <<c, d, e>> = <<a, b, c, d, e>>
<1> DEFINE S == {a, b, c, d, e} u == <<a, b>> v == <<c, d, e>> w == <<a, b, c, d, e>>
<1>1. u \in Seq(S) /\ v \in Seq(S) /\ w \in Seq(S) /\ Len(w) = Len(u) + Len(v)
  OBVIOUS
<1>2. \A i \in 1 .. Len(w) : w[i] = IF i <= Len(u) THEN u[i] ELSE v[i - Len(u)]
  OBVIOUS
<1> HIDE DEF S, u, v, w
<1>3. u \o v = w
  BY <1>1, <1>2, Joined
<1> QED BY <1>3 DEF u, v, w

\* The agendas that come up when an operation calls others.
LEMMA Agendas ==
  /\ <<"start">> \o <<"scan">> = <<"start", "scan">>
  /\ <<"token">> \o <<"scan">> = <<"token", "scan">>
  /\ <<"acquire">> \o <<"scan">> = <<"acquire", "scan">>
  /\ \A x \in {"looked", "die", "kill"} : <<"reap">> \o <<x>> = <<"reap", x>> 
  /\ \A x, y \in {"wait", "die", "kill", "looked", "reap"} : <<x, y>> \o << >> = <<x, y>>
  /\ <<"clean_jobserver">> \o << >> = <<"clean_jobserver">>
  /\ <<"reap", "take_waiting">> \o <<"reap_or_wait">> = <<"reap", "take_waiting", "reap_or_wait">>
  /\ <<"reap", "take_waiting">> \o <<"recheck", "scan">> = <<"reap", "take_waiting", "recheck", "scan">>
  /\ <<"reap", "take_waiting">> \o <<"reap", "token", "scan">> = <<"reap", "take_waiting", "reap", "token", "scan">>
  /\ <<"pre_acquire", "reap">> \o << >> \o <<"recheck">> \o <<"scan">> = <<"pre_acquire", "reap", "recheck", "scan">>
  /\ <<"pre_acquire", "reap">> \o <<"reap", "take_waiting">> \o <<"recheck">> \o <<"scan">>
        = <<"pre_acquire", "reap", "reap", "take_waiting", "recheck", "scan">>
<1>1. <<"start">> \o <<"scan">> = <<"start", "scan">>
  BY Join11
<1>2. <<"token">> \o <<"scan">> = <<"token", "scan">>
  BY Join11
<1>3. <<"acquire">> \o <<"scan">> = <<"acquire", "scan">>
  BY Join11
<1>4. \A x \in {"looked", "die", "kill"} : <<"reap">> \o <<x>> = <<"reap", x>>
  BY Join11
<1>5. \A x, y \in {"wait", "die", "kill", "looked", "reap"} : <<x, y>> \o << >> = <<x, y>>
  BY Join20
<1>6. <<"clean_jobserver">> \o << >> = <<"clean_jobserver">>
  OBVIOUS
<1>7. <<"reap", "take_waiting">> \o <<"reap_or_wait">> = <<"reap", "take_waiting", "reap_or_wait">>
  BY Join21
<1>8. <<"reap", "take_waiting">> \o <<"recheck", "scan">> = <<"reap", "take_waiting", "recheck", "scan">>
  BY Join22
<1>9. <<"reap", "take_waiting">> \o <<"reap", "token", "scan">> = <<"reap", "take_waiting", "reap", "token", "scan">>
  BY Join23
<1>10. <<"pre_acquire", "reap">> \o << >> \o <<"recheck">> \o <<"scan">> = <<"pre_acquire", "reap", "recheck", "scan">>
  <2>1. <<"pre_acquire", "reap">> \o << >> = <<"pre_acquire", "reap">>
    BY Join20
  <2>2. <<"pre_acquire", "reap">> \o <<"recheck">> = <<"pre_acquire", "reap", "recheck">>
    BY Join21
  <2>3. <<"pre_acquire", "reap", "recheck">> \o <<"scan">> = <<"pre_acquire", "reap", "recheck", "scan">>
    BY Join31
  <2> QED BY <2>1, <2>2, <2>3
<1>11. <<"pre_acquire", "reap">> \o <<"reap", "take_waiting">> \o <<"recheck">> \o <<"scan">>
        = <<"pre_acquire", "reap", "reap", "take_waiting", "recheck", "scan">>
  <2>1. <<"pre_acquire", "reap">> \o <<"reap", "take_waiting">> = <<"pre_acquire", "reap", "reap", "take_waiting">>
    BY Join22
  <2>2. <<"pre_acquire", "reap", "reap", "take_waiting">> \o <<"recheck">>
           = <<"pre_acquire", "reap", "reap", "take_waiting", "recheck">>
    BY Join41
  <2>3. <<"pre_acquire", "reap", "reap", "take_waiting", "recheck">> \o <<"scan">>
           = <<"pre_acquire", "reap", "reap", "take_waiting", "recheck", "scan">>
    BY Join51
  <2> QED BY <2>1, <2>2, <2>3
<1> QED BY <1>1, <1>2, <1>3, <1>4, <1>5, <1>6, <1>7, <1>8, <1>9, <1>10, <1>11
----------------------------------------------------------------------------
(***************************************************************************)
(* The tokens held by makes.                                               *)
(***************************************************************************)

\* The tokens of the pipe that make k holds.
Extra(k) == IF k.jobserver_enabled /\ k.jobserver_tokens > 1 THEN k.jobserver_tokens - 1 ELSE 0

Held(f) == UNION {{n} \X (2 .. f[n].jobserver_tokens) : n \in {i \in Makes : f[i].jobserver_enabled}}
HeldBut(f, m) ==
    UNION {{n} \X (2 .. f[n].jobserver_tokens) : n \in {i \in Makes \ {m} : f[i].jobserver_enabled}}
HeldBy(k, m) == IF k.jobserver_enabled THEN {m} \X (2 .. k.jobserver_tokens) ELSE {}

LEMMA HeldByOne ==
  ASSUME NEW k \in MakeState, NEW m
  PROVE  /\ IsFiniteSet(HeldBy(k, m)) /\ Cardinality(HeldBy(k, m)) = Extra(k)
         /\ Extra(k) \in Nat
<1> DEFINE T == 2 .. k.jobserver_tokens
<1>1. k.jobserver_tokens \in Nat /\ k.jobserver_enabled \in BOOLEAN
  BY DEF MakeState
<1>2. IsFiniteSet(T) /\ Cardinality(T) = IF 2 > k.jobserver_tokens THEN 0 ELSE k.jobserver_tokens - 2 + 1
  <2>1. 2 \in Int /\ k.jobserver_tokens \in Int
    BY <1>1
  <2> QED BY ONLY <2>1, FS_Interval
<1>3. IsFiniteSet({m}) /\ Cardinality({m}) = 1
  BY FS_Singleton
<1> HIDE DEF T
<1>4. IsFiniteSet({m} \X T) /\ Cardinality({m} \X T) = Cardinality({m}) * Cardinality(T)
  BY <1>2, <1>3, FS_Product
<1>5. Cardinality({m} \X T) = Cardinality(T)
  BY <1>1, <1>2, <1>3, <1>4
<1>6. CASE k.jobserver_enabled
  BY <1>1, <1>2, <1>4, <1>5, <1>6 DEF HeldBy, Extra, T
<1>7. CASE ~k.jobserver_enabled
  BY <1>7, FS_EmptySet DEF HeldBy, Extra
<1> QED BY <1>6, <1>7

LEMMA HeldFinite ==
  ASSUME NEW f \in [Makes -> MakeState], NEW m \in Makes
  PROVE  /\ IsFiniteSet(HeldBut(f, m)) /\ Held(f) = HeldBut(f, m) \cup HeldBy(f[m], m)
         /\ HeldBut(f, m) \cap HeldBy(f[m], m) = {}
<1> DEFINE E == {i \in Makes \ {m} : f[i].jobserver_enabled}
           F == [n \in E |-> {n} \X (2 .. f[n].jobserver_tokens)]
           R == {F[n] : n \in E}
<1>1. IsFiniteSet(E)
  BY JobserverAssumption, FS_Subset
<1>2. F \in Surjection(E, R)
  BY DEF Surjection
<1>3. ASSUME NEW T \in R PROVE IsFiniteSet(T)
  <2>1. PICK n \in E : T = {n} \X (2 .. f[n].jobserver_tokens)
    OBVIOUS
  <2>2. f[n].jobserver_tokens \in Nat
    BY DEF MakeState
  <2>3. IsFiniteSet({n})
    BY FS_Singleton
  <2>4. IsFiniteSet(2 .. f[n].jobserver_tokens)
    BY <2>2, FS_Interval
  <2> QED BY <2>1, <2>3, <2>4, FS_Product
<1>4. HeldBut(f, m) = UNION R
  BY DEF HeldBut
<1> HIDE DEF E, F, R
<1>5. IsFiniteSet(R)
  BY <1>1, <1>2, FS_Surjection
<1>6. IsFiniteSet(HeldBut(f, m))
  BY <1>3, <1>4, <1>5, FS_UNION
<1>7. Held(f) = HeldBut(f, m) \cup HeldBy(f[m], m)
  BY DEF Held, HeldBut, HeldBy
<1>8. HeldBut(f, m) \cap HeldBy(f[m], m) = {}
  BY DEF HeldBut, HeldBy
<1> QED BY <1>6, <1>7, <1>8

\* When only make m may gain or lose tokens, the tokens held change as its do.
LEMMA HeldChange ==
  ASSUME NEW f \in [Makes -> MakeState], NEW g \in [Makes -> MakeState], NEW m \in Makes,
         \A n \in Makes \ {m} : /\ f[n].jobserver_tokens = g[n].jobserver_tokens
                                /\ f[n].jobserver_enabled = g[n].jobserver_enabled
  PROVE  /\ Cardinality(Held(f)) \in Nat /\ Cardinality(Held(g)) \in Nat
         /\ Extra(f[m]) \in Nat /\ Extra(g[m]) \in Nat
         /\ Cardinality(Held(g)) + Extra(f[m]) = Cardinality(Held(f)) + Extra(g[m])
<1>1. HeldBut(f, m) = HeldBut(g, m)
  BY DEF HeldBut
<1>2. ASSUME NEW h \in {f, g}
      PROVE  /\ Cardinality(Held(h)) = Cardinality(HeldBut(h, m)) + Extra(h[m])
             /\ Cardinality(HeldBut(h, m)) \in Nat /\ Extra(h[m]) \in Nat
  <2>1. h \in [Makes -> MakeState] /\ h[m] \in MakeState
    OBVIOUS
  <2>2. /\ IsFiniteSet(HeldBut(h, m)) /\ Held(h) = HeldBut(h, m) \cup HeldBy(h[m], m)
        /\ HeldBut(h, m) \cap HeldBy(h[m], m) = {}
    BY <2>1, HeldFinite
  <2>3. IsFiniteSet(HeldBy(h[m], m)) /\ Cardinality(HeldBy(h[m], m)) = Extra(h[m]) /\ Extra(h[m]) \in Nat
    BY <2>1, HeldByOne
  <2>4. Cardinality(HeldBut(h, m)) \in Nat
    BY <2>2, FS_CardinalityType
  <2>5. Cardinality(HeldBut(h, m) \cup HeldBy(h[m], m))
           = Cardinality(HeldBut(h, m)) + Cardinality(HeldBy(h[m], m)) - Cardinality({})
    BY <2>2, <2>3, FS_Union
  <2> QED BY <2>2, <2>3, <2>4, <2>5, FS_EmptySet
<1> QED BY <1>1, <1>2

----------------------------------------------------------------------------
(***************************************************************************)
(* What a step of make m leaves alone.                                     *)
(***************************************************************************)

\* The two states of a job that its make does not change, of a make that
\* another one signals or starts.
SameJob(c, d) ==
    /\ c.child \in OnChain <=> d.child \in OnChain
    /\ c.child = "waiting" <=> d.child = "waiting"
    /\ c.child = "pending" <=> d.child = "pending"
    /\ c.jobslot = d.jobslot

SameFields(k, l) ==
    /\ l.agenda = k.agenda /\ l.newjob = k.newjob
    /\ l.jobserver_tokens = k.jobserver_tokens /\ l.jobserver_enabled = k.jobserver_enabled
    /\ l.job_slots_used = k.job_slots_used /\ l.waiting_jobs = k.waiting_jobs
    /\ l.status = k.status

Beside(k, l) ==
    /\ SameFields(k, l)
    /\ l.proc = k.proc \/ (k.proc = "unborn" /\ l.proc = "running")

MakeWell(m) == MakeOK(make[m], TokenJobs(m), SlotJobs(m), WaitJobs(m), PendingJobs(m))

\* A signal for make k, or the death of a child of it.
LEMMA Signalled ==
  ASSUME NEW k \in MakeState, NEW b \in BOOLEAN,
         NEW l \in {[k EXCEPT !.sigchld = b], [k EXCEPT !.sigterm = b]}
  PROVE  l \in MakeState /\ Beside(k, l) /\ SameFields(k, l) /\ l.proc = k.proc
<1>1. l \in MakeState
  BY DEF MakeState
<1>2. SameFields(k, l)
  BY DEF MakeState, SameFields
<1>3. l.proc = k.proc
  BY DEF MakeState
<1> QED BY <1>1, <1>2, <1>3 DEF Beside

LEMMA SameSets ==
  ASSUME NEW m \in Makes, \A j \in Jobs : Owner[j] = m => SameJob(job[j], job'[j]),
         job \in [Jobs -> JobState], job' \in [Jobs -> JobState]
  PROVE  /\ TokenJobs(m)' = TokenJobs(m) /\ SlotJobs(m)' = SlotJobs(m)
         /\ WaitJobs(m)' = WaitJobs(m) /\ PendingJobs(m)' = PendingJobs(m)
BY DEF SameJob, TokenJobs, SlotJobs, WaitJobs, PendingJobs, JobsOf

\* The jobs of m after a step that changes job j of m.
LEMMA OneJob ==
  ASSUME NEW m \in Makes, NEW j \in Jobs, Owner[j] = m, \A i \in Jobs \ {j} : job'[i] = job[i],
         job \in [Jobs -> JobState], job' \in [Jobs -> JobState]
  PROVE  /\ TokenJobs(m)' = IF job'[j].child \in OnChain \cup {"waiting"} THEN TokenJobs(m) \cup {j}
                            ELSE TokenJobs(m) \ {j}
         /\ SlotJobs(m)' = IF job'[j].jobslot = 1 THEN SlotJobs(m) \cup {j} ELSE SlotJobs(m) \ {j}
         /\ WaitJobs(m)' = IF job'[j].child = "waiting" THEN WaitJobs(m) \cup {j} ELSE WaitJobs(m) \ {j}
         /\ PendingJobs(m)' = IF job'[j].child = "pending" THEN PendingJobs(m) \cup {j} ELSE PendingJobs(m) \ {j}
BY DEF TokenJobs, SlotJobs, WaitJobs, PendingJobs, JobsOf

LEMMA JobSetsFinite ==
  ASSUME NEW m \in Makes, Jobs_OK
  PROVE  /\ IsFiniteSet(TokenJobs(m)) /\ IsFiniteSet(SlotJobs(m)) /\ IsFiniteSet(WaitJobs(m))
         /\ SlotJobs(m) \subseteq children(m) /\ WaitJobs(m) \subseteq TokenJobs(m)
         /\ TokenJobs(m) = children(m) \cup WaitJobs(m)
<1>1. TokenJobs(m) \subseteq Jobs /\ SlotJobs(m) \subseteq Jobs /\ WaitJobs(m) \subseteq Jobs
  BY DEF TokenJobs, SlotJobs, WaitJobs, JobsOf
<1>2. IsFiniteSet(TokenJobs(m)) /\ IsFiniteSet(SlotJobs(m)) /\ IsFiniteSet(WaitJobs(m))
  BY <1>1, JobserverAssumption, FS_Subset
<1> QED BY <1>2 DEF Jobs_OK, JobOK, TokenJobs, SlotJobs, WaitJobs, children, JobsOf

\* A make that another one signals or starts stays well.
LEMMA BesideOK ==
  ASSUME NEW k, NEW l \in MakeState, NEW held, NEW slots, NEW waits, NEW pending,
         MakeOK(k, held, slots, waits, pending), Beside(k, l),
         slots \subseteq held, waits \subseteq held
  PROVE  MakeOK(l, held, slots, waits, pending)
<1>1. k \in MakeState /\ SameFields(k, l)
  BY DEF MakeOK, Beside
<1>2. CASE l.proc = k.proc
  BY <1>1, <1>2 DEF MakeOK, SameFields, Runs, Dies, Killed
<1>3. CASE k.proc = "unborn" /\ l.proc = "running"
  <2>1. /\ k.agenda = <<"reap_or_wait">> /\ k.newjob = {} /\ k.jobserver_tokens = 0
        /\ k.job_slots_used = 0 /\ k.waiting_jobs = << >> /\ held = {} /\ k.jobserver_enabled
    BY <1>3 DEF MakeOK
  <2>2. /\ l.agenda = <<"reap_or_wait">> /\ l.newjob = {} /\ l.jobserver_tokens = 0
        /\ l.job_slots_used = 0 /\ l.waiting_jobs = << >> /\ l.jobserver_enabled
    BY <1>1, <2>1 DEF SameFields
  <2>3. slots = {} /\ waits = {} /\ Cardinality({}) = 0
    BY <2>1, FS_EmptySet
  <2>4. Chained(l.waiting_jobs, waits)
    BY <2>2, <2>3 DEF Chained
  <2>5. Runs(l) /\ l.agenda # <<"start", "scan">>
    BY <2>2 DEF Runs, Plain
  <2> QED BY <1>3, <2>1, <2>2, <2>3, <2>4, <2>5 DEF MakeOK
<1> QED BY <1>2, <1>3 DEF Beside

\* A step of make m: it leaves m well, and others beside.
LEMMA StepKeepsMakes ==
  ASSUME Makes_OK, Jobs_OK, NEW m \in Makes,
         make' \in [Makes -> MakeState], MakeWell(m)',
         make'[m].proc = "dying" /\ make'[m].agenda = <<"acquire_all">> => m = Root,
         \A n \in Makes \ {m} : Beside(make[n], make'[n]),
         job' \in [Jobs -> JobState],
         \A j \in Jobs : Owner[j] # m => SameJob(job[j], job'[j])
  PROVE  Makes_OK'
<1>1. ASSUME NEW n \in Makes \ {m} PROVE MakeWell(n)'
  <2>1. MakeOK(make[n], TokenJobs(n), SlotJobs(n), WaitJobs(n), PendingJobs(n))
    BY DEF Makes_OK
  <2>2. /\ TokenJobs(n)' = TokenJobs(n) /\ SlotJobs(n)' = SlotJobs(n)
        /\ WaitJobs(n)' = WaitJobs(n) /\ PendingJobs(n)' = PendingJobs(n)
    BY SameSets DEF Jobs_OK
  <2>3. SlotJobs(n) \subseteq TokenJobs(n) /\ WaitJobs(n) \subseteq TokenJobs(n)
    BY JobSetsFinite
  <2>4. make'[n] \in MakeState /\ Beside(make[n], make'[n])
    OBVIOUS
  <2>5. MakeOK(make'[n], TokenJobs(n), SlotJobs(n), WaitJobs(n), PendingJobs(n))
    BY <2>1, <2>3, <2>4, BesideOK
  <2> QED BY <2>2, <2>5 DEF MakeWell
<1>2. ASSUME NEW n \in Makes \ {m}, make'[n].proc = "dying", make'[n].agenda = <<"acquire_all">>
      PROVE  n = Root
  BY <1>2 DEF Makes_OK, Beside, SameFields
<1> QED BY <1>1, <1>2 DEF Makes_OK, MakeWell

LEMMA Balance ==
  ASSUME NEW p \in Nat, NEW h \in Nat, NEW l \in Nat, NEW x \in Nat,
         NEW p2 \in Nat, NEW h2 \in Nat, NEW l2 \in Nat, NEW x2 \in Nat,
         h2 + x = h + x2, p2 + l2 + x2 = p + l + x
  PROVE  p2 + h2 + l2 = p + h + l
OBVIOUS

\* A step of make m that takes as many tokens as it leaves.
LEMMA StepKeepsSum ==
  ASSUME Sum, NEW m \in Makes, make \in [Makes -> MakeState], make' \in [Makes -> MakeState],
         \A n \in Makes \ {m} : SameFields(make[n], make'[n]),
         pipe' \in Nat, lost' \in Nat,
         pipe' + lost' + Extra(make'[m]) = pipe + lost + Extra(make[m]),
         make[Root].proc = "exited" => make'[Root].proc = "exited"
  PROVE  Sum'
<1>1. /\ Cardinality(Held(make)) \in Nat /\ Cardinality(Held(make')) \in Nat
      /\ Extra(make[m]) \in Nat /\ Extra(make'[m]) \in Nat
      /\ Cardinality(Held(make')) + Extra(make[m]) = Cardinality(Held(make)) + Extra(make'[m])
  BY HeldChange DEF SameFields
<1>2. HeldTokens = Held(make) /\ HeldTokens' = Held(make')
  BY DEF HeldTokens, Held
<1>3. pipe \in Nat /\ lost \in Nat /\ master_job_slots \in Nat
  BY JobserverAssumption DEF Sum
<1>4. pipe' + Cardinality(Held(make')) + lost' = pipe + Cardinality(Held(make)) + lost
  <2> DEFINE h == Cardinality(Held(make)) h2 == Cardinality(Held(make'))
             x == Extra(make[m]) x2 == Extra(make'[m]) p2 == pipe' l2 == lost'
  <2>1. h \in Nat /\ h2 \in Nat /\ x \in Nat /\ x2 \in Nat /\ h2 + x = h + x2
    BY <1>1
  <2>2. p2 \in Nat /\ l2 \in Nat /\ p2 + l2 + x2 = pipe + lost + x
    OBVIOUS
  <2> HIDE DEF h, h2, x, x2, p2, l2
  <2>3. p2 + h2 + l2 = pipe + h + lost
    BY ONLY <1>3, <2>1, <2>2, Balance
  <2> QED BY <2>3 DEF h, h2, p2, l2
<1> QED BY <1>1, <1>2, <1>3, <1>4 DEF Sum

\* Lines are taken in order, and only the make of a line just taken is born.
LEMMA StepKeepsLines ==
  ASSUME LinesAhead, Jobs_OK, NEW n,
         make \in [Makes -> MakeState],
         \A i \in Jobs : job'[i].command_line >= job[i].command_line /\ job'[i].command_line \in Nat,
         \A i \in Makes \ {n} : make[i].proc = "unborn" => make'[i].proc = "unborn",
         n \in Makes => \E j \in Jobs : \E l \in DOMAIN CommandLines[j] :
                            l <= job'[j].command_line /\ CommandLines[j][l].submake = n
  PROVE  LinesAhead'
<1> SUFFICES ASSUME NEW i \in Jobs, NEW k \in job'[i].command_line + 1 .. Len(CommandLines[i]),
                    CommandLines[i][k].submake # NoMake
             PROVE  make'[CommandLines[i][k].submake].proc = "unborn"
  BY DEF LinesAhead
<1> DEFINE s == CommandLines[i][k].submake
<1>1. /\ CommandLines[i] \in Seq([submake : Makes \cup {NoMake}, noerror : BOOLEAN])
      /\ job[i].command_line \in Nat /\ job'[i].command_line \in Nat /\ Len(CommandLines[i]) \in Nat
  BY JobserverAssumption, LenProperties DEF Jobs_OK, JobState
<1>2. k \in job[i].command_line + 1 .. Len(CommandLines[i]) /\ k \in 1 .. Len(CommandLines[i])
  BY <1>1
<1>3. k \in DOMAIN CommandLines[i] /\ CommandLines[i][k] \in [submake : Makes \cup {NoMake}, noerror : BOOLEAN]
  BY <1>1, <1>2, LenProperties, ElementOfSeq
<1>4. s \in Makes /\ make[s].proc = "unborn"
  BY <1>2, <1>3 DEF LinesAhead
<1>5. s # n
  <2> SUFFICES ASSUME s = n PROVE FALSE
    OBVIOUS
  <2>1. PICK j \in Jobs : \E l \in DOMAIN CommandLines[j] :
                  l <= job'[j].command_line /\ CommandLines[j][l].submake = n
    BY <1>4
  <2>2. PICK l \in DOMAIN CommandLines[j] : l <= job'[j].command_line /\ CommandLines[j][l].submake = n
    BY <2>1
  <2>3. i = j /\ k = l
    BY <1>3, <2>2, JobserverAssumption
  <2> QED BY <1>1, <2>2, <2>3
<1> QED BY <1>4, <1>5

----------------------------------------------------------------------------
(***************************************************************************)
(* Where a make is in its agenda.                                          *)
(***************************************************************************)

LEMMA AtRunning ==
  ASSUME NEW k, Runs(k)
  PROVE  /\ Head(k.agenda) = "reap_or_wait" => k.agenda = <<"reap_or_wait">>
         /\ Head(k.agenda) = "looked" => k.agenda = <<"looked">>
         /\ Head(k.agenda) = "scan" => k.agenda = <<"scan">>
         /\ Head(k.agenda) = "token" => k.agenda = <<"token", "scan">>
         /\ Head(k.agenda) = "start" => k.agenda = <<"start", "scan">>
         /\ Head(k.agenda) = "acquire" => k.agenda = <<"acquire", "scan">> /\ k.jobserver_tokens > 0
         /\ Head(k.agenda) = "recheck" =>
               k.agenda = <<"recheck", "scan">> /\ (k.waiting_jobs = << >> \/ k.job_slots_used > 0)
         /\ Head(k.agenda) = "take_waiting" =>
               /\ k.waiting_jobs # << >>
               /\ k.agenda \in {<<"take_waiting", "reap_or_wait">>, <<"take_waiting", "recheck", "scan">>,
                                <<"take_waiting", "reap", "token", "scan">>}
         /\ Head(k.agenda) = "pre_acquire" =>
               \/ k.agenda = <<"pre_acquire", "reap", "recheck", "scan">> /\ k.waiting_jobs = << >>
               \/ /\ k.agenda = <<"pre_acquire", "reap", "reap", "take_waiting", "recheck", "scan">>
                  /\ k.waiting_jobs # << >>
         /\ Head(k.agenda) \notin {"die", "clean_jobserver", "acquire_all", "kill"}
BY DEF Runs, Plain, WithWaiting, NoneWaiting

\* What is left of an agenda that begins with a reaping.
LEMMA Tails ==
  /\ \A x \in {"looked", "die", "kill"}, y \in {"reap", "wait"} : Tail(<<y, x>>) = <<x>>
  /\ Tail(<<"reap", "token", "scan">>) = <<"token", "scan">>
  /\ Tail(<<"reap", "recheck", "scan">>) = <<"recheck", "scan">>
  /\ Tail(<<"reap", "take_waiting", "reap_or_wait">>) = <<"take_waiting", "reap_or_wait">>
  /\ Tail(<<"reap", "take_waiting", "recheck", "scan">>) = <<"take_waiting", "recheck", "scan">>
  /\ Tail(<<"reap", "take_waiting", "reap", "token", "scan">>) = <<"take_waiting", "reap", "token", "scan">>
  /\ Tail(<<"reap", "reap", "take_waiting", "recheck", "scan">>)
        = <<"reap", "take_waiting", "recheck", "scan">>
OBVIOUS

LEMMA Reaped ==
  ASSUME NEW x \in {"looked", "die", "kill"}, NEW u \in {<<"reap", x>>, <<"wait", x>>}
  PROVE  Tail(u) = <<x>> /\ <<"reap">> \o Tail(u) = <<"reap", x>>
<1>1. Tail(<<"reap", x>>) = <<x>> /\ Tail(<<"wait", x>>) = <<x>>
  BY Tails
<1>2. <<"reap">> \o <<x>> = <<"reap", x>>
  BY Join11
<1> QED BY <1>1, <1>2

\* After a "reap" or a "wait" is done, or came to nothing.
LEMMA RunsOn ==
  ASSUME NEW k, Runs(k), k.agenda \in Seq(Operations), Head(k.agenda) \in {"reap", "wait"},
         NEW l, l.waiting_jobs = k.waiting_jobs,
         l.agenda \in {Tail(k.agenda), <<"reap">> \o Tail(k.agenda)}
  PROVE  Runs(l) /\ l.agenda # <<"start", "scan">> /\ k.agenda # <<"start", "scan">>
<1>1. CASE k.agenda \in {<<"reap", "looked">>, <<"wait", "looked">>}
  <2>1. l.agenda \in {<<"looked">>, <<"reap", "looked">>}
    BY <1>1, Reaped
  <2> QED BY <1>1, <2>1 DEF Runs, Plain
<1>2. CASE k.agenda \notin {<<"reap", "looked">>, <<"wait", "looked">>}
  <2>1. /\ Head(k.agenda) = "reap" /\ k.agenda # << >>
        /\ \/ k.agenda = <<"reap", "token", "scan">>
           \/ /\ k.waiting_jobs # << >>
              /\ k.agenda \in {<<"reap", "take_waiting", "reap_or_wait">>,
                               <<"reap", "take_waiting", "reap", "token", "scan">>,
                               <<"reap", "reap", "take_waiting", "recheck", "scan">>,
                               <<"reap", "take_waiting", "recheck", "scan">>}
           \/ k.waiting_jobs = << >> /\ k.agenda = <<"reap", "recheck", "scan">>
    BY <1>2 DEF Runs, Plain, WithWaiting, NoneWaiting
  <2>2. <<Head(k.agenda)>> \o Tail(k.agenda) = k.agenda
    BY <2>1, Pushed
  <2>3. CASE l.agenda = k.agenda
    BY <2>1, <2>3 DEF Runs, Plain, WithWaiting, NoneWaiting
  <2>4. CASE l.agenda = Tail(k.agenda)
    <3>1. \/ l.agenda = <<"token", "scan">>
          \/ /\ l.waiting_jobs # << >>
             /\ l.agenda \in {<<"take_waiting", "reap_or_wait">>, <<"take_waiting", "reap", "token", "scan">>,
                              <<"reap", "take_waiting", "recheck", "scan">>,
                              <<"take_waiting", "recheck", "scan">>}
          \/ l.waiting_jobs = << >> /\ l.agenda = <<"recheck", "scan">>
      BY <2>1, <2>4, Tails
    <3>2. l.agenda # <<"start", "scan">> /\ k.agenda # <<"start", "scan">>
      BY <2>1, <3>1
    <3>3. CASE l.agenda = <<"token", "scan">>
      BY <3>2, <3>3 DEF Runs, Plain
    <3>4. CASE /\ l.waiting_jobs # << >>
               /\ l.agenda \in {<<"take_waiting", "reap_or_wait">>, <<"take_waiting", "reap", "token", "scan">>,
                                <<"reap", "take_waiting", "recheck", "scan">>,
                                <<"take_waiting", "recheck", "scan">>}
      BY <3>2, <3>4 DEF Runs, WithWaiting
    <3>5. CASE l.waiting_jobs = << >> /\ l.agenda = <<"recheck", "scan">>
      BY <3>2, <3>5 DEF Runs
    <3> QED BY <3>1, <3>3, <3>4, <3>5, <3>2
  <2> QED BY <2>1, <2>2, <2>3, <2>4
<1> QED BY <1>1, <1>2

\* Agendas of a dying make.
LEMMA AtDying ==
  ASSUME NEW k, NEW held, Dies(k, held)
  PROVE  /\ Head(k.agenda) \in {"die", "wait", "reap", "clean_jobserver", "acquire_all"}
         /\ Head(k.agenda) = "die" => k.agenda = <<"die">>
         /\ Head(k.agenda) = "clean_jobserver" => k.agenda = <<"clean_jobserver">>
         /\ Head(k.agenda) = "acquire_all" => k.agenda = <<"acquire_all">>
         /\ Head(k.agenda) \in {"reap", "wait"} =>
               Tail(k.agenda) = <<"die">> /\ <<"reap">> \o Tail(k.agenda) = <<"reap", "die">>
<1>1. k.agenda \in {<<"die">>, <<"wait", "die">>, <<"reap", "die">>, <<"clean_jobserver">>, <<"acquire_all">>}
  BY DEF Dies
<1>2. Head(k.agenda) \in {"reap", "wait"} => k.agenda \in {<<"reap", "die">>, <<"wait", "die">>}
  BY <1>1
<1>3. Head(k.agenda) \in {"reap", "wait"} =>
         Tail(k.agenda) = <<"die">> /\ <<"reap">> \o Tail(k.agenda) = <<"reap", "die">>
  BY <1>2, Reaped
<1> QED BY <1>1, <1>3

LEMMA AtKilled ==
  ASSUME NEW k, NEW held, Killed(k, held)
  PROVE  /\ Head(k.agenda) \in {"kill", "wait", "reap"}
         /\ Head(k.agenda) = "kill" => k.agenda = <<"kill">>
         /\ Head(k.agenda) \in {"reap", "wait"} =>
               /\ k.jobserver_tokens >= Cardinality(held)
               /\ Tail(k.agenda) = <<"kill">> /\ <<"reap">> \o Tail(k.agenda) = <<"reap", "kill">>
<1>1. k.agenda \in {<<"kill">>, <<"wait", "kill">>, <<"reap", "kill">>}
  BY DEF Killed
<1>2. Head(k.agenda) \in {"reap", "wait"} =>
         k.agenda \in {<<"reap", "kill">>, <<"wait", "kill">>} /\ k.jobserver_tokens >= Cardinality(held)
  BY <1>1 DEF Killed
<1>3. Head(k.agenda) \in {"reap", "wait"} =>
         Tail(k.agenda) = <<"kill">> /\ <<"reap">> \o Tail(k.agenda) = <<"reap", "kill">>
  BY <1>2, Reaped
<1> QED BY <1>1, <1>2, <1>3

----------------------------------------------------------------------------
(***************************************************************************)
(* Steps that change the record of one make only.                          *)
(***************************************************************************)

LEMMA OwnStep ==
  ASSUME TokensInv, NEW m \in Makes, NEW k \in MakeState,
         make' = [make EXCEPT ![m] = k], make[m].proc \notin {"unborn", "exited"},
         MakeOK(k, TokenJobs(m), SlotJobs(m), WaitJobs(m), PendingJobs(m)),
         k.proc = "dying" /\ k.agenda = <<"acquire_all">> => m = Root,
         pipe' \in Nat, pipe' + Extra(k) = pipe + Extra(make[m]),
         UNCHANGED <<keep_going_flag, job, internal, lost>>
  PROVE  TokensInv'
<1>1. make \in [Makes -> MakeState] /\ Makes_OK /\ Jobs_OK /\ LinesAhead /\ Sum /\ lost \in Nat /\ pipe \in Nat
  BY DEF TokensInv, Makes_OK, Sum
<1>2. make' \in [Makes -> MakeState] /\ make'[m] = k /\ \A n \in Makes \ {m} : make'[n] = make[n]
  BY <1>1
<1>3. Makes_OK'
  <2>1. MakeWell(m)'
    BY <1>2 DEF MakeWell, TokenJobs, SlotJobs, WaitJobs, PendingJobs, JobsOf
  <2>2. \A n \in Makes \ {m} : Beside(make[n], make'[n])
    BY <1>2 DEF Beside, SameFields
  <2>3. job' \in [Jobs -> JobState] /\ \A j \in Jobs : SameJob(job[j], job'[j])
    BY <1>1 DEF Jobs_OK, SameJob
  <2> QED BY <1>1, <1>2, <2>1, <2>2, <2>3, StepKeepsMakes
<1>4. Jobs_OK'
  BY <1>1 DEF Jobs_OK
<1>5. LinesAhead'
  <2>1. \A i \in Jobs : job'[i].command_line >= job[i].command_line /\ job'[i].command_line \in Nat
    BY <1>1 DEF Jobs_OK, JobState
  <2>2. \A i \in Makes \ {NoMake} : make[i].proc = "unborn" => make'[i].proc = "unborn"
    BY <1>2
  <2> QED BY <1>1, <2>1, <2>2, StepKeepsLines, JobserverAssumption
<1>6. Sum'
  <2>1. Extra(k) \in Nat /\ Extra(make[m]) \in Nat
    BY <1>1, HeldByOne
  <2>2. pipe' + lost' + Extra(make'[m]) = pipe + lost + Extra(make[m])
    BY <1>1, <1>2, <2>1
  <2>3. \A n \in Makes \ {m} : SameFields(make[n], make'[n])
    BY <1>2 DEF SameFields
  <2>4. make[Root].proc = "exited" => make'[Root].proc = "exited"
    BY <1>2
  <2> QED BY <1>1, <1>2, <2>2, <2>3, <2>4, StepKeepsSum
<1> QED BY <1>3, <1>4, <1>5, <1>6 DEF TokensInv, NoInternalError

LEMMA OnlyRunning ==
  ASSUME TokensInv, NEW m \in Makes, NEW op, At(m, op),
         op \in {"reap_or_wait", "looked", "scan", "take_waiting", "token", "pre_acquire", "recheck",
                 "acquire", "start"}
  PROVE  make[m].proc = "running" /\ Runs(make[m]) /\ Head(make[m].agenda) = op
<1>1. MakeWell(m) /\ Head(make[m].agenda) = op /\ make[m].proc \in {"running", "dying", "signalled"}
  BY DEF TokensInv, Makes_OK, MakeWell, At, Alive
<1>2. make[m].proc # "dying"
  BY <1>1, AtDying DEF MakeWell, MakeOK
<1>3. make[m].proc # "signalled"
  BY <1>1, AtKilled DEF MakeWell, MakeOK
<1> QED BY <1>1, <1>2, <1>3 DEF MakeWell, MakeOK

\* A running make that goes on to run.
LEMMA RunStep ==
  ASSUME TokensInv, NEW m \in Makes, make[m].proc = "running",
         make' \in [Makes -> MakeState], \A n \in Makes \ {m} : make'[n] = make[n],
         make'[m].proc = "running", make'[m].jobserver_enabled = make[m].jobserver_enabled,
         make'[m].job_slots_used = make[m].job_slots_used, make'[m].waiting_jobs = make[m].waiting_jobs,
         Runs(make'[m]), make'[m].newjob \subseteq PendingJobs(m), \A i, j \in make'[m].newjob : i = j,
         make'[m].jobserver_tokens - (IF make'[m].agenda = <<"start", "scan">> THEN 1 ELSE 0)
            = make[m].jobserver_tokens - (IF make[m].agenda = <<"start", "scan">> THEN 1 ELSE 0),
         pipe' \in Nat, pipe' + Extra(make'[m]) = pipe + Extra(make[m]),
         UNCHANGED <<keep_going_flag, job, internal, lost>>
  PROVE  TokensInv'
<1> DEFINE k == make'[m]
<1>1. /\ MakeWell(m) /\ k.jobserver_tokens \in Nat /\ make[m].jobserver_tokens \in Nat /\ k \in MakeState
      /\ make \in [Makes -> MakeState]
  BY DEF TokensInv, Makes_OK, MakeWell, MakeState
<1>2. IsFiniteSet(TokenJobs(m)) /\ Cardinality(TokenJobs(m)) \in Nat
  BY JobSetsFinite, FS_CardinalityType DEF TokensInv
<1>3. MakeOK(k, TokenJobs(m), SlotJobs(m), WaitJobs(m), PendingJobs(m))
  <2>1. k.jobserver_tokens = IF k.agenda = <<"start", "scan">> THEN Cardinality(TokenJobs(m)) + 1
                             ELSE Cardinality(TokenJobs(m))
    BY <1>1, <1>2 DEF MakeWell, MakeOK
  <2> QED BY <1>1, <2>1 DEF MakeWell, MakeOK
<1>4. make' = [make EXCEPT ![m] = k]
  BY <1>1
<1>5. k.proc # "dying"
  OBVIOUS
<1> HIDE DEF k
<1>6. pipe' + Extra(k) = pipe + Extra(make[m])
  BY DEF k
<1> QED BY <1>1, <1>3, <1>4, <1>5, <1>6, OwnStep

SameTokens(k, l) ==
    /\ l.jobserver_tokens = k.jobserver_tokens /\ l.jobserver_enabled = k.jobserver_enabled
    /\ l.job_slots_used = k.job_slots_used /\ l.waiting_jobs = k.waiting_jobs

\* The same tokens, with another agenda.
LEMMA TurnStep ==
  ASSUME TokensInv, NEW m \in Makes, make[m].proc = "running",
         make' \in [Makes -> MakeState], \A n \in Makes \ {m} : make'[n] = make[n],
         make'[m].proc = "running", SameTokens(make[m], make'[m]),
         Runs(make'[m]), make'[m].newjob \subseteq PendingJobs(m), \A i, j \in make'[m].newjob : i = j,
         make'[m].agenda # <<"start", "scan">>, make[m].agenda # <<"start", "scan">>,
         UNCHANGED Others
  PROVE  TokensInv'
<1>1. make'[m] \in MakeState /\ make[m] \in MakeState /\ pipe \in Nat
  BY DEF TokensInv, Makes_OK, Sum
<1>2. /\ make'[m].jobserver_tokens = make[m].jobserver_tokens
      /\ make'[m].jobserver_enabled = make[m].jobserver_enabled
      /\ make'[m].job_slots_used = make[m].job_slots_used /\ make'[m].waiting_jobs = make[m].waiting_jobs
  BY DEF SameTokens
<1>3. pipe' \in Nat /\ pipe' + Extra(make'[m]) = pipe + Extra(make[m])
  BY <1>1, <1>2 DEF Extra, Others
<1> QED BY <1>2, <1>3, RunStep DEF Others, flags

\* What the steps of a running make need to know of it.
LEMMA Here ==
  ASSUME TokensInv, NEW m \in Makes, make[m].proc = "running"
  PROVE  /\ make \in [Makes -> MakeState] /\ make[m] \in MakeState /\ pipe \in Nat
         /\ make[m].newjob \subseteq PendingJobs(m) /\ \A i, j \in make[m].newjob : i = j
         /\ make[m].jobserver_enabled /\ make[m].jobserver_tokens \in Nat
         /\ Chained(make[m].waiting_jobs, WaitJobs(m)) /\ make[m].job_slots_used = Cardinality(SlotJobs(m))
         /\ make[m].jobserver_tokens = IF make[m].agenda = <<"start", "scan">>
                                       THEN Cardinality(TokenJobs(m)) + 1 ELSE Cardinality(TokenJobs(m))
BY DEF TokensInv, Makes_OK, MakeOK, MakeState, Sum

LEMMA AgendasTyped ==
  /\ Plain \subseteq Seq(Operations) /\ WithWaiting \subseteq Seq(Operations)
  /\ NoneWaiting \subseteq Seq(Operations)
BY DEF Plain, WithWaiting, NoneWaiting, Operations

\* start_waiting_jobs, before more of an agenda.
LEMMA StartWaiting ==
  ASSUME NEW w
  PROVE  /\ start_waiting_jobs(w) \o <<"reap_or_wait">>
               = IF w = << >> THEN <<"reap_or_wait">> ELSE <<"reap", "take_waiting", "reap_or_wait">>
         /\ start_waiting_jobs(w) \o <<"recheck", "scan">>
               = IF w = << >> THEN <<"recheck", "scan">> ELSE <<"reap", "take_waiting", "recheck", "scan">>
         /\ start_waiting_jobs(w) \o <<"reap", "token", "scan">>
               = IF w = << >> THEN <<"reap", "token", "scan">>
                 ELSE <<"reap", "take_waiting", "reap", "token", "scan">>
         /\ <<"pre_acquire", "reap">> \o start_waiting_jobs(w) \o <<"recheck">> \o <<"scan">>
               = IF w = << >> THEN <<"pre_acquire", "reap", "recheck", "scan">>
                 ELSE <<"pre_acquire", "reap", "reap", "take_waiting", "recheck", "scan">>
<1>1. CASE w = << >>
  <2>1. start_waiting_jobs(w) = << >>
    BY <1>1 DEF start_waiting_jobs
  <2>2. << >> \o <<"reap_or_wait">> = <<"reap_or_wait">> /\ << >> \o <<"recheck", "scan">> = <<"recheck", "scan">>
        /\ << >> \o <<"reap", "token", "scan">> = <<"reap", "token", "scan">>
    OBVIOUS
  <2> QED BY <1>1, <2>1, <2>2, Agendas
<1>2. CASE w # << >>
  BY <1>2, Agendas DEF start_waiting_jobs
<1> QED BY <1>1, <1>2

LEMMA ReapOrWaitKeeps ==
  ASSUME TokensInv, NEW m \in Makes, ReapOrWait(m)
  PROVE  TokensInv'
<1> DEFINE a == <<IF make[m].more_commands THEN "reap" ELSE "wait", "looked">>
<1>1. make[m].proc = "running" /\ Runs(make[m]) /\ Head(make[m].agenda) = "reap_or_wait"
  BY OnlyRunning DEF ReapOrWait
<1>2. make[m].agenda = <<"reap_or_wait">> /\ make \in [Makes -> MakeState]
  BY <1>1, AtRunning, Here
<1>3. a \in Plain
  BY DEF Plain
<1>4. Then(m, a) = a
  BY <1>2, Agendas DEF Then
<1>5. make' = [make EXCEPT ![m].agenda = a] /\ UNCHANGED Others
  BY <1>4 DEF ReapOrWait, Goes
<1>6. a # <<"start", "scan">>
  OBVIOUS
<1> HIDE DEF a
<1>7. /\ make' \in [Makes -> MakeState] /\ \A n \in Makes \ {m} : make'[n] = make[n]
      /\ make'[m].agenda = a /\ make'[m].proc = "running" /\ make'[m].newjob = make[m].newjob
      /\ SameTokens(make[m], make'[m])
  <2>1. a \in Seq(Operations) /\ make[m] \in MakeState
    BY <1>2, <1>3, AgendasTyped
  <2>2. [make[m] EXCEPT !.agenda = a] \in MakeState
    BY <2>1 DEF MakeState
  <2>3. make'[m] = [make[m] EXCEPT !.agenda = a] /\ \A n \in Makes \ {m} : make'[n] = make[n]
    BY <1>2, <1>5
  <2>4. make' \in [Makes -> MakeState]
    BY <1>2, <1>5, <2>2
  <2> QED BY <1>1, <2>1, <2>3, <2>4 DEF MakeState, SameTokens
<1>8. Runs(make'[m])
  BY <1>3, <1>7 DEF Runs
<1>9. /\ make'[m].newjob \subseteq PendingJobs(m) /\ \A i, j \in make'[m].newjob : i = j
      /\ make'[m].agenda # <<"start", "scan">> /\ make[m].agenda # <<"start", "scan">>
  BY <1>1, <1>2, <1>6, <1>7, Here
<1> QED BY <1>1, <1>5, <1>7, <1>8, <1>9, TurnStep

LEMMA DecideOnJobKeeps ==
  ASSUME TokensInv, NEW m \in Makes, NEW j \in Jobs, DecideOnJob(m, j)
  PROVE  TokensInv'
<1> DEFINE w == make[m].waiting_jobs
           a == start_waiting_jobs(w) \o <<"reap", "token", "scan">>
           more == make[m].more_commands /\ At(m, "scan")
<1>1. make[m].proc = "running" /\ Runs(make[m]) /\ Head(make[m].agenda) \in {"looked", "scan"}
  BY OnlyRunning DEF DecideOnJob, Scanning
<1>2. /\ make[m].agenda \in {<<"looked">>, <<"scan">>}
      /\ make \in [Makes -> MakeState] /\ more \in BOOLEAN
  BY <1>1, AtRunning, Here
<1>3. a = IF w = << >> THEN <<"reap", "token", "scan">>
          ELSE <<"reap", "take_waiting", "reap", "token", "scan">>
  BY StartWaiting
<1>4. a \in Plain \/ (a \in WithWaiting /\ w # << >>)
  BY <1>3 DEF Plain, WithWaiting
<1>5. {j} \subseteq PendingJobs(m) /\ UNCHANGED Others
  BY DEF DecideOnJob, PendingJobs, JobsOf
<1>6. a # <<"start", "scan">>
  BY <1>3
<1>10. make' = [make EXCEPT ![m].agenda = a, ![m].more_commands = more, ![m].newjob = {j}]
  BY DEF DecideOnJob
<1>12. a \in Seq(Operations)
  BY <1>4, AgendasTyped
<1> HIDE DEF a, more, w
<1>13. make[m] \in MakeState
  BY <1>2
<1>14. [make[m] EXCEPT !.agenda = a, !.more_commands = more, !.newjob = {j}] \in MakeState
  BY <1>2, <1>12, <1>13 DEF MakeState
<1>15. make' \in [Makes -> MakeState]
  BY <1>2, <1>10, <1>14
<1>7. /\ \A n \in Makes \ {m} : make'[n] = make[n]
      /\ make'[m].agenda = a /\ make'[m].proc = "running" /\ make'[m].newjob = {j}
      /\ SameTokens(make[m], make'[m])
  BY <1>1, <1>2, <1>10, <1>13 DEF MakeState, SameTokens
<1>8. Runs(make'[m])
  BY <1>4, <1>7 DEF Runs, SameTokens, w
<1>9. /\ make'[m].newjob \subseteq PendingJobs(m) /\ \A i, l \in make'[m].newjob : i = l
      /\ make'[m].agenda # <<"start", "scan">> /\ make[m].agenda # <<"start", "scan">>
  BY <1>2, <1>5, <1>6, <1>7
<1> QED BY <1>1, <1>5, <1>7, <1>8, <1>9, <1>15, TurnStep

LEMMA EndScanKeeps ==
  ASSUME TokensInv, NEW m \in Makes, EndScan(m)
  PROVE  TokensInv'
<1> DEFINE w == make[m].waiting_jobs
           a == start_waiting_jobs(w) \o <<"reap_or_wait">>
           more == make[m].more_commands /\ At(m, "scan")
<1>1. make[m].proc = "running" /\ Runs(make[m]) /\ Head(make[m].agenda) \in {"looked", "scan"}
  BY OnlyRunning DEF EndScan, Scanning
<1>2. /\ make[m].agenda \in {<<"looked">>, <<"scan">>}
      /\ make \in [Makes -> MakeState] /\ more \in BOOLEAN
  BY <1>1, AtRunning, Here
<1>3. a = IF w = << >> THEN <<"reap_or_wait">> ELSE <<"reap", "take_waiting", "reap_or_wait">>
  BY StartWaiting
<1>4. a \in Plain \/ (a \in WithWaiting /\ w # << >>)
  BY <1>3 DEF Plain, WithWaiting
<1>11. UNCHANGED Others
  BY DEF EndScan
<1>8. make' = [make EXCEPT ![m].agenda = a, ![m].more_commands = more]
  BY DEF EndScan
<1>12. a \in Seq(Operations)
  BY <1>4, AgendasTyped
<1> HIDE DEF a, more, w
<1>5. a # <<"start", "scan">>
  BY <1>3
<1>13. make[m] \in MakeState
  BY <1>2
<1>14. [make[m] EXCEPT !.agenda = a, !.more_commands = more] \in MakeState
  BY <1>2, <1>12, <1>13 DEF MakeState
<1>15. make' \in [Makes -> MakeState]
  BY <1>2, <1>8, <1>14
<1>6. /\ \A n \in Makes \ {m} : make'[n] = make[n]
      /\ make'[m].agenda = a /\ make'[m].proc = "running" /\ make'[m].newjob = make[m].newjob
      /\ SameTokens(make[m], make'[m])
  BY <1>1, <1>2, <1>8, <1>13 DEF MakeState, SameTokens
<1>7. Runs(make'[m])
  BY <1>4, <1>6 DEF Runs, SameTokens, w
<1>9. /\ make'[m].newjob \subseteq PendingJobs(m) /\ \A i, j \in make'[m].newjob : i = j
      /\ make'[m].agenda # <<"start", "scan">> /\ make[m].agenda # <<"start", "scan">>
  BY <1>1, <1>2, <1>5, <1>6, Here
<1> QED BY <1>1, <1>11, <1>6, <1>7, <1>9, <1>15, TurnStep

LEMMA OneMake ==
  ASSUME make \in [Makes -> MakeState], NEW m \in Makes, NEW k \in MakeState,
         make' = [make EXCEPT ![m] = k]
  PROVE  /\ make' \in [Makes -> MakeState] /\ make'[m] = k /\ \A n \in Makes \ {m} : make'[n] = make[n]
OBVIOUS

\* A token comes from the pipe, or is the one the make was born with.
LEMMA TakesToken ==
  ASSUME TokensInv, NEW m \in Makes, make[m].proc = "running",
         make[m].agenda \in {<<"token", "scan">>, <<"recheck", "scan">>, <<"acquire", "scan">>},
         GetsToken(m), UNCHANGED <<keep_going_flag, job, internal, lost>>,
         \/ make[m].jobserver_tokens = 0 /\ pipe' = pipe
         \/ make[m].jobserver_tokens > 0 /\ pipe > 0 /\ pipe' = pipe - 1
  PROVE  TokensInv'
<1> DEFINE t == make[m].jobserver_tokens
           k == [make[m] EXCEPT !.agenda = <<"start", "scan">>, !.jobserver_tokens = t + 1]
<1>1. /\ make \in [Makes -> MakeState] /\ make[m] \in MakeState /\ pipe \in Nat /\ t \in Nat
      /\ make[m].newjob \subseteq PendingJobs(m) /\ \A i, j \in make[m].newjob : i = j
      /\ make[m].jobserver_enabled
  BY Here
<1>2. Tail(<<"token", "scan">>) = <<"scan">> /\ Tail(<<"recheck", "scan">>) = <<"scan">>
      /\ Tail(<<"acquire", "scan">>) = <<"scan">>
  OBVIOUS
<1>3. Then(m, <<"start">>) = <<"start", "scan">>
  BY <1>2, Agendas DEF Then
<1>4. make' = [make EXCEPT ![m] = k]
  BY <1>3 DEF GetsToken
<1>5. <<"start", "scan">> \in Seq(Operations)
  BY DEF Operations
<1>6. /\ k \in MakeState /\ k.agenda = <<"start", "scan">> /\ k.jobserver_tokens = t + 1
      /\ k.proc = "running" /\ k.newjob = make[m].newjob
      /\ k.jobserver_enabled = make[m].jobserver_enabled /\ k.job_slots_used = make[m].job_slots_used
      /\ k.waiting_jobs = make[m].waiting_jobs
  <2>1. t + 1 \in Nat /\ make[m] \in MakeState
    BY <1>1
  <2> HIDE DEF t
  <2>2. k \in MakeState
    BY <1>5, <2>1 DEF MakeState
  <2> QED BY <2>1, <2>2 DEF MakeState
<1> HIDE DEF k
<1>7. make' \in [Makes -> MakeState] /\ make'[m] = k /\ \A n \in Makes \ {m} : make'[n] = make[n]
  BY <1>1, <1>4, <1>6, OneMake
<1>8. Runs(k) /\ make[m].agenda # <<"start", "scan">>
  BY <1>6 DEF Runs, Plain
<1>9. pipe' \in Nat /\ pipe' + Extra(k) = pipe + Extra(make[m])
  BY <1>1, <1>6 DEF Extra
<1>10. k.newjob \subseteq PendingJobs(m) /\ \A i, j \in k.newjob : i = j
  BY <1>1, <1>6
<1>11. k.jobserver_tokens - (IF k.agenda = <<"start", "scan">> THEN 1 ELSE 0)
          = make[m].jobserver_tokens - (IF make[m].agenda = <<"start", "scan">> THEN 1 ELSE 0)
  BY <1>1, <1>6, <1>8
<1> QED BY <1>6, <1>7, <1>8, <1>9, <1>10, <1>11, RunStep

LEMMA NeedTokenKeeps ==
  ASSUME TokensInv, NEW m \in Makes, NeedToken(m)
  PROVE  TokensInv'
<1> DEFINE w == make[m].waiting_jobs
           ops == <<"pre_acquire", "reap">> \o start_waiting_jobs(w) \o <<"recheck">>
           a == ops \o <<"scan">>
           k == [make[m] EXCEPT !.agenda = a]
<1>1. make[m].proc = "running" /\ Runs(make[m]) /\ Head(make[m].agenda) = "token"
  BY OnlyRunning DEF NeedToken
<1>2. make[m].agenda = <<"token", "scan">> /\ make \in [Makes -> MakeState] /\ make[m] \in MakeState
  BY <1>1, AtRunning, Here
<1>3. UNCHANGED <<pipe, keep_going_flag, job, internal, lost>> /\ UNCHANGED Others
  BY DEF NeedToken, Others, flags
<1>4. CASE make[m].jobserver_tokens = 0
  BY <1>1, <1>2, <1>3, <1>4, TakesToken DEF NeedToken
<1>5. CASE make[m].jobserver_tokens # 0
  <2>1. make' = [make EXCEPT ![m] = k]
    BY <1>2, <1>5 DEF NeedToken, Goes, Then
  <2>2. a = IF w = << >> THEN <<"pre_acquire", "reap", "recheck", "scan">>
            ELSE <<"pre_acquire", "reap", "reap", "take_waiting", "recheck", "scan">>
    BY StartWaiting
  <2> HIDE DEF a
  <2>3. (a \in NoneWaiting /\ w = << >>) \/ (a \in WithWaiting /\ w # << >>)
    BY <2>2 DEF NoneWaiting, WithWaiting
  <2>4. a \in Seq(Operations) /\ a # <<"start", "scan">>
    BY <2>2, <2>3, AgendasTyped
  <2>5. /\ k \in MakeState /\ k.agenda = a /\ k.waiting_jobs = w /\ k.proc = "running"
        /\ k.newjob = make[m].newjob /\ SameTokens(make[m], k)
    BY <1>1, <1>2, <2>4 DEF MakeState, SameTokens
  <2> HIDE DEF k
  <2>6. make' \in [Makes -> MakeState] /\ make'[m] = k /\ \A n \in Makes \ {m} : make'[n] = make[n]
    BY <1>2, <2>1, <2>5, OneMake
  <2>7. Runs(k)
    BY <2>3, <2>5 DEF Runs
  <2>8. k.newjob \subseteq PendingJobs(m) /\ \A i, j \in k.newjob : i = j
    BY <1>1, <2>5, Here
  <2>9. make[m].agenda # <<"start", "scan">>
    BY <1>2
  <2>10. make'[m].agenda # <<"start", "scan">>
    BY <2>4, <2>5, <2>6
  <2> QED BY <1>1, <1>3, <2>5, <2>6, <2>7, <2>8, <2>9, <2>10, TurnStep
<1> QED BY <1>4, <1>5

\* m turns to agenda a, with the same tokens, jobs to start and the like.
LEMMA GoesOn ==
  ASSUME TokensInv, NEW m \in Makes, make[m].proc = "running", make[m].agenda # <<"start", "scan">>,
         NEW a \in Seq(Operations), a # <<"start", "scan">>, NEW chld \in BOOLEAN,
         make' = [make EXCEPT ![m] = [make[m] EXCEPT !.agenda = a, !.sigchld = chld]],
         UNCHANGED Others,
         \/ a \in Plain
         \/ a \in WithWaiting /\ make[m].waiting_jobs # << >>
         \/ a \in NoneWaiting /\ make[m].waiting_jobs = << >>
         \/ a = <<"recheck", "scan">> /\ (make[m].waiting_jobs = << >> \/ make[m].job_slots_used > 0)
         \/ a = <<"acquire", "scan">> /\ make[m].jobserver_tokens > 0
  PROVE  TokensInv'
<1> DEFINE k == [make[m] EXCEPT !.agenda = a, !.sigchld = chld]
<1>1. make \in [Makes -> MakeState] /\ make[m] \in MakeState
  BY Here
<1>2. k \in MakeState
  BY <1>1 DEF MakeState
<1>3. k.agenda = a /\ k.proc = "running" /\ k.newjob = make[m].newjob /\ SameTokens(make[m], k)
  BY <1>1 DEF MakeState, SameTokens
<1>4. make' = [make EXCEPT ![m] = k]
  OBVIOUS
<1> HIDE DEF k
<1>5. make' \in [Makes -> MakeState] /\ make'[m] = k /\ \A n \in Makes \ {m} : make'[n] = make[n]
  BY <1>1, <1>2, <1>4, OneMake
<1>6. Runs(k)
  BY <1>3 DEF Runs, SameTokens
<1>7. k.newjob \subseteq PendingJobs(m) /\ \A i, j \in k.newjob : i = j
  BY <1>3, Here
<1>8. make'[m].agenda # <<"start", "scan">>
  BY <1>3, <1>5
<1> QED BY <1>3, <1>5, <1>6, <1>7, <1>8, TurnStep

LEMMA PreAcquireKeeps ==
  ASSUME TokensInv, NEW m \in Makes, jobserver_pre_acquire(m)
  PROVE  TokensInv'
<1> DEFINE a == Tail(make[m].agenda)
           chld == IF HAVE_PSELECT THEN make[m].sigchld ELSE FALSE
<1>1. make[m].proc = "running" /\ Runs(make[m]) /\ Head(make[m].agenda) = "pre_acquire"
  BY OnlyRunning DEF jobserver_pre_acquire
<1>2. \/ make[m].agenda = <<"pre_acquire", "reap", "recheck", "scan">> /\ make[m].waiting_jobs = << >>
      \/ /\ make[m].agenda = <<"pre_acquire", "reap", "reap", "take_waiting", "recheck", "scan">>
         /\ make[m].waiting_jobs # << >>
  BY <1>1, AtRunning
<1>3. /\ Tail(<<"pre_acquire", "reap", "recheck", "scan">>) = <<"reap", "recheck", "scan">>
      /\ Tail(<<"pre_acquire", "reap", "reap", "take_waiting", "recheck", "scan">>)
            = <<"reap", "reap", "take_waiting", "recheck", "scan">>
  OBVIOUS
<1>4. make[m].agenda # <<"start", "scan">>
  BY <1>2
<1>5. chld \in BOOLEAN
  BY <1>1, Here DEF MakeState
<1>6. a \in Seq(Operations) /\ << >> \o a = a
  <2>1. a \in {<<"reap", "recheck", "scan">>, <<"reap", "reap", "take_waiting", "recheck", "scan">>}
    BY <1>2, <1>3
  <2> HIDE DEF a
  <2>2. a \in Seq(Operations)
    BY <2>1, AgendasTyped DEF NoneWaiting, WithWaiting
  <2> QED BY <2>2, ConcatEmptySeq
<1>7. make' = [make EXCEPT ![m] = [make[m] EXCEPT !.agenda = a, !.sigchld = chld]]
  BY <1>6 DEF jobserver_pre_acquire, Then
<1>8. UNCHANGED Others
  BY DEF jobserver_pre_acquire
<1>9. (a \in NoneWaiting /\ make[m].waiting_jobs = << >>) \/ (a \in WithWaiting /\ make[m].waiting_jobs # << >>)
  BY <1>2, <1>3 DEF NoneWaiting, WithWaiting
<1> HIDE DEF a, chld
<1>10. a # <<"start", "scan">>
  BY <1>9 DEF NoneWaiting, WithWaiting
<1> QED BY <1>1, <1>4, <1>5, <1>6, <1>7, <1>8, <1>9, <1>10, GoesOn

LEMMA RecheckKeeps ==
  ASSUME TokensInv, NEW m \in Makes, Recheck(m)
  PROVE  TokensInv'
<1>1. make[m].proc = "running" /\ Runs(make[m]) /\ Head(make[m].agenda) = "recheck"
  BY OnlyRunning DEF Recheck
<1>2. /\ make[m].agenda = <<"recheck", "scan">> /\ make[m] \in MakeState
      /\ make[m].waiting_jobs = << >> \/ make[m].job_slots_used > 0
  BY <1>1, AtRunning, Here
<1>3. ~(make[m].jobserver_tokens # 0 /\ children(m) = {})
  <2> SUFFICES ASSUME make[m].jobserver_tokens # 0, children(m) = {} PROVE FALSE
    OBVIOUS
  <2>1. /\ SlotJobs(m) = {} /\ TokenJobs(m) = WaitJobs(m)
    BY JobSetsFinite DEF TokensInv
  <2>2. /\ make[m].jobserver_tokens = Cardinality(TokenJobs(m))
        /\ make[m].job_slots_used = Cardinality(SlotJobs(m)) /\ Chained(make[m].waiting_jobs, WaitJobs(m))
    BY <1>1, <1>2, Here
  <2>3. make[m].waiting_jobs = << >>
    BY <1>2, <2>1, <2>2, FS_EmptySet
  <2>4. WaitJobs(m) = {}
    BY <2>2, <2>3 DEF Chained
  <2> QED BY <2>1, <2>2, <2>4, FS_EmptySet
<1>4. /\ internal' = internal /\ UNCHANGED <<pipe, flags, job, spawnFailures, lost>>
      /\ IF make[m].jobserver_tokens = 0 THEN GetsToken(m) ELSE Goes(m, <<"acquire">>)
  BY <1>3 DEF Recheck, TokensInv
<1>5. CASE make[m].jobserver_tokens = 0
  BY <1>1, <1>2, <1>4, <1>5, TakesToken DEF flags
<1>6. CASE make[m].jobserver_tokens # 0
  <2>1. Tail(<<"recheck", "scan">>) = <<"scan">> /\ <<"acquire", "scan">> \in Seq(Operations)
    BY DEF Operations
  <2>2. Then(m, <<"acquire">>) = <<"acquire", "scan">>
    BY <1>2, <2>1, Agendas DEF Then
  <2>3. make' = [make EXCEPT ![m].agenda = <<"acquire", "scan">>]
    BY <1>4, <1>6, <2>2 DEF Goes
  <2>4. [make[m] EXCEPT !.agenda = <<"acquire", "scan">>]
           = [make[m] EXCEPT !.agenda = <<"acquire", "scan">>, !.sigchld = make[m].sigchld]
    BY <1>2 DEF MakeState
  <2>5. make[m].sigchld \in BOOLEAN /\ make[m].jobserver_tokens > 0 /\ make[m].agenda # <<"start", "scan">>
    BY <1>2, <1>6 DEF MakeState
  <2>6. make' = [make EXCEPT ![m] = [make[m] EXCEPT !.agenda = <<"acquire", "scan">>, !.sigchld = make[m].sigchld]]
    BY <2>3, <2>4
  <2> QED BY <1>1, <1>4, <2>1, <2>5, <2>6, GoesOn DEF Others
<1> QED BY <1>5, <1>6

LEMMA AcquireKeeps ==
  ASSUME TokensInv, NEW m \in Makes, jobserver_acquire(m)
  PROVE  TokensInv'
<1>1. make[m].proc = "running" /\ Runs(make[m]) /\ Head(make[m].agenda) = "acquire"
  BY OnlyRunning DEF jobserver_acquire
<1>2. make[m].agenda = <<"acquire", "scan">> /\ make[m].jobserver_tokens > 0
  BY <1>1, AtRunning
<1> QED BY <1>1, <1>2, TakesToken DEF jobserver_acquire, flags

LEMMA AcquireInterruptedKeeps ==
  ASSUME TokensInv, NEW m \in Makes, AcquireInterrupted(m)
  PROVE  TokensInv'
<1> DEFINE chld == IF HAVE_PSELECT THEN FALSE ELSE make[m].sigchld
<1>1. make[m].proc = "running" /\ Runs(make[m]) /\ Head(make[m].agenda) = "acquire"
  BY OnlyRunning DEF AcquireInterrupted
<1>2. make[m].agenda = <<"acquire", "scan">> /\ make[m] \in MakeState
  BY <1>1, AtRunning, Here
<1>3. Tail(<<"acquire", "scan">>) = <<"scan">> /\ <<"token", "scan">> \in Seq(Operations)
  BY DEF Operations
<1>4. Then(m, <<"token">>) = <<"token", "scan">>
  BY <1>2, <1>3, Agendas DEF Then
<1>5. make' = [make EXCEPT ![m] = [make[m] EXCEPT !.agenda = <<"token", "scan">>, !.sigchld = chld]]
  BY <1>4 DEF AcquireInterrupted
<1>6. chld \in BOOLEAN /\ <<"token", "scan">> # <<"start", "scan">> /\ <<"token", "scan">> \in Plain
  BY <1>2 DEF MakeState, Plain
<1>7. make[m].agenda # <<"start", "scan">> /\ UNCHANGED Others
  BY <1>2 DEF AcquireInterrupted
<1> HIDE DEF chld
<1> QED BY <1>1, <1>3, <1>5, <1>6, <1>7, GoesOn

----------------------------------------------------------------------------
(***************************************************************************)
(* On the way out.                                                         *)
(***************************************************************************)

\* A make that runs or dies goes on to die.
LEMMA DyingStep ==
  ASSUME TokensInv, NEW m \in Makes, make[m].proc \in {"running", "dying"},
         make[m].jobserver_tokens = Cardinality(TokenJobs(m)),
         make[m].status # 2 => TokenJobs(m) = {},
         NEW a \in {<<"die">>, <<"wait", "die">>, <<"reap", "die">>, <<"clean_jobserver">>},
         a = <<"clean_jobserver">> => make[m].job_slots_used = 0,
         make' = [make EXCEPT ![m] = [make[m] EXCEPT !.agenda = a, !.proc = "dying"]],
         UNCHANGED Others
  PROVE  TokensInv'
<1> DEFINE k == [make[m] EXCEPT !.agenda = a, !.proc = "dying"]
<1>1. make[m] \in MakeState /\ MakeWell(m) /\ pipe \in Nat
  BY DEF TokensInv, Makes_OK, MakeWell, Sum
<1>2. a \in Seq(Operations)
  <2>1. <<"die">> \in Seq(Operations) /\ <<"wait", "die">> \in Seq(Operations) /\ <<"reap", "die">> \in Seq(Operations) /\ <<"clean_jobserver">> \in Seq(Operations)
    BY DEF Operations
  <2> QED BY <2>1
<1>3. k \in MakeState /\ k.proc = "dying" /\ k.agenda = a /\ k.status = make[m].status /\ SameTokens(make[m], k)
  BY <1>1, <1>2 DEF MakeState, SameTokens
<1>4. make' = [make EXCEPT ![m] = k]
  OBVIOUS
<1> HIDE DEF k
<1>5. MakeOK(k, TokenJobs(m), SlotJobs(m), WaitJobs(m), PendingJobs(m))
  <2>1. Dies(k, TokenJobs(m))
    BY <1>3 DEF Dies, SameTokens
  <2> QED BY <1>1, <1>3, <2>1 DEF MakeOK, MakeWell, SameTokens
<1>6. pipe' \in Nat /\ pipe' + Extra(k) = pipe + Extra(make[m])
  BY <1>1, <1>3 DEF Extra, SameTokens, Others
<1>7. k.agenda # <<"acquire_all">>
  BY <1>3
<1> QED BY <1>3, <1>4, <1>5, <1>6, <1>7, OwnStep DEF Others, flags

LEMMA KilledStep ==
  ASSUME TokensInv, NEW m \in Makes, make[m].proc = "signalled",
         NEW a \in {<<"kill">>, <<"wait", "kill">>, <<"reap", "kill">>},
         \/ a = <<"kill">> /\ make[m].job_slots_used = 0
         \/ make[m].jobserver_tokens >= Cardinality(TokenJobs(m)),
         make' = [make EXCEPT ![m] = [make[m] EXCEPT !.agenda = a]], UNCHANGED Others
  PROVE  TokensInv'
<1> DEFINE k == [make[m] EXCEPT !.agenda = a]
<1>1. make[m] \in MakeState /\ MakeWell(m) /\ pipe \in Nat
  BY DEF TokensInv, Makes_OK, MakeWell, Sum
<1>2. a \in Seq(Operations)
  <2>1. <<"kill">> \in Seq(Operations) /\ <<"wait", "kill">> \in Seq(Operations) /\ <<"reap", "kill">> \in Seq(Operations)
    BY DEF Operations
  <2> QED BY <2>1
<1>3. k \in MakeState /\ k.proc = "signalled" /\ k.agenda = a /\ SameTokens(make[m], k)
  BY <1>1, <1>2 DEF MakeState, SameTokens
<1>4. make' = [make EXCEPT ![m] = k]
  OBVIOUS
<1> HIDE DEF k
<1>5. MakeOK(k, TokenJobs(m), SlotJobs(m), WaitJobs(m), PendingJobs(m))
  <2>1. Killed(k, TokenJobs(m))
    BY <1>3 DEF Killed, SameTokens
  <2> QED BY <1>1, <1>3, <2>1 DEF MakeOK, MakeWell, SameTokens
<1>6. pipe' \in Nat /\ pipe' + Extra(k) = pipe + Extra(make[m])
  BY <1>1, <1>3 DEF Extra, SameTokens, Others
<1> QED BY <1>3, <1>4, <1>5, <1>6, OwnStep DEF Others, flags

LEMMA AllConsideredKeeps ==
  ASSUME TokensInv, NEW m \in Makes, AllConsidered(m)
  PROVE  TokensInv'
<1>1. make[m].proc = "running" /\ Runs(make[m]) /\ Head(make[m].agenda) \in {"looked", "scan"}
  BY OnlyRunning DEF AllConsidered, Scanning
<1>2. make[m].agenda \in {<<"looked">>, <<"scan">>} /\ make[m] \in MakeState
  BY <1>1, AtRunning, Here
<1>3. make[m].jobserver_tokens = Cardinality(TokenJobs(m))
  BY <1>1, <1>2, Here
<1>4. make[m].status # 2 => TokenJobs(m) = {}
  BY DEF AllConsidered, TokenJobs, OnChain
<1>5. make' = [make EXCEPT ![m] = [make[m] EXCEPT !.agenda = <<"die">>, !.proc = "dying"]]
  BY DEF AllConsidered
<1>6. UNCHANGED Others /\ <<"die">> # <<"clean_jobserver">>
  BY DEF AllConsidered
<1> QED BY <1>1, <1>3, <1>4, <1>5, <1>6, DyingStep

\* What the agenda of a make that exits says about its tokens.
LEMMA DyingHere ==
  ASSUME TokensInv, NEW m \in Makes, make[m].proc = "dying", Head(make[m].agenda) # "acquire_all"
  PROVE  /\ make[m].jobserver_tokens = Cardinality(TokenJobs(m))
         /\ make[m].status # 2 => TokenJobs(m) = {}
         /\ Head(make[m].agenda) = "clean_jobserver" => make[m].job_slots_used = 0
<1>1. Dies(make[m], TokenJobs(m))
  BY DEF TokensInv, Makes_OK, MakeOK
<1>2. make[m].agenda # <<"acquire_all">>
  OBVIOUS
<1> QED BY <1>1, <1>2, AtDying DEF Dies

LEMMA OnlyDying ==
  ASSUME TokensInv, NEW m \in Makes, NEW op \in {"die", "clean_jobserver", "acquire_all"}, At(m, op)
  PROVE  make[m].proc = "dying" /\ make[m].agenda = <<op>> /\ Head(make[m].agenda) = op
<1>1. MakeWell(m) /\ Head(make[m].agenda) = op /\ make[m].proc \in {"running", "dying", "signalled"}
  BY DEF TokensInv, Makes_OK, MakeWell, At, Alive
<1>2. make[m].proc # "running"
  BY <1>1, AtRunning DEF MakeWell, MakeOK
<1>3. make[m].proc # "signalled"
  BY <1>1, AtKilled DEF MakeWell, MakeOK
<1> QED BY <1>1, <1>2, <1>3, AtDying DEF MakeWell, MakeOK

LEMMA DieKeeps ==
  ASSUME TokensInv, NEW m \in Makes, die(m)
  PROVE  TokensInv'
<1> DEFINE a == IF make[m].job_slots_used > 0 THEN <<"wait", "die">> ELSE <<"clean_jobserver">>
<1>1. make[m].proc = "dying" /\ make[m].agenda = <<"die">> /\ Head(make[m].agenda) = "die"
  BY OnlyDying DEF die
<1>2. Then(m, a) = a
  BY <1>1, Agendas DEF Then
<1>3. make[m] \in MakeState /\ make[m].job_slots_used \in Nat
  BY DEF TokensInv, Makes_OK, MakeState
<1>4. [make[m] EXCEPT !.agenda = a] = [make[m] EXCEPT !.agenda = a, !.proc = "dying"]
  BY <1>1, <1>3 DEF MakeState
<1>5. make' = [make EXCEPT ![m] = [make[m] EXCEPT !.agenda = a, !.proc = "dying"]] /\ UNCHANGED Others
  BY <1>2, <1>4 DEF die, Goes
<1>6. /\ a \in {<<"die">>, <<"wait", "die">>, <<"reap", "die">>, <<"clean_jobserver">>}
      /\ a = <<"clean_jobserver">> => make[m].job_slots_used = 0
  BY <1>3
<1> HIDE DEF a
<1> QED BY <1>1, <1>5, <1>6, DyingHere, DyingStep

LEMMA ReapedAllKeeps ==
  ASSUME TokensInv, NEW m \in Makes, ReapedAll(m)
  PROVE  TokensInv'
<1> DEFINE a == Tail(make[m].agenda)
<1>1. /\ make \in [Makes -> MakeState] /\ make[m] \in MakeState /\ MakeWell(m) /\ make[m].agenda # << >>
      /\ Head(make[m].agenda) \in {"reap", "wait"} /\ make[m].proc \in {"running", "dying", "signalled"}
  BY DEF TokensInv, Makes_OK, MakeWell, ReapedAll, Reaping, At, Alive
<1>2. a \in Seq(Operations) /\ << >> \o a = a /\ make[m].agenda \in Seq(Operations)
  <2>1. make[m].agenda \in Seq(Operations)
    BY <1>1 DEF MakeState
  <2> QED BY <1>1, <2>1, HeadTailProperties, ConcatEmptySeq
<1>3. make' = [make EXCEPT ![m] = [make[m] EXCEPT !.agenda = a]] /\ UNCHANGED Others
  BY <1>2 DEF ReapedAll, Goes, Then
<1>4. CASE make[m].proc = "running"
  <2> DEFINE k == [make[m] EXCEPT !.agenda = a]
  <2>1. /\ k \in MakeState /\ k.agenda = a /\ k.proc = "running" /\ k.newjob = make[m].newjob
        /\ SameTokens(make[m], k)
    BY <1>1, <1>2, <1>4 DEF MakeState, SameTokens
  <2>2. make' = [make EXCEPT ![m] = k]
    BY <1>3
  <2> HIDE DEF k
  <2>3. make' \in [Makes -> MakeState] /\ make'[m] = k /\ \A n \in Makes \ {m} : make'[n] = make[n]
    BY <1>1, <2>1, <2>2, OneMake
  <2>4. Runs(make[m])
    BY <1>1, <1>4 DEF MakeWell, MakeOK
  <2>5. Runs(k) /\ k.agenda # <<"start", "scan">> /\ make[m].agenda # <<"start", "scan">>
    BY <1>1, <1>2, <2>1, <2>4, RunsOn DEF SameTokens
  <2>6. k.newjob \subseteq PendingJobs(m) /\ \A i, j \in k.newjob : i = j
    BY <1>4, <2>1, Here
  <2> QED BY <1>3, <1>4, <2>1, <2>3, <2>5, <2>6, TurnStep
<1>5. CASE make[m].proc = "dying"
  <2>1. a = <<"die">>
    BY <1>1, <1>5, AtDying DEF MakeWell, MakeOK
  <2>2. [make[m] EXCEPT !.agenda = a] = [make[m] EXCEPT !.agenda = a, !.proc = "dying"]
    BY <1>1, <1>5 DEF MakeState
  <2>3. make' = [make EXCEPT ![m] = [make[m] EXCEPT !.agenda = <<"die">>, !.proc = "dying"]]
    BY <1>3, <2>1, <2>2
  <2>4. <<"die">> # <<"clean_jobserver">>
    OBVIOUS
  <2> QED BY <1>1, <1>3, <1>5, <2>3, <2>4, DyingHere, DyingStep
<1>6. CASE make[m].proc = "signalled"
  <2>1. a = <<"kill">> /\ make[m].jobserver_tokens >= Cardinality(TokenJobs(m))
    BY <1>1, <1>6, AtKilled DEF MakeWell, MakeOK
  <2> QED BY <1>3, <1>6, <2>1, KilledStep
<1> QED BY <1>1, <1>4, <1>5, <1>6

LEMMA BalanceOfExit ==
  ASSUME NEW p \in Nat, NEW h \in Nat, NEW l \in Nat, NEW x \in Nat,
         NEW p2 \in Nat, NEW h2 \in Nat, h2 + x = h, p2 <= p + x
  PROVE  p2 + h2 + l <= p + h + l /\ (p2 = p + x => p2 + h2 + l = p + h + l)
OBVIOUS

\* A make exits, and what it held goes back to the pipe unless it is the root.
LEMMA ExitStep ==
  ASSUME TokensInv, NEW m \in Makes, NEW ok \in BOOLEAN, Exits(m, ok),
         make[m].proc \in {"running", "dying", "signalled"},
         pipe' \in Nat, pipe' <= pipe + Extra(make[m]), m # Root => pipe' = pipe + Extra(make[m]),
         internal' \in BOOLEAN, internal' => lost > 0, UNCHANGED <<keep_going_flag, lost>>
  PROVE  TokensInv'
<1> DEFINE chld(n) == make[n].sigchld \/ (Alive(n) /\ \E j \in ParentJobs(m) : Owner[j] = n)
           k == [make[m] EXCEPT !.proc = "exited", !.agenda = << >>,
                                !.jobserver_tokens = 0, !.jobserver_enabled = FALSE, !.sigchld = FALSE]
           result == IF ok THEN "won" ELSE "failed"
<1>1. /\ make \in [Makes -> MakeState] /\ job \in [Jobs -> JobState] /\ pipe \in Nat /\ lost \in Nat
      /\ Makes_OK /\ Jobs_OK /\ LinesAhead /\ Sum /\ master_job_slots \in Nat
  BY JobserverAssumption DEF TokensInv, Makes_OK, Jobs_OK, Sum
<1>2. make' = [n \in Makes |-> IF n = m THEN k ELSE [make[n] EXCEPT !.sigchld = chld(n)]]
  BY DEF Exits
<1>3. job' = [j \in Jobs |-> IF j \in ParentJobs(m) THEN [job[j] EXCEPT !.child = result] ELSE job[j]]
  BY DEF Exits
<1>4. \A n \in Makes : chld(n) \in BOOLEAN
  BY <1>1 DEF MakeState
<1>5. << >> \in Seq(Operations) /\ 0 \in Nat
  OBVIOUS
<1>6. /\ k \in MakeState /\ k.proc = "exited" /\ k.jobserver_tokens = 0 /\ k.jobserver_enabled = FALSE
      /\ k.agenda = << >>
  <2>1. make[m] \in MakeState
    BY <1>1
  <2>2. k \in MakeState
    BY <1>5, <2>1 DEF MakeState
  <2>3. /\ k.proc = "exited" /\ k.jobserver_tokens = 0 /\ k.jobserver_enabled = FALSE /\ k.agenda = << >>
    BY <2>1 DEF MakeState
  <2> QED BY <2>2, <2>3
<1> HIDE DEF chld, k
<1>7. \A n \in Makes : /\ [make[n] EXCEPT !.sigchld = chld(n)] \in MakeState
                       /\ Beside(make[n], [make[n] EXCEPT !.sigchld = chld(n)])
                       /\ SameFields(make[n], [make[n] EXCEPT !.sigchld = chld(n)])
                       /\ [make[n] EXCEPT !.sigchld = chld(n)].proc = make[n].proc
  <2>1. \A n \in Makes : make[n] \in MakeState
    BY <1>1
  <2> QED BY <1>4, <2>1, Signalled
<1>8. /\ make' \in [Makes -> MakeState] /\ make'[m] = k
      /\ \A n \in Makes \ {m} : /\ Beside(make[n], make'[n]) /\ SameFields(make[n], make'[n])
                                /\ make'[n].proc = make[n].proc
  BY <1>2, <1>6, <1>7
<1>9. /\ job' \in [Jobs -> JobState]
      /\ \A j \in Jobs : /\ SameJob(job[j], job'[j]) /\ job'[j].command_line = job[j].command_line
                         /\ job'[j] = job[j] \/ (job[j].child = "live" /\ job'[j].child = result)
  <2>1. result \in {"won", "failed"}
    OBVIOUS
  <2> HIDE DEF result
  <2>2. \A j \in Jobs : [job[j] EXCEPT !.child = result] \in JobState
    BY <1>1, <2>1 DEF JobState, OnChain
  <2>3. job' \in [Jobs -> JobState]
    BY <1>1, <1>3, <2>2
  <2>4. \A j \in ParentJobs(m) : j \in Jobs /\ job[j].child = "live"
    BY DEF ParentJobs
  <2>5. ASSUME NEW j \in Jobs
        PROVE  /\ SameJob(job[j], job'[j]) /\ job'[j].command_line = job[j].command_line
               /\ job'[j] = job[j] \/ (job[j].child = "live" /\ job'[j].child = result)
    <3>1. CASE j \in ParentJobs(m)
      <4>1. job[j] \in JobState /\ job'[j] = [job[j] EXCEPT !.child = result] /\ job[j].child = "live"
        BY <1>1, <1>3, <2>4, <3>1
      <4> QED BY <2>1, <4>1 DEF JobState, SameJob, OnChain
    <3>2. CASE j \notin ParentJobs(m)
      <4>1. job'[j] = job[j]
        BY <1>3, <3>2
      <4> QED BY <4>1 DEF SameJob
    <3> QED BY <3>1, <3>2
  <2> QED BY <2>3, <2>5
<1>10. Makes_OK'
  <2>1. MakeWell(m)'
    BY <1>6, <1>8 DEF MakeWell, MakeOK
  <2>2. make'[m].proc # "dying"
    BY <1>6, <1>8
  <2> QED BY <1>1, <1>8, <1>9, <2>1, <2>2, StepKeepsMakes
<1>11. Jobs_OK'
  BY <1>1, <1>9 DEF Jobs_OK, JobOK, SameJob
<1>12. LinesAhead'
  <2>1. \A i \in Jobs : job'[i].command_line >= job[i].command_line /\ job'[i].command_line \in Nat
    BY <1>1, <1>9 DEF JobState
  <2>2. \A i \in Makes \ {NoMake} : make[i].proc = "unborn" => make'[i].proc = "unborn"
    BY <1>8
  <2> QED BY <1>1, <2>1, <2>2, StepKeepsLines, JobserverAssumption
<1>13. Sum'
  <2> DEFINE h == Cardinality(Held(make)) h2 == Cardinality(Held(make')) x == Extra(make[m]) p2 == pipe'
  <2>1. Extra(make'[m]) = 0
    BY <1>6, <1>8 DEF Extra
  <2>2. /\ Cardinality(Held(make)) \in Nat /\ Cardinality(Held(make')) \in Nat /\ Extra(make[m]) \in Nat
        /\ Cardinality(Held(make')) + Extra(make[m]) = Cardinality(Held(make)) + Extra(make'[m])
    BY <1>1, <1>8, HeldChange DEF SameFields
  <2>3. h \in Nat /\ h2 \in Nat /\ x \in Nat /\ h2 + x = h
    BY <2>1, <2>2
  <2>4. p2 \in Nat /\ p2 <= pipe + x /\ (m # Root => p2 = pipe + x)
    OBVIOUS
  <2>5. HeldTokens = Held(make) /\ HeldTokens' = Held(make')
    BY DEF HeldTokens, Held
  <2>6. make'[Root].proc # "exited" => make[Root].proc # "exited" /\ m # Root
    BY <1>6, <1>8, JobserverAssumption
  <2> HIDE DEF h, h2, x, p2
  <2>7. p2 + h2 + lost <= pipe + h + lost /\ (p2 = pipe + x => p2 + h2 + lost = pipe + h + lost)
    BY ONLY <1>1, <2>3, <2>4, BalanceOfExit
  <2>8. /\ pipe + h + lost <= master_job_slots - 1
        /\ make[Root].proc # "exited" => pipe + h + lost = master_job_slots - 1
    BY <1>1, <2>5 DEF Sum, h
  <2>9. /\ p2 + h2 + lost <= master_job_slots - 1
        /\ make'[Root].proc # "exited" => p2 + h2 + lost = master_job_slots - 1
    BY <1>1, <2>3, <2>4, <2>6, <2>7, <2>8
  <2> QED BY <1>1, <2>5, <2>9 DEF Sum, h2, p2
<1> QED BY <1>10, <1>11, <1>12, <1>13 DEF TokensInv, NoInternalError

LEMMA CleanJobserverKeeps ==
  ASSUME TokensInv, NEW m \in Makes, clean_jobserver(m)
  PROVE  TokensInv'
<1> DEFINE t == make[m].jobserver_tokens
<1>1. /\ make[m].proc = "dying" /\ make[m].agenda = <<"clean_jobserver">>
      /\ Head(make[m].agenda) = "clean_jobserver"
  BY OnlyDying DEF clean_jobserver
<1>2. /\ make[m] \in MakeState /\ MakeWell(m) /\ t \in Nat /\ make[m].jobserver_enabled /\ pipe \in Nat
  BY <1>1 DEF TokensInv, Makes_OK, MakeWell, MakeOK, MakeState, Sum
<1>3. t = Cardinality(TokenJobs(m)) /\ (make[m].status # 2 => TokenJobs(m) = {}) /\ make[m].job_slots_used = 0
  BY <1>1, DyingHere
<1>4. make[m].status # 2 => t = 0
  BY <1>3, FS_EmptySet
<1>5. pipe' \in Nat /\ pipe' = pipe + Extra(make[m])
  <2>1. pipe' = IF make[m].status = 2 /\ t > 1 THEN pipe + t - 1 ELSE pipe
    BY DEF clean_jobserver
  <2>2. make[m].status = 2 \/ t = 0
    BY <1>4
  <2> QED BY <1>2, <2>1, <2>2 DEF Extra
<1>9. ~(make[m].status # 2 /\ t > 0)
  BY <1>2, <1>4
<1>10. internal' = internal
  BY <1>9 DEF clean_jobserver, TokensInv
<1>11. internal' \in BOOLEAN /\ (internal' => lost > 0)
  BY <1>10 DEF TokensInv, NoInternalError
<1>6. UNCHANGED <<keep_going_flag, lost>>
  BY DEF clean_jobserver, flags
<1>7. CASE m = Root
  <2> DEFINE k == [make[m] EXCEPT !.agenda = <<"acquire_all">>, !.jobserver_tokens = 0]
  <2>1. make' = [make EXCEPT ![m] = k] /\ job' = job
    BY <1>7 DEF clean_jobserver
  <2>2. <<"acquire_all">> \in Seq(Operations) /\ 0 \in Nat
    BY DEF Operations
  <2>3. /\ k \in MakeState /\ k.agenda = <<"acquire_all">> /\ k.jobserver_tokens = 0 /\ k.proc = "dying"
        /\ k.job_slots_used = make[m].job_slots_used /\ k.waiting_jobs = make[m].waiting_jobs
        /\ k.jobserver_enabled
    BY <1>1, <1>2, <2>2 DEF MakeState
  <2> HIDE DEF k
  <2>4. MakeOK(k, TokenJobs(m), SlotJobs(m), WaitJobs(m), PendingJobs(m))
    <3>1. Dies(k, TokenJobs(m))
      BY <1>3, <2>3 DEF Dies
    <3> QED BY <1>1, <1>2, <2>3, <3>1 DEF MakeOK, MakeWell
  <2>5. pipe' + Extra(k) = pipe + Extra(make[m])
    BY <1>2, <1>5, <2>3 DEF Extra
  <2> QED BY <1>1, <1>5, <1>6, <1>7, <2>1, <2>3, <2>4, <2>5, <1>10, OwnStep
<1>8. CASE m # Root
  <2> DEFINE ok == make[m].status = 0
  <2>1. Exits(m, ok)
    BY <1>8 DEF clean_jobserver
  <2>2. ok \in BOOLEAN
    OBVIOUS
  <2> HIDE DEF ok
  <2>3. Extra(make[m]) \in Nat /\ pipe' <= pipe + Extra(make[m])
    BY <1>2, <1>5, HeldByOne
  <2> QED BY <1>1, <1>5, <1>6, <1>11, <2>1, <2>2, <2>3, ExitStep
<1> QED BY <1>7, <1>8

LEMMA AcquireAllKeeps ==
  ASSUME TokensInv, NEW m \in Makes, jobserver_acquire_all(m)
  PROVE  TokensInv'
<1>1. make[m].proc = "dying" /\ make[m].agenda = <<"acquire_all">>
  BY OnlyDying DEF jobserver_acquire_all
<1>2. /\ m = Root /\ make \in [Makes -> MakeState]
      /\ pipe \in Nat /\ lost \in Nat /\ master_job_slots \in Nat
  BY <1>1, JobserverAssumption DEF TokensInv, Makes_OK, Sum
<1>3. ASSUME NEW n \in Makes, make[n].jobserver_enabled
      PROVE  make[n].jobserver_tokens = 0
  <2>1. MakeWell(n) /\ make[n] \in MakeState
    BY DEF TokensInv, Makes_OK, MakeWell
  <2>2. CASE n = m
    BY <1>1, <2>1, <2>2 DEF MakeWell, MakeOK, Dies
  <2>3. CASE n # m
    <3>1. ~Alive(n)
      BY <1>3, <2>3 DEF jobserver_acquire_all
    <3> QED BY <1>3, <2>1, <3>1 DEF MakeWell, MakeOK, Alive
  <2> QED BY <2>2, <2>3
<1>4. HeldTokens = {}
  BY <1>3 DEF HeldTokens
<1>5. pipe + 0 + lost = master_job_slots - 1
  <2>1. make[Root].proc # "exited"
    BY <1>1, <1>2
  <2> QED BY <1>4, <2>1, FS_EmptySet DEF TokensInv, Sum
<1>6. pipe' = 0 /\ internal' = (internal \/ 1 + pipe # master_job_slots) /\ UNCHANGED <<keep_going_flag, lost>>
  BY DEF jobserver_acquire_all, flags
<1>7. internal' \in BOOLEAN /\ (internal' => lost > 0)
  <2>1. 1 + pipe # master_job_slots => lost > 0
    BY <1>2, <1>5
  <2> QED BY <1>6, <2>1 DEF TokensInv, NoInternalError
<1> DEFINE ok == make[m].status = 0
<1>8. Exits(m, ok) /\ ok \in BOOLEAN
  BY DEF jobserver_acquire_all
<1> HIDE DEF ok
<1>9. Extra(make[m]) \in Nat
  BY <1>2, HeldByOne
<1>10. pipe' \in Nat /\ pipe' <= pipe + Extra(make[m])
  BY <1>2, <1>6, <1>9
<1> QED BY <1>1, <1>2, <1>6, <1>7, <1>8, <1>10, ExitStep

LEMMA KillAndWaitKeeps ==
  ASSUME TokensInv, NEW m \in Makes, KillAndWait(m)
  PROVE  TokensInv'
<1>1. /\ MakeWell(m) /\ Head(make[m].agenda) = "kill" /\ make[m].proc \in {"running", "dying", "signalled"}
      /\ make[m] \in MakeState /\ pipe \in Nat
  BY DEF TokensInv, Makes_OK, MakeWell, KillAndWait, At, Alive, Sum
<1>2. make[m].proc # "running" /\ make[m].proc # "dying"
  BY <1>1, AtRunning, AtDying DEF MakeWell, MakeOK
<1>3. make[m].proc = "signalled" /\ make[m].agenda = <<"kill">> /\ Killed(make[m], TokenJobs(m))
  BY <1>1, <1>2, AtKilled DEF MakeWell, MakeOK
<1>4. CASE make[m].job_slots_used > 0
  <2>1. Then(m, <<"wait", "kill">>) = <<"wait", "kill">>
    BY <1>3, Agendas DEF Then
  <2>2. make' = [make EXCEPT ![m] = [make[m] EXCEPT !.agenda = <<"wait", "kill">>]]
    BY <1>4, <2>1 DEF KillAndWait, Goes
  <2>3. make[m].jobserver_tokens >= Cardinality(TokenJobs(m))
    BY <1>3, <1>4 DEF Killed
  <2>4. UNCHANGED Others
    BY <1>4 DEF KillAndWait, Others
  <2> QED BY <1>3, <2>2, <2>3, <2>4, KilledStep
<1>5. CASE ~(make[m].job_slots_used > 0)
  <2>1. Exits(m, FALSE) /\ UNCHANGED <<pipe, keep_going_flag, internal, lost>>
    BY <1>5 DEF KillAndWait, flags
  <2>2. Extra(make[m]) = 0
    BY <1>1, <1>3 DEF Extra, MakeWell, MakeOK
  <2>3. pipe' \in Nat /\ pipe' = pipe + Extra(make[m]) /\ pipe' <= pipe + Extra(make[m])
    BY <1>1, <2>1, <2>2
  <2>4. internal' \in BOOLEAN /\ (internal' => lost > 0)
    BY <2>1 DEF TokensInv, NoInternalError
  <2> QED BY <1>1, <2>1, <2>3, <2>4, ExitStep
<1> QED BY <1>4, <1>5

LEMMA FatalErrorSignalKeeps ==
  ASSUME TokensInv, NEW m \in Makes, fatal_error_signal(m)
  PROVE  TokensInv'
<1> DEFINE killed == {j \in children(m) : job[j].child = "live"}
           hit == {j \in killed : CurrentLine(j).submake = NoMake}
           subs == {CurrentLine(j).submake : j \in killed}
           k == [make[m] EXCEPT !.proc = "signalled", !.agenda = <<"kill">>,
                                !.jobserver_enabled = FALSE, !.newjob = {}]
           term(n) == make[n].sigterm \/ n \in subs
<1>1. /\ make \in [Makes -> MakeState] /\ make[m] \in MakeState /\ job \in [Jobs -> JobState]
      /\ pipe \in Nat /\ lost \in Nat /\ MakeWell(m)
      /\ Makes_OK /\ Jobs_OK /\ LinesAhead /\ Sum
      /\ make[m].proc \in {"running", "dying"} /\ make[m].jobserver_tokens \in Nat
  BY DEF TokensInv, Makes_OK, Jobs_OK, Sum, MakeWell, MakeState, fatal_error_signal
<1>2. make' = [n \in Makes |-> IF n = m THEN k ELSE [make[n] EXCEPT !.sigterm = term(n)]]
  BY DEF fatal_error_signal
<1>3. job' = [j \in Jobs |-> IF j \in hit THEN [job[j] EXCEPT !.child = "failed"] ELSE job[j]]
  BY DEF fatal_error_signal
<1>4. lost' = lost + Extra(make[m]) /\ UNCHANGED <<pipe, keep_going_flag, internal>>
  <2>1. Released(m) * (make[m].jobserver_tokens - 1) = Extra(make[m])
    BY <1>1 DEF Released, Extra
  <2> QED BY <2>1 DEF fatal_error_signal, flags
<1>5. \A n \in Makes : term(n) \in BOOLEAN
  BY <1>1 DEF MakeState
<1>6. <<"kill">> \in Seq(Operations) /\ {} \in SUBSET Jobs
  BY DEF Operations
<1>7. /\ k \in MakeState /\ k.proc = "signalled" /\ k.agenda = <<"kill">> /\ k.jobserver_enabled = FALSE
      /\ k.jobserver_tokens = make[m].jobserver_tokens /\ k.job_slots_used = make[m].job_slots_used
      /\ k.waiting_jobs = make[m].waiting_jobs
  BY <1>1, <1>6 DEF MakeState
<1>8. hit \subseteq Jobs /\ \A j \in hit : job[j].child = "live"
  BY DEF children, JobsOf
<1> HIDE DEF term, k, hit
<1>9. \A n \in Makes : /\ [make[n] EXCEPT !.sigterm = term(n)] \in MakeState
                       /\ Beside(make[n], [make[n] EXCEPT !.sigterm = term(n)])
                       /\ SameFields(make[n], [make[n] EXCEPT !.sigterm = term(n)])
                       /\ [make[n] EXCEPT !.sigterm = term(n)].proc = make[n].proc
  <2>1. \A n \in Makes : make[n] \in MakeState
    BY <1>1
  <2> QED BY <1>5, <2>1, Signalled
<1>10. /\ make' \in [Makes -> MakeState] /\ make'[m] = k
       /\ \A n \in Makes \ {m} : /\ Beside(make[n], make'[n]) /\ SameFields(make[n], make'[n])
                                 /\ make'[n].proc = make[n].proc
  BY <1>2, <1>7, <1>9
<1>11. /\ job' \in [Jobs -> JobState]
       /\ \A j \in Jobs : /\ SameJob(job[j], job'[j]) /\ job'[j].command_line = job[j].command_line
                          /\ job'[j] = job[j] \/ (job[j].child = "live" /\ job'[j].child = "failed")
  <2>1. \A j \in Jobs : [job[j] EXCEPT !.child = "failed"] \in JobState
    BY <1>1 DEF JobState, OnChain
  <2>2. job' \in [Jobs -> JobState]
    BY <1>1, <1>3, <2>1
  <2>3. ASSUME NEW j \in Jobs
        PROVE  /\ SameJob(job[j], job'[j]) /\ job'[j].command_line = job[j].command_line
               /\ job'[j] = job[j] \/ (job[j].child = "live" /\ job'[j].child = "failed")
    <3>1. CASE j \in hit
      <4>1. job[j] \in JobState /\ job'[j] = [job[j] EXCEPT !.child = "failed"] /\ job[j].child = "live"
        BY <1>1, <1>3, <1>8, <3>1
      <4> QED BY <4>1 DEF JobState, SameJob, OnChain
    <3>2. CASE j \notin hit
      <4>1. job'[j] = job[j]
        BY <1>3, <3>2
      <4> QED BY <4>1 DEF SameJob
    <3> QED BY <3>1, <3>2
  <2> QED BY <2>2, <2>3
<1>12. Makes_OK'
  <2>1. Killed(k, TokenJobs(m))
    <3>1. IsFiniteSet(TokenJobs(m)) /\ Cardinality(TokenJobs(m)) \in Nat
      BY <1>1, JobSetsFinite, FS_CardinalityType
    <3> QED BY <1>1, <1>7, <3>1 DEF Killed, MakeWell, MakeOK, Dies
  <2>2. MakeOK(k, TokenJobs(m), SlotJobs(m), WaitJobs(m), PendingJobs(m))
    BY <1>1, <1>7, <2>1 DEF MakeWell, MakeOK
  <2>3. /\ TokenJobs(m)' = TokenJobs(m) /\ SlotJobs(m)' = SlotJobs(m)
        /\ WaitJobs(m)' = WaitJobs(m) /\ PendingJobs(m)' = PendingJobs(m)
    BY <1>1, <1>11, SameSets
  <2>4. MakeWell(m)'
    BY <1>10, <2>2, <2>3 DEF MakeWell
  <2>5. make'[m].proc # "dying"
    BY <1>7, <1>10
  <2> QED BY <1>1, <1>10, <1>11, <2>4, <2>5, StepKeepsMakes
<1>13. Jobs_OK'
  BY <1>1, <1>11 DEF Jobs_OK, JobOK, SameJob
<1>14. LinesAhead'
  <2>1. \A i \in Jobs : job'[i].command_line >= job[i].command_line /\ job'[i].command_line \in Nat
    BY <1>1, <1>11 DEF JobState
  <2>2. \A i \in Makes \ {NoMake} : make[i].proc = "unborn" => make'[i].proc = "unborn"
    BY <1>1, <1>10
  <2> QED BY <1>1, <2>1, <2>2, StepKeepsLines, JobserverAssumption
<1>15. Extra(make[m]) \in Nat
  BY <1>1, HeldByOne
<1>16. Sum'
  <2>1. Extra(make'[m]) = 0
    BY <1>7, <1>10 DEF Extra
  <2>2. pipe' \in Nat /\ lost' \in Nat /\ pipe' + lost' + Extra(make'[m]) = pipe + lost + Extra(make[m])
    BY <1>1, <1>4, <1>15, <2>1
  <2>3. make[Root].proc = "exited" => make'[Root].proc = "exited"
    BY <1>1, <1>10, JobserverAssumption
  <2> QED BY <1>1, <1>10, <2>2, <2>3, StepKeepsSum
<1>17. internal' => lost' > 0
  BY <1>1, <1>4, <1>15 DEF TokensInv, NoInternalError
<1> QED BY <1>4, <1>12, <1>13, <1>14, <1>16, <1>17 DEF TokensInv, NoInternalError

LEMMA CommandEndsKeeps ==
  ASSUME TokensInv, NEW j \in Jobs, NEW result \in {"won", "failed"}, CommandEnds(j, result)
  PROVE  TokensInv'
<1> DEFINE m == Owner[j]
           chld == make[m].sigchld \/ Alive(m)
           k == [make[m] EXCEPT !.sigchld = chld]
<1>1. /\ m \in Makes /\ make \in [Makes -> MakeState] /\ job \in [Jobs -> JobState] /\ pipe \in Nat /\ lost \in Nat
      /\ Makes_OK /\ Jobs_OK /\ LinesAhead /\ Sum /\ MakeWell(m)
  BY JobserverAssumption DEF TokensInv, Makes_OK, Jobs_OK, Sum, MakeWell
<1>2. make' = [make EXCEPT ![m] = k] /\ job' = [job EXCEPT ![j] = [job[j] EXCEPT !.child = result]]
      /\ job[j].child = "live" /\ UNCHANGED <<pipe, keep_going_flag, internal, lost>>
  BY DEF CommandEnds, flags
<1>3. chld \in BOOLEAN
  BY <1>1 DEF MakeState
<1> HIDE DEF chld
<1>4. k \in MakeState /\ Beside(make[m], k) /\ SameFields(make[m], k) /\ k.proc = make[m].proc
  <2>1. make[m] \in MakeState
    BY <1>1
  <2> QED BY <1>3, <2>1, Signalled
<1> HIDE DEF k, m
<1>5. /\ make' \in [Makes -> MakeState] /\ make'[m] = k /\ \A n \in Makes \ {m} : make'[n] = make[n]
  BY <1>1, <1>2, <1>4, OneMake
<1>6. \A n \in Makes : Beside(make[n], make'[n]) /\ SameFields(make[n], make'[n]) /\ make'[n].proc = make[n].proc
  BY <1>4, <1>5 DEF Beside, SameFields
<1>7. /\ job' \in [Jobs -> JobState]
      /\ \A i \in Jobs : SameJob(job[i], job'[i]) /\ job'[i].command_line = job[i].command_line
      /\ \A i \in Jobs \ {j} : job'[i] = job[i]
      /\ job'[j].child = result
  BY <1>1, <1>2 DEF JobState, OnChain, SameJob
<1>8. Makes_OK'
  <2>1. SlotJobs(m) \subseteq TokenJobs(m) /\ WaitJobs(m) \subseteq TokenJobs(m)
    BY <1>1, JobSetsFinite
  <2>2. MakeOK(k, TokenJobs(m), SlotJobs(m), WaitJobs(m), PendingJobs(m))
    BY <1>1, <1>4, <2>1, BesideOK DEF MakeWell
  <2>3. /\ TokenJobs(m)' = TokenJobs(m) /\ SlotJobs(m)' = SlotJobs(m)
        /\ WaitJobs(m)' = WaitJobs(m) /\ PendingJobs(m)' = PendingJobs(m)
    BY <1>1, <1>7, SameSets
  <2>4. MakeWell(m)'
    BY <1>5, <2>2, <2>3 DEF MakeWell, m
  <2>5. make'[m].proc = "dying" /\ make'[m].agenda = <<"acquire_all">> => m = Root
    BY <1>1, <1>6 DEF Makes_OK, SameFields
  <2> QED BY <1>1, <1>5, <1>6, <1>7, <2>4, <2>5, StepKeepsMakes
<1>9. Jobs_OK'
  BY <1>1, <1>2, <1>7 DEF Jobs_OK, JobOK, SameJob, OnChain
<1>10. LinesAhead'
  <2>1. \A i \in Jobs : job'[i].command_line >= job[i].command_line /\ job'[i].command_line \in Nat
    BY <1>1, <1>7 DEF JobState
  <2>2. \A i \in Makes \ {NoMake} : make[i].proc = "unborn" => make'[i].proc = "unborn"
    BY <1>6
  <2> QED BY <1>1, <2>1, <2>2, StepKeepsLines, JobserverAssumption
<1>11. Sum'
  <2>1. pipe' \in Nat /\ lost' \in Nat /\ pipe' + lost' + Extra(make'[m]) = pipe + lost + Extra(make[m])
    BY <1>1, <1>2, <1>6 DEF SameFields, Extra
  <2>2. make[Root].proc = "exited" => make'[Root].proc = "exited"
    BY <1>6, JobserverAssumption
  <2> QED BY <1>1, <1>5, <1>6, <2>1, <2>2, StepKeepsSum
<1> QED BY <1>2, <1>8, <1>9, <1>10, <1>11 DEF TokensInv, NoInternalError

----------------------------------------------------------------------------
(***************************************************************************)
(* Starting and reaping jobs.                                              *)
(***************************************************************************)

LEMMA ChainPushed ==
  ASSUME NEW w \in Seq(Jobs), NEW j \in Jobs, NEW S, Chained(w, S \ {j})
  PROVE  Chained(<<j>> \o w, S \cup {j}) /\ <<j>> \o w # << >> /\ <<j>> \o w \in Seq(Jobs)
<1> DEFINE u == <<j>> v == u \o w
<1>1. u \in Seq(Jobs) /\ Len(u) = 1 /\ u[1] = j
  OBVIOUS
<1>2. Len(w) \in Nat
  BY LenProperties
<1> HIDE DEF u
<1>3. /\ v \in Seq(Jobs) /\ Len(v) = 1 + Len(w)
      /\ \A i \in 1 .. 1 + Len(w) : v[i] = IF i <= 1 THEN u[i] ELSE w[i - 1]
  <2>1. /\ v \in Seq(Jobs) /\ Len(v) = Len(u) + Len(w)
        /\ \A i \in 1 .. Len(u) + Len(w) : v[i] = IF i <= Len(u) THEN u[i] ELSE w[i - Len(u)]
    BY <1>1, ConcatProperties
  <2> QED BY <1>1, <2>1
<1> HIDE DEF v
<1>4. v[1] = j /\ \A i \in 2 .. Len(v) : i - 1 \in 1 .. Len(w) /\ v[i] = w[i - 1]
  BY <1>1, <1>2, <1>3
<1>5. ASSUME NEW i \in 1 .. Len(v), NEW l \in 1 .. Len(v), v[i] = v[l] PROVE i = l
  <2>1. CASE i = 1 /\ l = 1
    BY <2>1
  <2>2. CASE i = 1 /\ l # 1
    BY <1>2, <1>3, <1>4, <1>5, <2>2 DEF Chained
  <2>3. CASE i # 1 /\ l = 1
    BY <1>2, <1>3, <1>4, <1>5, <2>3 DEF Chained
  <2>4. CASE i # 1 /\ l # 1
    <3>1. i - 1 \in 1 .. Len(w) /\ l - 1 \in 1 .. Len(w) /\ w[i - 1] = w[l - 1]
      BY <1>2, <1>3, <1>4, <1>5, <2>4
    <3>2. i - 1 = l - 1
      BY <3>1 DEF Chained
    <3> QED BY <1>2, <1>3, <3>2
  <2> QED BY <2>1, <2>2, <2>3, <2>4
<1>6. ASSUME NEW i \in 1 .. Len(v) PROVE v[i] \in S \cup {j}
  <2>1. CASE i = 1
    BY <1>4, <2>1
  <2>2. CASE i # 1
    <3>1. i - 1 \in 1 .. Len(w) /\ v[i] = w[i - 1]
      BY <1>2, <1>3, <1>4, <2>2
    <3> QED BY <3>1 DEF Chained
  <2> QED BY <2>1, <2>2
<1>7. ASSUME NEW x \in S \cup {j} PROVE \E i \in 1 .. Len(v) : v[i] = x
  <2>1. CASE x = j
    BY <1>2, <1>3, <1>4, <2>1
  <2>2. CASE x # j
    <3>1. PICK i \in 1 .. Len(w) : w[i] = x
      BY <2>2 DEF Chained
    <3>2. i + 1 \in 2 .. Len(v) /\ i + 1 \in 1 .. Len(v) /\ (i + 1) - 1 = i
      BY <1>2, <1>3, <3>1
    <3> QED BY <1>4, <3>1, <3>2
  <2> QED BY <2>1, <2>2
<1>8. v # << >>
  BY <1>2, <1>3
<1>9. Chained(v, S \cup {j}) /\ v \in Seq(Jobs)
  BY <1>3, <1>5, <1>6, <1>7 DEF Chained
<1> QED BY <1>8, <1>9 DEF u, v

LEMMA ChainPopped ==
  ASSUME NEW w \in Seq(Jobs), w # << >>, NEW S, Chained(w, S)
  PROVE  Head(w) \in S /\ Head(w) \in Jobs /\ Tail(w) \in Seq(Jobs) /\ Chained(Tail(w), S \ {Head(w)})
<1> DEFINE t == Tail(w)
<1>1. /\ Head(w) \in Jobs /\ t \in Seq(Jobs) /\ Len(t) = Len(w) - 1 /\ Len(w) \in Nat /\ Len(w) >= 1
      /\ \A i \in 1 .. Len(t) : t[i] = w[i + 1]
      /\ Head(w) = w[1]
  BY HeadTailProperties, EmptySeq, LenProperties
<1> HIDE DEF t
<1>2. Head(w) \in S
  BY <1>1 DEF Chained
<1>3. \A i \in 1 .. Len(t) : i + 1 \in 1 .. Len(w)
  BY <1>1
<1>4. ASSUME NEW i \in 1 .. Len(t), NEW l \in 1 .. Len(t), t[i] = t[l] PROVE i = l
  <2>1. i + 1 = l + 1
    <3>1. i + 1 \in 1 .. Len(w) /\ l + 1 \in 1 .. Len(w) /\ w[i + 1] = w[l + 1]
      BY <1>1, <1>3, <1>4
    <3> QED BY <3>1 DEF Chained
  <2> QED BY <1>1, <2>1
<1>5. ASSUME NEW i \in 1 .. Len(t) PROVE t[i] \in S \ {Head(w)}
  <2>1. t[i] \in S
    BY <1>1, <1>3 DEF Chained
  <2>2. w[i + 1] # w[1]
    <3>1. 1 \in 1 .. Len(w) /\ i + 1 \in 1 .. Len(w) /\ i + 1 # 1
      BY <1>1, <1>3
    <3> QED BY <3>1 DEF Chained
  <2> QED BY <1>1, <2>1, <2>2
<1>6. ASSUME NEW x \in S \ {Head(w)} PROVE \E i \in 1 .. Len(t) : t[i] = x
  <2>1. PICK i \in 1 .. Len(w) : w[i] = x
    BY DEF Chained
  <2>2. i # 1
    BY <1>1, <2>1
  <2>3. i - 1 \in 1 .. Len(t) /\ (i - 1) + 1 = i
    BY <1>1, <2>1, <2>2
  <2> QED BY <1>1, <2>1, <2>3
<1>7. Chained(t, S \ {Head(w)})
  BY <1>4, <1>5, <1>6 DEF Chained
<1> QED BY <1>1, <1>2, <1>7 DEF t

\* Make m becomes k, its job j becomes c; make n is born, if it is a make.
JobMoves(m, j, k, c, n) ==
    /\ job' = [job EXCEPT ![j] = c]
    /\ make' = [i \in Makes |-> IF i = m THEN k
                                ELSE IF i = n THEN [make[i] EXCEPT !.proc = "running"] ELSE make[i]]
    /\ n \in Makes => /\ n # m /\ make[n].proc = "unborn"
                      /\ c.child = "live" /\ c.command_line \in DOMAIN CommandLines[j]
                      /\ CommandLines[j][c.command_line].submake = n

LEMMA JobStep ==
  ASSUME TokensInv, NEW m \in Makes, NEW j \in JobsOf(m), NEW k \in MakeState, NEW c \in JobState, NEW n,
         JobMoves(m, j, k, c, n), make[m].proc \in {"running", "dying", "signalled"},
         k.proc \in {"running", "dying", "signalled"},
         JobOK(c, CommandLines[j]), c.command_line >= job[j].command_line,
         MakeOK(k, TokenJobs(m)', SlotJobs(m)', WaitJobs(m)', PendingJobs(m)'),
         k.proc = "dying" => k.agenda # <<"acquire_all">>,
         pipe' \in Nat, pipe' + Extra(k) = pipe + Extra(make[m]),
         UNCHANGED <<keep_going_flag, internal, lost>>
  PROVE  TokensInv'
<1>1. /\ make \in [Makes -> MakeState] /\ job \in [Jobs -> JobState] /\ pipe \in Nat /\ lost \in Nat
      /\ Makes_OK /\ Jobs_OK /\ LinesAhead /\ Sum /\ j \in Jobs /\ Owner[j] = m
  BY DEF TokensInv, Makes_OK, Jobs_OK, Sum, JobsOf
<1>2. /\ job' \in [Jobs -> JobState] /\ job'[j] = c /\ \A i \in Jobs \ {j} : job'[i] = job[i]
      /\ \A i \in Jobs : Owner[i] # m => SameJob(job[i], job'[i])
  BY <1>1 DEF JobMoves, SameJob
<1>3. \A i \in Makes : /\ [make[i] EXCEPT !.proc = "running"] \in MakeState
                       /\ SameFields(make[i], [make[i] EXCEPT !.proc = "running"])
                       /\ [make[i] EXCEPT !.proc = "running"].proc = "running"
  BY <1>1 DEF MakeState, SameFields
<1>4. /\ make' \in [Makes -> MakeState] /\ make'[m] = k
      /\ \A i \in Makes \ {m} : SameFields(make[i], make'[i])
      /\ \A i \in Makes \ {m, n} : make'[i] = make[i]
      /\ n \in Makes => make'[n].proc = "running"
  BY <1>1, <1>3 DEF JobMoves, SameFields
<1>5. \A i \in Makes \ {m} : Beside(make[i], make'[i])
  BY <1>4 DEF JobMoves, Beside
<1>6. Makes_OK'
  <2>1. MakeWell(m)'
    BY <1>4 DEF MakeWell
  <2> QED BY <1>1, <1>2, <1>4, <1>5, <2>1, StepKeepsMakes
<1>7. Jobs_OK'
  BY <1>1, <1>2 DEF Jobs_OK
<1>8. LinesAhead'
  <2>1. \A i \in Jobs : job'[i].command_line >= job[i].command_line /\ job'[i].command_line \in Nat
    BY <1>1, <1>2 DEF JobState
  <2>2. \A i \in Makes \ {n} : make[i].proc = "unborn" => make'[i].proc = "unborn"
    BY <1>4
  <2>3. n \in Makes => \E i \in Jobs : \E l \in DOMAIN CommandLines[i] :
                          l <= job'[i].command_line /\ CommandLines[i][l].submake = n
    <3>1. c.command_line <= job'[j].command_line
      BY <1>2 DEF JobState
    <3> QED BY <1>1, <3>1 DEF JobMoves
  <2> QED BY <1>1, <2>1, <2>2, <2>3, StepKeepsLines
<1>9. Sum'
  <2>1. Extra(k) \in Nat /\ Extra(make[m]) \in Nat
    BY <1>1, HeldByOne
  <2>2. pipe' + lost' + Extra(make'[m]) = pipe + lost + Extra(make[m])
    BY <1>1, <1>4, <2>1
  <2>3. make[Root].proc = "exited" => make'[Root].proc = "exited"
    BY <1>4, JobserverAssumption DEF JobMoves
  <2> QED BY <1>1, <1>4, <2>2, <2>3, StepKeepsSum
<1> QED BY <1>6, <1>7, <1>8, <1>9 DEF TokensInv, NoInternalError

\* Starting the next line of a job: it runs, perhaps with a slot and perhaps as
\* a make, or it does not.
LEMMA StartsCommand ==
  ASSUME TokensInv, NEW m \in Makes, NEW j \in JobsOf(m), NEW mk \in MakeState, NEW counted \in BOOLEAN,
         make[m].proc \in {"running", "dying", "signalled"}, MoreLines(j),
         start_job_command(m, j, mk, counted)
  PROVE  \E k \in MakeState, c \in JobState, n \in Makes \cup {NoMake} :
            /\ JobMoves(m, j, k, c, n)
            /\ c.command_line = job[j].command_line + 1 /\ c.command_line <= Len(CommandLines[j])
            /\ \/ /\ c.child = "live" /\ c.jobslot = (IF counted THEN 1 ELSE job[j].jobslot)
                  /\ k = IF counted THEN [mk EXCEPT !.job_slots_used = @ + 1] ELSE mk
               \/ c.child = "unstarted" /\ c.jobslot = job[j].jobslot /\ k = mk
<1> DEFINE l == job[j].command_line + 1
           next_make == CommandLines[j][l].submake
           slot == IF counted THEN 1 ELSE job[j].jobslot
           k == IF counted THEN [mk EXCEPT !.job_slots_used = @ + 1] ELSE mk
           c == [job[j] EXCEPT !.command_line = l, !.child = "live", !.jobslot = slot]
           d == [job[j] EXCEPT !.command_line = l, !.child = "unstarted"]
<1>1. /\ make \in [Makes -> MakeState] /\ job \in [Jobs -> JobState] /\ j \in Jobs /\ job[j] \in JobState
      /\ NoMake \notin Makes /\ LinesAhead
      /\ CommandLines[j] \in Seq([submake : Makes \cup {NoMake}, noerror : BOOLEAN])
  BY JobserverAssumption DEF TokensInv, Makes_OK, Jobs_OK, JobsOf
<1>2. /\ l \in Nat /\ l \in job[j].command_line + 1 .. Len(CommandLines[j]) /\ l \in 1 .. Len(CommandLines[j])
      /\ l <= Len(CommandLines[j]) /\ l \in DOMAIN CommandLines[j]
  <2>1. job[j].command_line \in Nat /\ Len(CommandLines[j]) \in Nat
        /\ DOMAIN CommandLines[j] = 1 .. Len(CommandLines[j])
    BY <1>1, LenProperties DEF JobState
  <2> QED BY <2>1 DEF MoreLines
<1>3. next_make \in Makes \cup {NoMake}
  <2>1. CommandLines[j][l] \in [submake : Makes \cup {NoMake}, noerror : BOOLEAN]
    BY <1>1, <1>2, ElementOfSeq
  <2> QED BY <2>1
<1>4. next_make \in Makes => next_make # m /\ make[next_make].proc = "unborn"
  BY <1>1, <1>2 DEF LinesAhead
<1> HIDE DEF l
<1>5. slot \in {0, 1}
  BY <1>1 DEF JobState
<1> HIDE DEF slot
<1>6. /\ c \in JobState /\ c.command_line = l /\ c.child = "live" /\ c.jobslot = slot
      /\ d \in JobState /\ d.command_line = l /\ d.child = "unstarted" /\ d.jobslot = job[j].jobslot
  BY <1>1, <1>2, <1>5 DEF JobState, OnChain
<1>7. k \in MakeState
  BY DEF MakeState
<1>8. CASE /\ job' = IF counted THEN [job EXCEPT ![j].command_line = l, ![j].child = "live", ![j].jobslot = 1]
                     ELSE [job EXCEPT ![j].command_line = l, ![j].child = "live"]
           /\ make' = IF next_make = NoMake THEN [make EXCEPT ![m] = k]
                      ELSE [make EXCEPT ![m] = k, ![next_make].proc = "running"]
  <2>1. job' = [job EXCEPT ![j] = c]
    <3>1. CASE counted
      BY <1>8, <3>1 DEF slot
    <3>2. CASE ~counted
      <4>1. c = [job[j] EXCEPT !.command_line = l, !.child = "live"]
        BY <1>1, <3>2 DEF slot, JobState
      <4>2. job' = [job EXCEPT ![j] = [job[j] EXCEPT !.command_line = l, !.child = "live"]]
        BY <1>8, <3>2
      <4> HIDE DEF c
      <4> QED BY <4>1, <4>2
    <3> QED BY <3>1, <3>2
  <2> HIDE DEF k
  <2>2. make' = [i \in Makes |-> IF i = m THEN k
                    ELSE IF i = next_make THEN [make[i] EXCEPT !.proc = "running"] ELSE make[i]]
    <3>1. CASE next_make = NoMake
      BY <1>1, <1>8, <3>1
    <3>2. CASE next_make # NoMake
      BY <1>1, <1>3, <1>4, <1>8, <3>2
    <3> QED BY <3>1, <3>2
  <2> HIDE DEF c, next_make
  <2>3. JobMoves(m, j, k, c, next_make)
    BY <1>2, <1>4, <1>6, <2>1, <2>2 DEF JobMoves, next_make
  <2>4. c.command_line = job[j].command_line + 1 /\ c.jobslot = (IF counted THEN 1 ELSE job[j].jobslot)
        /\ k = IF counted THEN [mk EXCEPT !.job_slots_used = @ + 1] ELSE mk
    BY <1>6 DEF l, slot, k
  <2> QED BY <1>2, <1>3, <1>6, <1>7, <2>3, <2>4 DEF k
<1>9. CASE /\ job' = [job EXCEPT ![j].command_line = l, ![j].child = "unstarted"]
           /\ make' = [make EXCEPT ![m] = mk]
  <2>1. job' = [job EXCEPT ![j] = d]
    BY <1>9
  <2>2. make' = [i \in Makes |-> IF i = m THEN mk
                    ELSE IF i = NoMake THEN [make[i] EXCEPT !.proc = "running"] ELSE make[i]]
    BY <1>1, <1>9
  <2> HIDE DEF d
  <2>3. JobMoves(m, j, mk, d, NoMake)
    BY <1>1, <2>1, <2>2 DEF JobMoves
  <2>4. d.command_line = job[j].command_line + 1
    BY <1>6 DEF l
  <2> QED BY <1>2, <1>6, <2>3, <2>4
<1> QED BY <1>8, <1>9 DEF start_job_command, Spawned, SpawnFails, l

\* A token is given back to the pipe unless it is the last one.
LEMMA TokenBack ==
  ASSUME NEW a, NEW b, NEW t \in Nat, NEW p \in Nat, NEW q,
         a.jobserver_enabled, b.jobserver_enabled, a.jobserver_tokens = t + 1, b.jobserver_tokens = t,
         q = IF t + 1 > 1 THEN p + 1 ELSE p
  PROVE  q \in Nat /\ q + Extra(b) = p + Extra(a)
<1>1. Extra(a) = IF t + 1 > 1 THEN (t + 1) - 1 ELSE 0
  BY DEF Extra
<1>2. Extra(b) = IF t > 1 THEN t - 1 ELSE 0
  BY DEF Extra
<1> QED BY <1>1, <1>2

LEMMA PlainMove ==
  ASSUME make \in [Makes -> MakeState], NEW m \in Makes, NEW j, NEW k, NEW c,
         make' = [make EXCEPT ![m] = k], job' = [job EXCEPT ![j] = c]
  PROVE  JobMoves(m, j, k, c, NoMake)
<1>1. NoMake \notin Makes
  BY JobserverAssumption
<1>2. make' = [i \in Makes |-> IF i = m THEN k
                  ELSE IF i = NoMake THEN [make[i] EXCEPT !.proc = "running"] ELSE make[i]]
  BY <1>1
<1> QED BY <1>1, <1>2 DEF JobMoves

\* The jobs of m once its job j became c.
LEMMA JobSetsMove ==
  ASSUME Jobs_OK, NEW m \in Makes, NEW j \in JobsOf(m), NEW k, NEW c \in JobState, NEW n, JobMoves(m, j, k, c, n)
  PROVE  /\ TokenJobs(m)' = IF c.child \in OnChain \cup {"waiting"} THEN TokenJobs(m) \cup {j}
                            ELSE TokenJobs(m) \ {j}
         /\ SlotJobs(m)' = IF c.jobslot = 1 THEN SlotJobs(m) \cup {j} ELSE SlotJobs(m) \ {j}
         /\ WaitJobs(m)' = IF c.child = "waiting" THEN WaitJobs(m) \cup {j} ELSE WaitJobs(m) \ {j}
         /\ PendingJobs(m)' = IF c.child = "pending" THEN PendingJobs(m) \cup {j} ELSE PendingJobs(m) \ {j}
<1>1. j \in Jobs /\ Owner[j] = m /\ job \in [Jobs -> JobState]
  BY DEF JobsOf, Jobs_OK
<1>2. job' \in [Jobs -> JobState] /\ job'[j] = c /\ \A i \in Jobs \ {j} : job'[i] = job[i]
  BY <1>1 DEF JobMoves
<1> QED BY <1>1, <1>2, OneJob

\* Where start_waiting_job leaves a running make: `back` when job j is put on
\* the waiting list again, `on` when it is started with the list w.
WaitsAt(back) == \A k \in MakeState : k.agenda = back /\ k.waiting_jobs # << >> /\ k.job_slots_used > 0 => Runs(k)
StartsAt(on, w) == \A k \in MakeState : k.agenda = on /\ k.waiting_jobs = w => Runs(k)

\* start_waiting_job of a running make that has a token for job j, and knows
\* where to go on from.
LEMMA StartKeeps ==
  ASSUME TokensInv, NEW m \in Makes, NEW j \in JobsOf(m), NEW mk \in MakeState,
         NEW back \in Seq(Operations), NEW on \in Seq(Operations),
         make[m].proc = "running", mk.proc = "running", job[j].child \in {"pending", "waiting"},
         mk.jobserver_tokens = make[m].jobserver_tokens, mk.jobserver_enabled = make[m].jobserver_enabled,
         mk.job_slots_used = make[m].job_slots_used,
         mk.jobserver_tokens = Cardinality(TokenJobs(m) \cup {j}),
         Chained(mk.waiting_jobs, WaitJobs(m) \ {j}),
         mk.newjob \subseteq PendingJobs(m) \ {j}, \A i, l \in mk.newjob : i = l,
         back # <<"start", "scan">>, on # <<"start", "scan">>,
         WaitsAt(back), StartsAt(on, mk.waiting_jobs),
         start_waiting_job(m, j, mk, back, on), UNCHANGED <<flags, internal, lost>>
  PROVE  TokensInv'
<1>1. /\ make \in [Makes -> MakeState] /\ job[j] \in JobState /\ j \in Jobs /\ Jobs_OK
      /\ make[m].jobserver_enabled /\ make[m].job_slots_used = Cardinality(SlotJobs(m)) /\ pipe \in Nat
      /\ job[j].jobslot = 0 /\ job[j].command_line = 0 /\ JobOK(job[j], CommandLines[j])
      /\ CommandLines[j] # << >> /\ Len(CommandLines[j]) \in Nat /\ Len(CommandLines[j]) >= 1
  <2>1. j \in Jobs /\ job[j] \in JobState /\ Jobs_OK /\ JobOK(job[j], CommandLines[j])
    BY DEF TokensInv, Jobs_OK, JobsOf
  <2>2. CommandLines[j] \in Seq([submake : Makes \cup {NoMake}, noerror : BOOLEAN]) /\ CommandLines[j] # << >>
    <3>1. CommandLines[j] \in Seq([submake : Makes \cup {NoMake}, noerror : BOOLEAN]) \ {<< >>}
      BY <2>1, JobserverAssumption
    <3> QED BY <3>1
  <2>3. Len(CommandLines[j]) \in Nat /\ Len(CommandLines[j]) >= 1
    BY <2>2, EmptySeq, LenProperties
  <2>4. job[j].jobslot = 0 /\ job[j].command_line = 0
    BY <2>1 DEF JobOK, JobState, OnChain
  <2> QED BY <2>1, <2>2, <2>3, <2>4, Here
<1>2. /\ IsFiniteSet(TokenJobs(m)) /\ IsFiniteSet(SlotJobs(m)) /\ j \notin SlotJobs(m)
      /\ Cardinality(TokenJobs(m)) \in Nat /\ Cardinality(SlotJobs(m)) \in Nat
  <2>1. IsFiniteSet(TokenJobs(m)) /\ IsFiniteSet(SlotJobs(m))
    BY <1>1, JobSetsFinite
  <2>2. j \notin SlotJobs(m)
    BY <1>1 DEF SlotJobs
  <2> QED BY <2>1, <2>2, FS_CardinalityType
<1>3. UNCHANGED <<keep_going_flag, internal, lost>>
  BY DEF flags
<1>4. ASSUME Loaded, mk.job_slots_used > 0,
             make' = [make EXCEPT ![m] = [mk EXCEPT !.agenda = back, !.waiting_jobs = <<j>> \o @]],
             job' = [job EXCEPT ![j].child = "waiting"], UNCHANGED pipe
      PROVE  TokensInv'
  <2> DEFINE w == <<j>> \o mk.waiting_jobs
             k == [mk EXCEPT !.agenda = back, !.waiting_jobs = w]
             c == [job[j] EXCEPT !.child = "waiting"]
  <2>1. mk.waiting_jobs \in Seq(Jobs) /\ (WaitJobs(m) \ {j}) \cup {j} = WaitJobs(m) \cup {j}
    BY DEF MakeState
  <2>2. w \in Seq(Jobs) /\ w # << >> /\ Chained(w, WaitJobs(m) \cup {j})
    BY <1>1, <2>1, ChainPushed
  <2>3. make' = [make EXCEPT ![m] = k] /\ job' = [job EXCEPT ![j] = c]
    BY <1>4
  <2> HIDE DEF w
  <2>4. /\ k \in MakeState /\ k.agenda = back /\ k.waiting_jobs = w /\ k.proc = "running"
        /\ k.jobserver_tokens = mk.jobserver_tokens /\ k.jobserver_enabled = mk.jobserver_enabled
        /\ k.job_slots_used = mk.job_slots_used /\ k.newjob = mk.newjob
    BY <2>2 DEF MakeState
  <2>5. c \in JobState /\ c.child = "waiting" /\ c.jobslot = 0 /\ c.command_line = 0
    BY <1>1 DEF JobState
  <2> HIDE DEF k, c
  <2>6. JobMoves(m, j, k, c, NoMake)
    BY <1>1, <2>3, PlainMove
  <2>7. /\ TokenJobs(m)' = TokenJobs(m) \cup {j} /\ SlotJobs(m)' = SlotJobs(m)
        /\ WaitJobs(m)' = WaitJobs(m) \cup {j} /\ PendingJobs(m)' = PendingJobs(m) \ {j}
    <3>1. /\ TokenJobs(m)' = IF c.child \in OnChain \cup {"waiting"} THEN TokenJobs(m) \cup {j}
                            ELSE TokenJobs(m) \ {j}
          /\ SlotJobs(m)' = IF c.jobslot = 1 THEN SlotJobs(m) \cup {j} ELSE SlotJobs(m) \ {j}
          /\ WaitJobs(m)' = IF c.child = "waiting" THEN WaitJobs(m) \cup {j} ELSE WaitJobs(m) \ {j}
          /\ PendingJobs(m)' = IF c.child = "pending" THEN PendingJobs(m) \cup {j} ELSE PendingJobs(m) \ {j}
      BY <1>1, <2>5, <2>6, JobSetsMove
    <3> QED BY <1>2, <2>5, <3>1
  <2>8. Runs(k)
    BY <1>4, <2>2, <2>4 DEF WaitsAt
  <2>9. MakeOK(k, TokenJobs(m)', SlotJobs(m)', WaitJobs(m)', PendingJobs(m)')
    BY <1>1, <2>2, <2>4, <2>7, <2>8 DEF MakeOK
  <2>10. JobOK(c, CommandLines[j]) /\ c.command_line >= job[j].command_line
    BY <1>1, <2>5 DEF JobOK
  <2>11. pipe' \in Nat /\ pipe' + Extra(k) = pipe + Extra(make[m])
    BY <1>1, <1>4, <2>4 DEF Extra
  <2> QED BY <1>3, <2>4, <2>5, <2>6, <2>9, <2>10, <2>11, JobStep
<1>5. ASSUME make' = [make EXCEPT ![m] = [mk EXCEPT !.agenda = on, !.jobserver_tokens = @ - 1]],
             pipe' = IF mk.jobserver_tokens > 1 THEN pipe + 1 ELSE pipe,
             job' = [job EXCEPT ![j].child = "finished"]
      PROVE  TokensInv'
  <2> DEFINE t == mk.jobserver_tokens - 1
             k == [mk EXCEPT !.agenda = on, !.jobserver_tokens = t]
             c == [job[j] EXCEPT !.child = "finished"]
  <2>1. t \in Nat /\ t = Cardinality(TokenJobs(m) \ {j}) /\ mk.jobserver_tokens \in Nat
    <3>1. Cardinality(TokenJobs(m) \cup {j}) = IF j \in TokenJobs(m) THEN Cardinality(TokenJobs(m))
                                               ELSE Cardinality(TokenJobs(m)) + 1
      BY <1>2, FS_AddElement
    <3>2. IsFiniteSet(TokenJobs(m) \ {j}) /\
          Cardinality(TokenJobs(m) \ {j}) = IF j \in TokenJobs(m) THEN Cardinality(TokenJobs(m)) - 1
                                            ELSE Cardinality(TokenJobs(m))
      BY <1>2, FS_RemoveElement
    <3>3. Cardinality(TokenJobs(m) \ {j}) \in Nat
      BY <3>2, FS_CardinalityType
    <3>4. t = Cardinality(TokenJobs(m) \ {j})
      BY <1>2, <3>1, <3>2
    <3> QED BY <3>3, <3>4 DEF MakeState
  <2>2. make' = [make EXCEPT ![m] = k] /\ job' = [job EXCEPT ![j] = c]
    BY <1>5
  <2>3. pipe' = IF mk.jobserver_tokens > 1 THEN pipe + 1 ELSE pipe
    BY <1>5
  <2>4. mk.jobserver_tokens = t + 1
    BY <2>1
  <2> HIDE DEF t
  <2>5. /\ k \in MakeState /\ k.agenda = on /\ k.waiting_jobs = mk.waiting_jobs /\ k.proc = "running"
        /\ k.jobserver_tokens = t /\ k.jobserver_enabled = mk.jobserver_enabled
        /\ k.job_slots_used = mk.job_slots_used /\ k.newjob = mk.newjob
    BY <2>1 DEF MakeState
  <2>6. c \in JobState /\ c.child = "finished" /\ c.jobslot = 0 /\ c.command_line = 0
    BY <1>1 DEF JobState
  <2> HIDE DEF k, c
  <2>7. JobMoves(m, j, k, c, NoMake)
    BY <1>1, <2>2, PlainMove
  <2>8. /\ TokenJobs(m)' = TokenJobs(m) \ {j} /\ SlotJobs(m)' = SlotJobs(m)
        /\ WaitJobs(m)' = WaitJobs(m) \ {j} /\ PendingJobs(m)' = PendingJobs(m) \ {j}
    <3>1. /\ TokenJobs(m)' = IF c.child \in OnChain \cup {"waiting"} THEN TokenJobs(m) \cup {j}
                            ELSE TokenJobs(m) \ {j}
          /\ SlotJobs(m)' = IF c.jobslot = 1 THEN SlotJobs(m) \cup {j} ELSE SlotJobs(m) \ {j}
          /\ WaitJobs(m)' = IF c.child = "waiting" THEN WaitJobs(m) \cup {j} ELSE WaitJobs(m) \ {j}
          /\ PendingJobs(m)' = IF c.child = "pending" THEN PendingJobs(m) \cup {j} ELSE PendingJobs(m) \ {j}
      BY <1>1, <2>6, <2>7, JobSetsMove
    <3> QED BY <1>2, <2>6, <3>1 DEF OnChain
  <2>9. Runs(k)
    BY <2>5 DEF StartsAt
  <2>10. MakeOK(k, TokenJobs(m)', SlotJobs(m)', WaitJobs(m)', PendingJobs(m)')
    BY <1>1, <2>1, <2>5, <2>8, <2>9 DEF MakeOK
  <2>11. JobOK(c, CommandLines[j]) /\ c.command_line >= job[j].command_line
    BY <1>1, <2>6 DEF JobOK
  <2>12. pipe' \in Nat /\ pipe' + Extra(k) = pipe + Extra(make[m])
    <3>1. make[m].jobserver_tokens = t + 1 /\ make[m].jobserver_enabled /\ k.jobserver_enabled
      BY <1>1, <2>4, <2>5
    <3>2. pipe' = IF t + 1 > 1 THEN pipe + 1 ELSE pipe
      BY <2>3, <2>4
    <3>3. t \in Nat /\ pipe \in Nat /\ k.jobserver_tokens = t
      BY <1>1, <2>1, <2>5
    <3>4. \A q : q = (IF t + 1 > 1 THEN pipe + 1 ELSE pipe) => q \in Nat /\ q + Extra(k) = pipe + Extra(make[m])
      BY <3>1, <3>3, TokenBack
    <3> QED BY <3>2, <3>4
  <2> QED BY <1>3, <2>5, <2>6, <2>7, <2>10, <2>11, <2>12, JobStep
<1>6. ASSUME start_job_command(m, j, [mk EXCEPT !.agenda = on], TRUE), UNCHANGED pipe
      PROVE  TokensInv'
  <2> DEFINE mk2 == [mk EXCEPT !.agenda = on]
  <2>1. /\ mk2 \in MakeState /\ mk2.agenda = on /\ mk2.waiting_jobs = mk.waiting_jobs /\ mk2.proc = "running"
        /\ mk2.jobserver_tokens = mk.jobserver_tokens /\ mk2.jobserver_enabled = mk.jobserver_enabled
        /\ mk2.job_slots_used = mk.job_slots_used /\ mk2.newjob = mk.newjob
    BY DEF MakeState
  <2>2. start_job_command(m, j, mk2, TRUE)
    BY <1>6
  <2>3. MoreLines(j)
    BY <1>1 DEF MoreLines
  <2> HIDE DEF mk2
  <2>4. PICK k \in MakeState, c \in JobState, n \in Makes \cup {NoMake} :
            /\ JobMoves(m, j, k, c, n)
            /\ c.command_line = job[j].command_line + 1 /\ c.command_line <= Len(CommandLines[j])
            /\ \/ /\ c.child = "live" /\ c.jobslot = (IF TRUE THEN 1 ELSE job[j].jobslot)
                  /\ k = IF TRUE THEN [mk2 EXCEPT !.job_slots_used = @ + 1] ELSE mk2
               \/ c.child = "unstarted" /\ c.jobslot = job[j].jobslot /\ k = mk2
    BY <2>1, <2>2, <2>3, StartsCommand
  <2>12. \/ c.child = "live" /\ c.jobslot = 1 /\ k = [mk2 EXCEPT !.job_slots_used = @ + 1]
         \/ c.child = "unstarted" /\ c.jobslot = 0 /\ k = mk2
    BY <1>1, <2>4
  <2>5. /\ k.agenda = on /\ k.waiting_jobs = mk.waiting_jobs /\ k.proc = "running"
        /\ k.jobserver_tokens = mk.jobserver_tokens /\ k.jobserver_enabled = mk.jobserver_enabled
        /\ k.newjob = mk.newjob
        /\ k.job_slots_used = IF c.jobslot = 1 THEN mk.job_slots_used + 1 ELSE mk.job_slots_used
    <3>1. CASE c.jobslot = 1 /\ k = [mk2 EXCEPT !.job_slots_used = @ + 1]
      BY <2>1, <3>1 DEF MakeState
    <3>2. CASE c.jobslot = 0 /\ k = mk2
      BY <2>1, <3>2
    <3> QED BY <2>12, <3>1, <3>2
  <2>6. /\ TokenJobs(m)' = TokenJobs(m) \cup {j}
        /\ SlotJobs(m)' = IF c.jobslot = 1 THEN SlotJobs(m) \cup {j} ELSE SlotJobs(m)
        /\ WaitJobs(m)' = WaitJobs(m) \ {j} /\ PendingJobs(m)' = PendingJobs(m) \ {j}
    <3>1. /\ TokenJobs(m)' = IF c.child \in OnChain \cup {"waiting"} THEN TokenJobs(m) \cup {j}
                            ELSE TokenJobs(m) \ {j}
          /\ SlotJobs(m)' = IF c.jobslot = 1 THEN SlotJobs(m) \cup {j} ELSE SlotJobs(m) \ {j}
          /\ WaitJobs(m)' = IF c.child = "waiting" THEN WaitJobs(m) \cup {j} ELSE WaitJobs(m) \ {j}
          /\ PendingJobs(m)' = IF c.child = "pending" THEN PendingJobs(m) \cup {j} ELSE PendingJobs(m) \ {j}
      BY <1>1, <2>4, JobSetsMove
    <3>2. c.child \in OnChain /\ c.child # "waiting" /\ c.child # "pending" /\ SlotJobs(m) \ {j} = SlotJobs(m)
      BY <1>2, <2>12 DEF OnChain
    <3> QED BY <2>12, <3>1, <3>2
  <2>7. k.job_slots_used = Cardinality(SlotJobs(m)')
    <3>1. Cardinality(SlotJobs(m) \cup {j}) = Cardinality(SlotJobs(m)) + 1
      BY <1>2, FS_AddElement
    <3> QED BY <1>1, <2>5, <2>6, <3>1
  <2>8. Runs(k)
    BY <2>5 DEF StartsAt
  <2>9. MakeOK(k, TokenJobs(m)', SlotJobs(m)', WaitJobs(m)', PendingJobs(m)')
    BY <1>1, <2>5, <2>6, <2>7, <2>8 DEF MakeOK
  <2>10. JobOK(c, CommandLines[j]) /\ c.command_line >= job[j].command_line
    BY <1>1, <2>4, <2>12 DEF JobOK, OnChain
  <2>11. pipe' \in Nat /\ pipe' + Extra(k) = pipe + Extra(make[m])
    BY <1>1, <1>6, <2>5 DEF Extra
  <2> QED BY <1>3, <2>4, <2>5, <2>9, <2>10, <2>11, JobStep
<1> QED BY <1>4, <1>5, <1>6 DEF start_waiting_job

LEMMA StartJobKeeps ==
  ASSUME TokensInv, NEW m \in Makes, StartJob(m)
  PROVE  TokensInv'
<1> DEFINE mk == [make[m] EXCEPT !.newjob = {}]
<1>1. make[m].proc = "running" /\ Runs(make[m]) /\ Head(make[m].agenda) = "start"
  BY OnlyRunning DEF StartJob
<1>2. make[m].agenda = <<"start", "scan">>
  BY <1>1, AtRunning
<1>3. /\ make[m] \in MakeState /\ make[m].newjob \subseteq PendingJobs(m)
      /\ Chained(make[m].waiting_jobs, WaitJobs(m)) /\ make[m].jobserver_tokens = Cardinality(TokenJobs(m)) + 1
  BY <1>1, <1>2, Here
<1>4. Tail(<<"start", "scan">>) = <<"scan">> /\ << >> \o <<"scan">> = <<"scan">>
  OBVIOUS
<1>5. Then(m, << >>) = <<"scan">>
  BY <1>2, <1>4 DEF Then
<1>6. PICK j \in make[m].newjob : start_waiting_job(m, j, mk, <<"scan">>, <<"scan">>)
  BY <1>5 DEF StartJob
<1>7. j \in JobsOf(m) /\ job[j].child = "pending" /\ j \notin TokenJobs(m) /\ j \notin WaitJobs(m)
  BY <1>3 DEF PendingJobs, TokenJobs, WaitJobs, OnChain
<1>8. mk.jobserver_tokens = Cardinality(TokenJobs(m) \cup {j}) /\ Chained(mk.waiting_jobs, WaitJobs(m) \ {j})
  <2>1. IsFiniteSet(TokenJobs(m))
    BY JobSetsFinite DEF TokensInv
  <2>2. Cardinality(TokenJobs(m) \cup {j}) = Cardinality(TokenJobs(m)) + 1
    BY <1>7, <2>1, FS_AddElement
  <2>3. WaitJobs(m) \ {j} = WaitJobs(m)
    BY <1>7
  <2>4. mk.jobserver_tokens = make[m].jobserver_tokens /\ mk.waiting_jobs = make[m].waiting_jobs
    BY <1>3 DEF MakeState
  <2> HIDE DEF mk
  <2> QED BY <1>3, <2>2, <2>3, <2>4
<1>9. /\ mk \in MakeState /\ mk.proc = "running" /\ mk.newjob = {}
      /\ mk.jobserver_tokens = make[m].jobserver_tokens /\ mk.jobserver_enabled = make[m].jobserver_enabled
      /\ mk.job_slots_used = make[m].job_slots_used
  BY <1>1, <1>3 DEF MakeState
<1> HIDE DEF mk
<1>10. <<"scan">> \in Seq(Operations) /\ <<"scan">> # <<"start", "scan">>
  BY DEF Operations
<1>11. \A k : k.agenda = <<"scan">> => Runs(k)
  BY DEF Runs, Plain
<1>12. UNCHANGED <<flags, internal, lost>>
  BY DEF StartJob
<1>13. mk.newjob \subseteq PendingJobs(m) \ {j} /\ \A i, l \in mk.newjob : i = l
  BY <1>9
<1>14. WaitsAt(<<"scan">>) /\ StartsAt(<<"scan">>, mk.waiting_jobs)
  BY <1>11 DEF WaitsAt, StartsAt
<1>15. job[j].child \in {"pending", "waiting"} /\ TokensInv /\ m \in Makes
  BY <1>7
<1> QED BY ONLY <1>1, <1>6, <1>7, <1>8, <1>9, <1>10, <1>12, <1>13, <1>14, <1>15, StartKeeps

LEMMA TakeWaitingKeeps ==
  ASSUME TokensInv, NEW m \in Makes, TakeWaiting(m)
  PROVE  TokensInv'
<1> DEFINE w == make[m].waiting_jobs
           j == Head(w)
           mk == [make[m] EXCEPT !.waiting_jobs = Tail(w)]
           back == Then(m, << >>)
           on == Then(m, start_waiting_jobs(Tail(w)))
           ends == {<<"reap_or_wait">>, <<"recheck", "scan">>, <<"reap", "token", "scan">>}
<1>1. make[m].proc = "running" /\ Runs(make[m]) /\ Head(make[m].agenda) = "take_waiting"
  BY OnlyRunning DEF TakeWaiting
<1>2. /\ w # << >>
      /\ make[m].agenda \in {<<"take_waiting", "reap_or_wait">>, <<"take_waiting", "recheck", "scan">>,
                             <<"take_waiting", "reap", "token", "scan">>}
  BY <1>1, AtRunning
<1>3. /\ make[m] \in MakeState /\ make[m].newjob \subseteq PendingJobs(m)
      /\ \A i, l \in make[m].newjob : i = l
      /\ Chained(w, WaitJobs(m)) /\ w \in Seq(Jobs)
  BY <1>1, Here DEF MakeState
<1>4. j \in WaitJobs(m) /\ Tail(w) \in Seq(Jobs) /\ Chained(Tail(w), WaitJobs(m) \ {j})
  BY <1>2, <1>3, ChainPopped
<1>5. /\ j \in JobsOf(m) /\ job[j].child = "waiting" /\ j \in TokenJobs(m) /\ j \notin PendingJobs(m)
      /\ TokenJobs(m) \cup {j} = TokenJobs(m)
  BY <1>4 DEF PendingJobs, TokenJobs, WaitJobs
<1>6. Tail(make[m].agenda) \in ends
  <2>1. /\ Tail(<<"take_waiting", "reap_or_wait">>) = <<"reap_or_wait">>
        /\ Tail(<<"take_waiting", "recheck", "scan">>) = <<"recheck", "scan">>
        /\ Tail(<<"take_waiting", "reap", "token", "scan">>) = <<"reap", "token", "scan">>
    OBVIOUS
  <2> QED BY <1>2, <2>1
<1>7. back \in ends /\ back = Tail(make[m].agenda)
  <2>1. /\ << >> \o <<"reap_or_wait">> = <<"reap_or_wait">> /\ << >> \o <<"recheck", "scan">> = <<"recheck", "scan">>
        /\ << >> \o <<"reap", "token", "scan">> = <<"reap", "token", "scan">>
    OBVIOUS
  <2> QED BY <1>6, <2>1 DEF Then
<1>8. IF Tail(w) = << >> THEN on \in ends
      ELSE on \in {<<"reap", "take_waiting", "reap_or_wait">>, <<"reap", "take_waiting", "recheck", "scan">>,
                   <<"reap", "take_waiting", "reap", "token", "scan">>}
  BY <1>6, StartWaiting DEF Then
<1>9. start_waiting_job(m, j, mk, back, on) /\ UNCHANGED <<flags, internal, lost>>
  BY DEF TakeWaiting
<1>10. /\ mk \in MakeState /\ mk.proc = "running" /\ mk.newjob = make[m].newjob /\ mk.waiting_jobs = Tail(w)
       /\ mk.jobserver_tokens = make[m].jobserver_tokens /\ mk.jobserver_enabled = make[m].jobserver_enabled
       /\ mk.job_slots_used = make[m].job_slots_used
  BY <1>1, <1>3, <1>4 DEF MakeState
<1> HIDE DEF mk, back, on, j
<1>11. mk.jobserver_tokens = Cardinality(TokenJobs(m) \cup {j}) /\ Chained(mk.waiting_jobs, WaitJobs(m) \ {j})
  <2>1. make[m].agenda # <<"start", "scan">>
    BY <1>2
  <2> QED BY <1>1, <1>4, <1>5, <1>10, <2>1, Here
<1>12. /\ \A x \in ends : x \in Seq(Operations) /\ x # <<"start", "scan">>
       /\ <<"reap_or_wait">> \in Plain /\ <<"reap", "token", "scan">> \in Plain
  BY DEF Operations, Plain
<1>13. back \in Seq(Operations) /\ back # <<"start", "scan">>
  BY <1>7, <1>12
<1>14. on \in ends \/ (on \in WithWaiting /\ Tail(w) # << >>)
  BY <1>8 DEF WithWaiting
<1>15. on \in Seq(Operations) /\ on # <<"start", "scan">>
  <2>1. \A x \in WithWaiting : x \in Seq(Operations)
    BY AgendasTyped
  <2>2. \A x \in WithWaiting : x # <<"start", "scan">>
    BY DEF WithWaiting
  <2> QED BY <1>12, <1>14, <2>1, <2>2
<1>16. ASSUME NEW k \in MakeState, k.agenda = back, k.waiting_jobs # << >>, k.job_slots_used > 0 PROVE Runs(k)
  BY <1>7, <1>12, <1>16 DEF Runs
<1>17. ASSUME NEW k \in MakeState, k.agenda = on, k.waiting_jobs = mk.waiting_jobs PROVE Runs(k)
  <2>1. CASE on \in WithWaiting /\ Tail(w) # << >>
    BY <1>10, <1>17, <2>1 DEF Runs
  <2>2. CASE on \in ends /\ Tail(w) = << >>
    BY <1>10, <1>12, <1>17, <2>2 DEF Runs
  <2> QED BY <1>8, <1>14, <2>1, <2>2 DEF WithWaiting
<1>18. mk.newjob \subseteq PendingJobs(m) \ {j} /\ \A i, l \in mk.newjob : i = l
  BY <1>3, <1>5, <1>10
<1>19. WaitsAt(back) /\ StartsAt(on, mk.waiting_jobs)
  BY <1>16, <1>17 DEF WaitsAt, StartsAt
<1>20. j \in JobsOf(m) /\ job[j].child \in {"pending", "waiting"}
  BY <1>5
<1> HIDE DEF w, ends
<1>21. TokensInv /\ m \in Makes
  OBVIOUS
<1> QED BY ONLY <1>1, <1>9, <1>10, <1>11, <1>13, <1>15, <1>18, <1>19, <1>20, <1>21, StartKeeps

\* A make that reaps, with a job j that it finds dead.
LEMMA ReapHere ==
  ASSUME TokensInv, NEW m \in Makes, Reaping(m), NEW j \in Reapable(m)
  PROVE  /\ j \in JobsOf(m) /\ j \in Jobs /\ job[j] \in JobState /\ job[j].child \in Dead
         /\ j \in TokenJobs(m) /\ j \notin WaitJobs(m) /\ j \notin PendingJobs(m)
         /\ job[j].jobslot = 1 <=> j \in SlotJobs(m)
         /\ JobOK(job[j], CommandLines[j])
         /\ make \in [Makes -> MakeState] /\ make[m] \in MakeState /\ MakeWell(m) /\ pipe \in Nat
         /\ Head(make[m].agenda) \in {"reap", "wait"} /\ make[m].proc \in {"running", "dying", "signalled"}
         /\ make[m].agenda # <<"acquire_all">>
<1>1. j \in children(m) /\ job[j].child \in Dead
  BY DEF Reapable, Dead, OnChain
<1>2. j \in JobsOf(m) /\ j \in Jobs
  BY <1>1 DEF children, JobsOf
<1>3. /\ job[j] \in JobState /\ JobOK(job[j], CommandLines[j])
      /\ make \in [Makes -> MakeState] /\ make[m] \in MakeState /\ MakeWell(m) /\ pipe \in Nat
  BY <1>2 DEF TokensInv, Makes_OK, Jobs_OK, MakeWell, Sum
<1>4. /\ j \in TokenJobs(m) /\ j \notin WaitJobs(m) /\ j \notin PendingJobs(m)
      /\ job[j].jobslot = 1 <=> j \in SlotJobs(m)
  BY <1>1, <1>2 DEF TokenJobs, WaitJobs, PendingJobs, SlotJobs, Dead, OnChain
<1>5. Head(make[m].agenda) \in {"reap", "wait"} /\ make[m].proc \in {"running", "dying", "signalled"}
  BY DEF Reaping, At, Alive
<1>6. make[m].agenda # <<"acquire_all">>
  BY <1>5
<1> QED BY <1>1, <1>2, <1>3, <1>4, <1>5, <1>6

LEMMA ReapNextLineKeeps ==
  ASSUME TokensInv, NEW m \in Makes, Reaping(m), NEW j \in Reapable(m), ReapNextLine(m, j),
         UNCHANGED <<flags, internal, lost>>
  PROVE  TokensInv'
<1> DEFINE more == make[m].more_commands \/ Counts(j)
           mk == [make[m] EXCEPT !.more_commands = more]
<1>1. /\ j \in JobsOf(m) /\ j \in Jobs /\ job[j] \in JobState /\ job[j].child \in Dead
      /\ j \in TokenJobs(m) /\ j \notin WaitJobs(m) /\ j \notin PendingJobs(m)
      /\ job[j].jobslot = 1 <=> j \in SlotJobs(m)
      /\ JobOK(job[j], CommandLines[j])
      /\ make \in [Makes -> MakeState] /\ make[m] \in MakeState /\ MakeWell(m) /\ pipe \in Nat
      /\ make[m].proc \in {"running", "dying", "signalled"} /\ make[m].agenda # <<"acquire_all">>
  BY ReapHere
<1>2. start_job_command(m, j, mk, FALSE) /\ MoreLines(j) /\ UNCHANGED pipe
  BY DEF ReapNextLine
<1>3. more \in BOOLEAN
  BY <1>1 DEF MakeState
<1> HIDE DEF more
<1>4. mk \in MakeState /\ SameFields(make[m], mk) /\ mk.proc = make[m].proc
  BY <1>1, <1>3 DEF MakeState, SameFields
<1> HIDE DEF mk
<1>5. PICK k \in MakeState, c \in JobState, n \in Makes \cup {NoMake} :
         /\ JobMoves(m, j, k, c, n)
         /\ c.command_line = job[j].command_line + 1 /\ c.command_line <= Len(CommandLines[j])
         /\ \/ /\ c.child = "live" /\ c.jobslot = (IF FALSE THEN 1 ELSE job[j].jobslot)
               /\ k = IF FALSE THEN [mk EXCEPT !.job_slots_used = @ + 1] ELSE mk
            \/ c.child = "unstarted" /\ c.jobslot = job[j].jobslot /\ k = mk
  BY <1>1, <1>2, <1>4, StartsCommand
<1>6. c.child \in {"live", "unstarted"} /\ c.jobslot = job[j].jobslot /\ k = mk
  BY <1>5
<1>7. /\ TokenJobs(m)' = TokenJobs(m) /\ SlotJobs(m)' = SlotJobs(m)
      /\ WaitJobs(m)' = WaitJobs(m) /\ PendingJobs(m)' = PendingJobs(m)
  <2>1. /\ TokenJobs(m)' = IF c.child \in OnChain \cup {"waiting"} THEN TokenJobs(m) \cup {j}
                           ELSE TokenJobs(m) \ {j}
        /\ SlotJobs(m)' = IF c.jobslot = 1 THEN SlotJobs(m) \cup {j} ELSE SlotJobs(m) \ {j}
        /\ WaitJobs(m)' = IF c.child = "waiting" THEN WaitJobs(m) \cup {j} ELSE WaitJobs(m) \ {j}
        /\ PendingJobs(m)' = IF c.child = "pending" THEN PendingJobs(m) \cup {j} ELSE PendingJobs(m) \ {j}
    BY <1>1, <1>5, JobSetsMove DEF TokensInv
  <2> QED BY <1>1, <1>6, <2>1 DEF OnChain
<1>8. MakeOK(k, TokenJobs(m)', SlotJobs(m)', WaitJobs(m)', PendingJobs(m)')
  <2>1. SlotJobs(m) \subseteq TokenJobs(m) /\ WaitJobs(m) \subseteq TokenJobs(m)
    BY JobSetsFinite DEF TokensInv
  <2>2. Beside(make[m], mk)
    BY <1>4 DEF Beside
  <2>3. MakeOK(mk, TokenJobs(m), SlotJobs(m), WaitJobs(m), PendingJobs(m))
    BY <1>1, <1>4, <2>1, <2>2, BesideOK DEF MakeWell
  <2> QED BY <1>6, <1>7, <2>3
<1>9. JobOK(c, CommandLines[j]) /\ c.command_line >= job[j].command_line
  BY <1>1, <1>5, <1>6 DEF JobOK, OnChain, JobState
<1>10. pipe' \in Nat /\ pipe' + Extra(k) = pipe + Extra(make[m])
  BY <1>1, <1>2, <1>4, <1>6 DEF Extra, SameFields
<1>11. k.proc \in {"running", "dying", "signalled"} /\ k.agenda # <<"acquire_all">>
  BY <1>1, <1>4, <1>6 DEF SameFields
<1>12. UNCHANGED <<keep_going_flag, internal, lost>>
  BY DEF flags
<1> QED BY <1>1, <1>5, <1>8, <1>9, <1>10, <1>11, <1>12, JobStep

LEMMA RemoveChildKeeps ==
  ASSUME TokensInv, NEW m \in Makes, Reaping(m), NEW j \in Reapable(m), NEW ok \in BOOLEAN,
         RemoveChild(m, j, ok), UNCHANGED <<flags, internal, lost>>
  PROVE  TokensInv'
<1> DEFINE dies == ~ok /\ ~keep_going_flag /\ make[m].proc = "running"
           t == make[m].jobserver_tokens - 1
           slots == IF make[m].job_slots_used > 0 THEN make[m].job_slots_used - job[j].jobslot
                    ELSE make[m].job_slots_used
           more == make[m].more_commands \/ Counts(j)
           status == IF ok THEN make[m].status ELSE 2
           proc == IF dies THEN "dying" ELSE make[m].proc
           newjob == IF dies THEN {} ELSE make[m].newjob
           a == IF dies THEN <<"die">> ELSE Then(m, <<"reap">>)
           k == [make[m] EXCEPT !.job_slots_used = slots, !.jobserver_tokens = t, !.more_commands = more,
                                !.status = status, !.proc = proc, !.newjob = newjob, !.agenda = a]
           c == [job[j] EXCEPT !.child = "finished", !.jobslot = 0]
<1>1. /\ j \in JobsOf(m) /\ j \in Jobs /\ job[j] \in JobState /\ job[j].child \in Dead
      /\ j \in TokenJobs(m) /\ j \notin WaitJobs(m) /\ j \notin PendingJobs(m)
      /\ job[j].jobslot = 1 <=> j \in SlotJobs(m)
      /\ JobOK(job[j], CommandLines[j])
      /\ make \in [Makes -> MakeState] /\ make[m] \in MakeState /\ MakeWell(m) /\ pipe \in Nat
      /\ Head(make[m].agenda) \in {"reap", "wait"}
      /\ make[m].proc \in {"running", "dying", "signalled"}
  BY ReapHere
<1>2. make' = [make EXCEPT ![m] = k] /\ job' = [job EXCEPT ![j] = c] /\ pipe' = pipe + Released(m)
  BY DEF RemoveChild
<1>3. /\ IsFiniteSet(TokenJobs(m)) /\ IsFiniteSet(SlotJobs(m))
      /\ Cardinality(TokenJobs(m)) \in Nat /\ Cardinality(SlotJobs(m)) \in Nat
  BY JobSetsFinite, FS_CardinalityType DEF TokensInv
<1>4. /\ Cardinality(TokenJobs(m) \ {j}) = Cardinality(TokenJobs(m)) - 1
      /\ Cardinality(SlotJobs(m) \ {j}) = IF j \in SlotJobs(m) THEN Cardinality(SlotJobs(m)) - 1
                                          ELSE Cardinality(SlotJobs(m))
      /\ Cardinality(TokenJobs(m) \ {j}) \in Nat /\ Cardinality(SlotJobs(m) \ {j}) \in Nat
  <2>1. Cardinality(TokenJobs(m) \ {j}) = Cardinality(TokenJobs(m)) - 1 /\ IsFiniteSet(TokenJobs(m) \ {j})
    BY <1>1, <1>3, FS_RemoveElement
  <2>2. /\ IsFiniteSet(SlotJobs(m) \ {j})
        /\ Cardinality(SlotJobs(m) \ {j}) = IF j \in SlotJobs(m) THEN Cardinality(SlotJobs(m)) - 1
                                            ELSE Cardinality(SlotJobs(m))
    BY <1>3, FS_RemoveElement
  <2> QED BY <2>1, <2>2, FS_CardinalityType
<1>5. slots = Cardinality(SlotJobs(m) \ {j}) /\ slots \in Nat
  <2>1. make[m].job_slots_used = Cardinality(SlotJobs(m)) /\ job[j].jobslot \in {0, 1}
    BY <1>1 DEF MakeWell, MakeOK, JobState
  <2> QED BY <1>1, <1>3, <1>4, <2>1
<1>6. /\ make[m].proc = "running" => Runs(make[m])
      /\ make[m].proc = "dying" => Dies(make[m], TokenJobs(m))
      /\ make[m].proc = "signalled" => Killed(make[m], TokenJobs(m))
      /\ make[m].jobserver_enabled <=> make[m].proc # "signalled"
  BY <1>1 DEF MakeWell, MakeOK
<1>7. /\ make[m].agenda # <<"start", "scan">> /\ make[m].agenda # <<"acquire_all">>
      /\ make[m].agenda \in Seq(Operations) /\ make[m].agenda # << >>
  BY <1>1 DEF MakeState, Reaping, At
<1>8. /\ make[m].proc # "signalled" => t = Cardinality(TokenJobs(m) \ {j})
      /\ make[m].proc = "signalled" => t >= Cardinality(TokenJobs(m) \ {j})
      /\ t \in Nat /\ make[m].jobserver_tokens = t + 1
  <2>1. make[m].jobserver_tokens \in Nat
    BY <1>1 DEF MakeState
  <2>2. make[m].proc = "running" => make[m].jobserver_tokens = Cardinality(TokenJobs(m))
    BY <1>1, <1>7 DEF MakeWell, MakeOK
  <2>3. make[m].proc = "dying" => make[m].jobserver_tokens = Cardinality(TokenJobs(m))
    BY <1>6, <1>7 DEF Dies
  <2>4. make[m].proc = "signalled" => make[m].jobserver_tokens >= Cardinality(TokenJobs(m))
    BY <1>1, <1>6, AtKilled
  <2> QED BY <1>1, <1>3, <1>4, <2>1, <2>2, <2>3, <2>4
<1>9. /\ dies \in BOOLEAN /\ more \in BOOLEAN
  BY <1>1 DEF MakeState
<1>10. status \in {0, 2} /\ proc \in {"running", "dying", "signalled"} /\ newjob \in SUBSET Jobs
  BY <1>1 DEF MakeState
<1>11. dies => make[m].proc = "running" /\ status = 2
  OBVIOUS
<1>12. IF dies THEN a = <<"die">> /\ proc = "dying" /\ newjob = {}
       ELSE a = <<"reap">> \o Tail(make[m].agenda) /\ proc = make[m].proc /\ newjob = make[m].newjob
  BY DEF Then
<1>13. make[m].proc = "dying" => make[m].status = 2
  BY <1>1, <1>6, <1>7 DEF Dies
<1>14. make[m].proc = "dying" => status = 2
  BY <1>13
<1> HIDE DEF dies, t, slots, more, status, proc, newjob, a
<1>15. a \in Seq(Operations)
  <2>1. <<"die">> \in Seq(Operations) /\ <<"reap">> \in Seq(Operations)
    BY DEF Operations
  <2>2. Tail(make[m].agenda) \in Seq(Operations)
    BY <1>7, HeadTailProperties
  <2>3. <<"reap">> \o Tail(make[m].agenda) \in Seq(Operations)
    BY <2>1, <2>2, ConcatProperties
  <2> QED BY <1>12, <2>1, <2>3
<1>16. /\ k \in MakeState /\ k.job_slots_used = slots /\ k.jobserver_tokens = t /\ k.status = status
       /\ k.proc = proc /\ k.newjob = newjob /\ k.agenda = a
       /\ k.jobserver_enabled = make[m].jobserver_enabled /\ k.waiting_jobs = make[m].waiting_jobs
  <2>1. k \in MakeState
    BY <1>1, <1>5, <1>8, <1>9, <1>10, <1>15 DEF MakeState
  <2> QED BY <1>1, <2>1 DEF MakeState
<1>17. c \in JobState /\ c.child = "finished" /\ c.jobslot = 0 /\ c.command_line = job[j].command_line
  BY <1>1 DEF JobState
<1> HIDE DEF k, c
<1>18. JobMoves(m, j, k, c, NoMake)
  BY <1>1, <1>2, PlainMove
<1>19. /\ TokenJobs(m)' = TokenJobs(m) \ {j} /\ SlotJobs(m)' = SlotJobs(m) \ {j}
       /\ WaitJobs(m)' = WaitJobs(m) /\ PendingJobs(m)' = PendingJobs(m)
  <2>1. /\ TokenJobs(m)' = IF c.child \in OnChain \cup {"waiting"} THEN TokenJobs(m) \cup {j}
                           ELSE TokenJobs(m) \ {j}
        /\ SlotJobs(m)' = IF c.jobslot = 1 THEN SlotJobs(m) \cup {j} ELSE SlotJobs(m) \ {j}
        /\ WaitJobs(m)' = IF c.child = "waiting" THEN WaitJobs(m) \cup {j} ELSE WaitJobs(m) \ {j}
        /\ PendingJobs(m)' = IF c.child = "pending" THEN PendingJobs(m) \cup {j} ELSE PendingJobs(m) \ {j}
    BY <1>1, <1>17, <1>18, JobSetsMove DEF TokensInv
  <2> QED BY <1>1, <1>17, <2>1 DEF OnChain
<1>20. MakeOK(k, TokenJobs(m) \ {j}, SlotJobs(m) \ {j}, WaitJobs(m), PendingJobs(m))
  <2>1. Chained(k.waiting_jobs, WaitJobs(m)) /\ k.job_slots_used = Cardinality(SlotJobs(m) \ {j})
    BY <1>1, <1>5, <1>16 DEF MakeWell, MakeOK
  <2>2. k.jobserver_enabled <=> k.proc # "signalled"
    BY <1>6, <1>11, <1>12, <1>16
  <2>3. CASE dies
    <3>1. k.proc = "dying" /\ k.agenda = <<"die">> /\ k.status = 2 /\ make[m].proc = "running"
      BY <1>11, <1>12, <1>16, <2>3
    <3>2. Dies(k, TokenJobs(m) \ {j})
      BY <1>8, <1>16, <3>1 DEF Dies
    <3> QED BY <1>16, <2>1, <2>2, <3>1, <3>2 DEF MakeOK
  <2>4. CASE ~dies
    <3>1. k.agenda = <<"reap">> \o Tail(make[m].agenda) /\ k.proc = make[m].proc /\ k.newjob = make[m].newjob
      BY <1>12, <1>16, <2>4
    <3>2. CASE make[m].proc = "running"
      <4>1. Runs(k) /\ k.agenda # <<"start", "scan">>
        BY <1>1, <1>6, <1>7, <1>16, <3>1, <3>2, RunsOn
      <4>2. k.newjob \subseteq PendingJobs(m) /\ \A i, l \in k.newjob : i = l
        BY <3>1, <3>2, Here
      <4> QED BY <1>8, <1>16, <2>1, <2>2, <3>1, <3>2, <4>1, <4>2 DEF MakeOK
    <3>3. CASE make[m].proc = "dying"
      <4>1. k.agenda = <<"reap", "die">> /\ k.status = 2
        BY <1>1, <1>6, <1>14, <1>16, <3>1, <3>3, AtDying
      <4>2. Dies(k, TokenJobs(m) \ {j})
        BY <1>8, <1>16, <3>3, <4>1 DEF Dies
      <4> QED BY <1>16, <2>1, <2>2, <3>1, <3>3, <4>2 DEF MakeOK
    <3>4. CASE make[m].proc = "signalled"
      <4>1. k.agenda = <<"reap", "kill">>
        BY <1>1, <1>6, <3>1, <3>4, AtKilled
      <4>2. Killed(k, TokenJobs(m) \ {j})
        BY <1>8, <1>16, <3>4, <4>1 DEF Killed
      <4> QED BY <1>16, <2>1, <2>2, <3>1, <3>4, <4>2 DEF MakeOK
    <3> QED BY <1>1, <3>2, <3>3, <3>4
  <2> QED BY <2>3, <2>4
<1>21. pipe' \in Nat /\ pipe' + Extra(k) = pipe + Extra(make[m])
  <2>1. CASE make[m].proc = "signalled"
    BY <1>1, <1>2, <1>6, <1>16, <2>1 DEF Released, Extra
  <2>2. CASE make[m].proc # "signalled"
    <3>1. make[m].jobserver_enabled /\ k.jobserver_enabled
      BY <1>6, <1>16, <2>2
    <3>2. make[m].jobserver_tokens = t + 1 /\ k.jobserver_tokens = t /\ t \in Nat /\ pipe \in Nat
      BY <1>1, <1>8, <1>16
    <3>3. pipe' = IF t + 1 > 1 THEN pipe + 1 ELSE pipe
      BY <1>1, <1>2, <3>1, <3>2 DEF Released
    <3>4. \A q : q = (IF t + 1 > 1 THEN pipe + 1 ELSE pipe) => q \in Nat /\ q + Extra(k) = pipe + Extra(make[m])
      BY <3>1, <3>2, TokenBack
    <3> QED BY <3>3, <3>4
  <2> QED BY <2>1, <2>2
<1>22. JobOK(c, CommandLines[j]) /\ c.command_line >= job[j].command_line
  BY <1>1, <1>17 DEF JobOK, JobState
<1>23. k.proc \in {"running", "dying", "signalled"} /\ (k.proc = "dying" => k.agenda # <<"acquire_all">>)
  <2>1. k.agenda # <<"acquire_all">>
    <3>1. CASE dies
      BY <1>12, <1>16, <3>1
    <3>2. CASE ~dies /\ make[m].proc = "dying"
      BY <1>1, <1>6, <1>12, <1>16, <3>2, AtDying
    <3>3. CASE ~dies /\ make[m].proc = "signalled"
      BY <1>1, <1>6, <1>12, <1>16, <3>3, AtKilled
    <3>4. CASE ~dies /\ make[m].proc = "running"
      <4>1. Runs(k)
        BY <1>1, <1>6, <1>7, <1>12, <1>16, <3>4, RunsOn
      <4> QED BY <4>1 DEF Runs, Plain, WithWaiting, NoneWaiting
    <3> QED BY <1>1, <3>1, <3>2, <3>3, <3>4
  <2> QED BY <1>10, <1>16, <2>1
<1>24. UNCHANGED <<keep_going_flag, internal, lost>>
  BY DEF flags
<1>25. MakeOK(k, TokenJobs(m)', SlotJobs(m)', WaitJobs(m)', PendingJobs(m)')
  BY <1>19, <1>20
<1> QED BY <1>1, <1>16, <1>17, <1>18, <1>21, <1>22, <1>23, <1>24, <1>25, JobStep

LEMMA ReapChildrenKeeps ==
  ASSUME TokensInv, NEW m \in Makes, reap_children(m)
  PROVE  TokensInv'
<1>1. Reaping(m) /\ UNCHANGED <<flags, internal, lost>>
  BY DEF reap_children
<1>2. PICK j \in Reapable(m) : ReapNextLine(m, j) \/ RemoveChild(m, j, TRUE) \/ RemoveChild(m, j, FALSE)
  BY DEF reap_children, ReapLastLine, ReapFailure
<1> QED BY <1>1, <1>2, ReapNextLineKeeps, RemoveChildKeeps

----------------------------------------------------------------------------
(***************************************************************************)
(* The theorem.                                                            *)
(***************************************************************************)

LEMMA InitEstablishes == Init => TokensInv
<1> SUFFICES ASSUME Init PROVE TokensInv
  OBVIOUS
<1>1. << >> \in Seq(Jobs) /\ <<"reap_or_wait">> \in Seq(Operations) /\ 0 \in Nat
  BY DEF Operations
<1>2. NewMake \in MakeState /\ [NewMake EXCEPT !.proc = "running"] \in MakeState
  BY <1>1 DEF NewMake, MakeState
<1>3. make \in [Makes -> MakeState]
  BY <1>2 DEF Init
<1>4. /\ job \in [Jobs -> JobState]
      /\ \A j \in Jobs : job[j].child = "pending" /\ job[j].jobslot = 0 /\ job[j].command_line = 0
  BY DEF Init, JobState
<1>5. Jobs_OK
  <2>1. \A j \in Jobs : Len(CommandLines[j]) \in Nat
    BY JobserverAssumption, LenProperties
  <2> QED BY <1>4, <2>1 DEF Jobs_OK, JobOK
<1>6. \A m \in Makes : TokenJobs(m) = {} /\ SlotJobs(m) = {} /\ WaitJobs(m) = {}
  BY <1>4 DEF TokenJobs, SlotJobs, WaitJobs, JobsOf, OnChain
<1>7. \A m \in Makes : /\ make[m].proc = (IF m = Root THEN "running" ELSE "unborn")
                       /\ make[m].agenda = <<"reap_or_wait">> /\ make[m].newjob = {}
                       /\ make[m].jobserver_tokens = 0 /\ make[m].jobserver_enabled = TRUE
                       /\ make[m].job_slots_used = 0 /\ make[m].waiting_jobs = << >>
  BY DEF Init, NewMake
<1>8. Makes_OK
  <2>1. ASSUME NEW m \in Makes
        PROVE  MakeOK(make[m], TokenJobs(m), SlotJobs(m), WaitJobs(m), PendingJobs(m))
    <3>1. Chained(make[m].waiting_jobs, WaitJobs(m))
      BY <1>6, <1>7 DEF Chained
    <3>2. Runs(make[m]) /\ make[m].agenda # <<"start", "scan">>
      <4>1. <<"reap_or_wait">> \in Plain
        BY DEF Plain
      <4>2. <<"reap_or_wait">> # <<"start", "scan">>
        OBVIOUS
      <4>3. Runs(make[m])
        BY <1>7, <4>1 DEF Runs
      <4> QED BY <1>7, <4>2, <4>3
    <3>3. Cardinality(TokenJobs(m)) = 0 /\ Cardinality(SlotJobs(m)) = 0
      BY <1>6, FS_EmptySet
    <3> QED BY <1>3, <1>6, <1>7, <3>1, <3>2, <3>3 DEF MakeOK
  <2> QED BY <1>3, <1>7, <2>1 DEF Makes_OK
<1>9. LinesAhead
  <2> SUFFICES ASSUME NEW j \in Jobs, NEW l \in job[j].command_line + 1 .. Len(CommandLines[j]),
                      CommandLines[j][l].submake # NoMake
               PROVE  make[CommandLines[j][l].submake].proc = "unborn"
    BY DEF LinesAhead
  <2>1. CommandLines[j] \in Seq([submake : Makes \cup {NoMake}, noerror : BOOLEAN])
    BY JobserverAssumption
  <2>2. l \in 1 .. Len(CommandLines[j]) /\ l \in DOMAIN CommandLines[j]
    BY <1>4, <2>1, LenProperties
  <2>3. CommandLines[j][l] \in [submake : Makes \cup {NoMake}, noerror : BOOLEAN]
    BY <2>1, <2>2, ElementOfSeq
  <2>4. CommandLines[j][l].submake \in Makes
    BY <2>3
  <2>5. CommandLines[j][l].submake # Root
    BY <2>2, <2>4, JobserverAssumption
  <2> QED BY <1>7, <2>4, <2>5
<1>10. Sum
  <2>1. HeldTokens = {}
    BY <1>7 DEF HeldTokens
  <2>2. Cardinality(HeldTokens) = 0
    BY <2>1, FS_EmptySet
  <2>3. pipe = master_job_slots - 1 /\ lost = 0 /\ master_job_slots \in Nat \ {0, 1}
    BY JobserverAssumption DEF Init
  <2> QED BY <2>2, <2>3 DEF Sum
<1>11. internal = FALSE /\ keep_going_flag \in BOOLEAN
  BY JobserverAssumption DEF Init
<1> QED BY <1>5, <1>8, <1>9, <1>10, <1>11 DEF TokensInv, NoInternalError

LEMMA NextKeeps == TokensInv /\ [Next]_vars => TokensInv'
<1> SUFFICES ASSUME TokensInv, [Next]_vars PROVE TokensInv'
  OBVIOUS
<1>1. ASSUME NEW m \in Makes, MakeStep(m) PROVE TokensInv'
  BY <1>1, ReapOrWaitKeeps, EndScanKeeps, AllConsideredKeeps, DecideOnJobKeeps, TakeWaitingKeeps, NeedTokenKeeps,
     PreAcquireKeeps, RecheckKeeps, AcquireKeeps, AcquireInterruptedKeeps, StartJobKeeps, ReapChildrenKeeps,
     ReapedAllKeeps, DieKeeps, CleanJobserverKeeps, AcquireAllKeeps, KillAndWaitKeeps DEF MakeStep
<1>2. ASSUME NEW m \in Makes, fatal_error_signal(m) PROVE TokensInv'
  BY <1>2, FatalErrorSignalKeeps
<1>3. ASSUME NEW j \in Jobs, NEW result \in {"won", "failed"}, CommandEnds(j, result) PROVE TokensInv'
  BY <1>3, CommandEndsKeeps
<1>4. CASE UNCHANGED vars
  <2>1. UNCHANGED <<pipe, keep_going_flag, make, job, internal, lost>>
    BY <1>4 DEF vars, flags
  <2>2. UNCHANGED <<Makes_OK, Jobs_OK, LinesAhead, Sum>>
    BY <2>1 DEF Makes_OK, Jobs_OK, LinesAhead, Sum, HeldTokens, TokenJobs, SlotJobs, WaitJobs, PendingJobs, JobsOf
  <2> QED BY <2>1, <2>2 DEF TokensInv, NoInternalError
<1> QED BY <1>1, <1>2, <1>3, <1>4 DEF Next

LEMMA InvImplies == TokensInv => TokensAccounted
<1> SUFFICES ASSUME TokensInv PROVE TokensAccounted
  OBVIOUS
<1>1. make \in [Makes -> MakeState]
  BY DEF TokensInv, Makes_OK
<1>2. \A m \in Makes : make[m].jobserver_tokens \in Nat /\ make[m].agenda \in Seq(Operations)
  BY <1>1 DEF MakeState
<1>3. \A j \in Jobs : job[j] \in JobState /\ job[j].command_line <= Len(CommandLines[j])
  BY DEF TokensInv, Jobs_OK, JobOK
<1>4. Cardinality(HeldTokens) \in Nat
  <2>1. HeldTokens = Held(make)
    BY DEF HeldTokens, Held
  <2> QED BY <1>1, <2>1, HeldChange, JobserverAssumption
<1>5. pipe \in 0 .. master_job_slots - 1
  BY <1>4, JobserverAssumption DEF TokensInv, Sum
<1> QED BY <1>2, <1>3, <1>5 DEF TokensInv, Sum, TokensAccounted, TypeOK, TokensConserved

\* The tokens of the jobserver add up in every state, whatever makes start,
\* fail, are killed or sleep, and neither new_job, nor clean_jobserver, nor
\* the root that drains the pipe finds that they do not.
THEOREM TokensAlwaysAccounted == Spec => []TokensAccounted
<1> QED BY InitEstablishes, NextKeeps, InvImplies, PTL DEF Spec

----------------------------------------------------------------------------
(***************************************************************************)
(* The job slots.  A make that was born runs on a token of the make whose  *)
(* line started it (HasParent), a make that was signalled runs nothing on  *)
(* tokens that were not lost with it (LostBound), and a make with no slot  *)
(* in use has no started command left unless a spawn failed (SlotTaken).   *)
(***************************************************************************)

\* m forgot the jobserver but still waits for its commands.
Forgets(m) == make[m].proc = "signalled" /\ make[m].job_slots_used > 0

\* What makes would hold had they not forgotten the jobserver.
Forgotten ==
    [m \in Makes |-> [NewMake EXCEPT !.jobserver_enabled = Forgets(m),
                                     !.jobserver_tokens = Cardinality(TokenJobs(m))]]

SlotTaken ==
    /\ spawnFailures \in Nat
    /\ spawnFailures = 0 => \A j \in Jobs : job[j].child \in OnChain => job[j].jobslot = 1
HasParent ==
    \A m \in Makes \ {Root} :
        Alive(m) => \E j \in Jobs : job[j].child = "live" /\ CurrentLine(j).submake = m
LostBound == Cardinality(Held(Forgotten)) <= lost
NoneLeft == \A j \in Jobs : make[Owner[j]].proc = "exited" => job[j].jobslot = 0

SlotsInv == SlotTaken /\ HasParent /\ LostBound /\ NoneLeft

LEMMA ForgottenOf ==
  ASSUME NEW T, NEW b \in BOOLEAN, T \subseteq Jobs
  PROVE  LET k == [NewMake EXCEPT !.jobserver_enabled = b, !.jobserver_tokens = Cardinality(T)] IN
         /\ k \in MakeState /\ k.jobserver_enabled = b /\ k.jobserver_tokens = Cardinality(T)
         /\ IsFiniteSet(T) /\ Cardinality(T) \in Nat
<1>1. IsFiniteSet(T) /\ Cardinality(T) \in Nat
  BY JobserverAssumption, FS_Subset, FS_CardinalityType
<1>2. <<"reap_or_wait">> \in Seq(Operations) /\ << >> \in Seq(Jobs)
  BY DEF Operations
<1>3. NewMake \in MakeState
  BY <1>2 DEF NewMake, MakeState
<1> QED BY <1>1, <1>3 DEF MakeState

LEMMA ForgottenFacts ==
  /\ Forgotten \in [Makes -> MakeState] /\ Forgotten' \in [Makes -> MakeState]
  /\ \A m \in Makes : /\ IsFiniteSet(TokenJobs(m)) /\ Cardinality(TokenJobs(m)) \in Nat
                      /\ Forgotten[m].jobserver_enabled = Forgets(m)
                      /\ Forgotten[m].jobserver_tokens = Cardinality(TokenJobs(m))
                      /\ IsFiniteSet(TokenJobs(m)') /\ Cardinality(TokenJobs(m)') \in Nat
                      /\ Forgotten'[m].jobserver_enabled = Forgets(m)'
                      /\ Forgotten'[m].jobserver_tokens = Cardinality(TokenJobs(m)')
<1>1. ASSUME NEW m \in Makes
      PROVE  /\ IsFiniteSet(TokenJobs(m)) /\ Cardinality(TokenJobs(m)) \in Nat
             /\ Forgotten[m] \in MakeState /\ Forgotten[m].jobserver_enabled = Forgets(m)
             /\ Forgotten[m].jobserver_tokens = Cardinality(TokenJobs(m))
  <2>1. Forgets(m) \in BOOLEAN
    BY DEF Forgets
  <2>2. TokenJobs(m) \subseteq Jobs
    BY DEF TokenJobs, JobsOf
  <2>3. Forgotten[m] = [NewMake EXCEPT !.jobserver_enabled = Forgets(m),
                                       !.jobserver_tokens = Cardinality(TokenJobs(m))]
    BY DEF Forgotten
  <2> QED BY ONLY <2>1, <2>2, <2>3, ForgottenOf, ZenonT(40)
<1>2. ASSUME NEW m \in Makes
      PROVE  /\ IsFiniteSet(TokenJobs(m)') /\ Cardinality(TokenJobs(m)') \in Nat
             /\ Forgotten'[m] \in MakeState /\ Forgotten'[m].jobserver_enabled = Forgets(m)'
             /\ Forgotten'[m].jobserver_tokens = Cardinality(TokenJobs(m)')
  <2>1. Forgets(m)' \in BOOLEAN
    BY DEF Forgets
  <2>2. TokenJobs(m)' \subseteq Jobs
    BY DEF TokenJobs, JobsOf
  <2>3. Forgotten'[m] = [NewMake EXCEPT !.jobserver_enabled = Forgets(m)',
                                        !.jobserver_tokens = Cardinality(TokenJobs(m)')]
    BY DEF Forgotten
  <2> QED BY ONLY <2>1, <2>2, <2>3, ForgottenOf, ZenonT(40)
<1>3. Forgotten \in [Makes -> MakeState]
  BY <1>1 DEF Forgotten
<1>4. Forgotten' \in [Makes -> MakeState]
  BY <1>2 DEF Forgotten
<1> QED BY <1>1, <1>2, <1>3, <1>4

\* A step of make m that loses at least what m has to forget.
LEMMA LostStep ==
  ASSUME LostBound, NEW m \in Makes, lost \in Nat, lost' \in Nat,
         \A n \in Makes \ {m} : TokenJobs(n)' = TokenJobs(n) /\ (Forgets(n)' <=> Forgets(n)),
         Extra(Forgotten'[m]) + lost <= Extra(Forgotten[m]) + lost'
  PROVE  LostBound'
<1> DEFINE f == Forgotten g == Forgotten'
<1>1. f \in [Makes -> MakeState] /\ g \in [Makes -> MakeState]
  BY ForgottenFacts
<1>2. \A n \in Makes \ {m} : /\ f[n].jobserver_tokens = g[n].jobserver_tokens
                             /\ f[n].jobserver_enabled = g[n].jobserver_enabled
  <2> SUFFICES ASSUME NEW n \in Makes \ {m}
               PROVE  /\ f[n].jobserver_tokens = g[n].jobserver_tokens
                      /\ f[n].jobserver_enabled = g[n].jobserver_enabled
    OBVIOUS
  <2>1. Forgets(n) \in BOOLEAN /\ Forgets(n)' \in BOOLEAN
    BY DEF Forgets
  <2>2. Forgets(n)' = Forgets(n)
    BY <2>1
  <2> QED BY <2>2, ForgottenFacts
<1> HIDE DEF f, g
<1>3. /\ Cardinality(Held(f)) \in Nat /\ Cardinality(Held(g)) \in Nat
      /\ Extra(f[m]) \in Nat /\ Extra(g[m]) \in Nat
      /\ Cardinality(Held(g)) + Extra(f[m]) = Cardinality(Held(f)) + Extra(g[m])
  BY <1>1, <1>2, HeldChange
<1>4. Cardinality(Held(f)) <= lost /\ Extra(g[m]) + lost <= Extra(f[m]) + lost'
  BY DEF LostBound, f, g
<1>5. Cardinality(Held(g)) <= lost'
  BY <1>3, <1>4
<1> QED BY <1>5 DEF LostBound, g

\* No job starts or ends.
LEMMA QuietKeepsSlots ==
  ASSUME TokensInv, SlotsInv, UNCHANGED <<job, spawnFailures, lost>>,
         \A i \in Makes : make'[i].proc = make[i].proc \/ (make[i].proc = "running" /\ make'[i].proc = "dying"),
         \A i \in Makes : make'[i].job_slots_used = make[i].job_slots_used
  PROVE  SlotsInv'
<1>1. \A i \in Makes : /\ Alive(i)' <=> Alive(i)
                       /\ Forgets(i)' <=> Forgets(i)
                       /\ make'[i].proc = "exited" <=> make[i].proc = "exited"
  BY DEF Alive, Forgets
<1>2. SlotTaken' /\ HasParent' /\ NoneLeft'
  BY <1>1, JobserverAssumption DEF SlotsInv, SlotTaken, HasParent, NoneLeft, CurrentLine
<1>3. \A i \in Makes : TokenJobs(i)' = TokenJobs(i)
  BY DEF TokenJobs, JobsOf
<1>4. Root \in Makes /\ lost \in Nat /\ lost' \in Nat
  BY JobserverAssumption DEF TokensInv, Sum
<1>5. Extra(Forgotten'[Root]) = Extra(Forgotten[Root]) /\ Extra(Forgotten[Root]) \in Nat
  <2>1. Forgets(Root)' = Forgets(Root)
    BY <1>1, <1>4 DEF Forgets
  <2> QED BY <1>3, <1>4, <2>1, ForgottenFacts, HeldByOne DEF Extra
<1>6. LostBound'
  BY <1>1, <1>3, <1>4, <1>5, LostStep DEF SlotsInv
<1> QED BY <1>2, <1>6 DEF SlotsInv

\* Make m starts or frees its job j, and perhaps brings make n to life with it.
LEMMA MoveKeepsSlots ==
  ASSUME TokensInv, SlotsInv, NEW m \in Makes, NEW j \in Jobs, Owner[j] = m, NEW n,
         Alive(m), Alive(m)', Forgets(m)' => Forgets(m) /\ TokenJobs(m)' \subseteq TokenJobs(m),
         \A i \in Makes \ {m, n} : make'[i].proc = make[i].proc,
         \A i \in Makes \ {m} : make'[i].job_slots_used = make[i].job_slots_used,
         n \in Makes => /\ n # m /\ make[n].proc = "unborn" /\ make'[n].proc = "running"
                        /\ job'[j].child = "live" /\ CurrentLine(j)'.submake = n,
         job[j].child # "live", \A i \in Jobs \ {j} : job'[i] = job[i],
         spawnFailures' \in Nat,
         spawnFailures' = 0 => spawnFailures = 0 /\ (job'[j].child \in OnChain => job'[j].jobslot = 1),
         lost' = lost
  PROVE  SlotsInv'
<1>1. SlotTaken'
  BY DEF SlotsInv, SlotTaken
<1>2. HasParent'
  <2> SUFFICES ASSUME NEW p \in Makes \ {Root}, Alive(p)'
               PROVE  \E i \in Jobs : job'[i].child = "live" /\ CurrentLine(i)'.submake = p
    BY DEF HasParent
  <2>1. CASE p = n
    BY <2>1
  <2>2. CASE p # n
    <3>1. Alive(p)
      BY <2>2 DEF Alive
    <3>2. PICK i \in Jobs : job[i].child = "live" /\ CurrentLine(i).submake = p
      BY <3>1 DEF SlotsInv, HasParent
    <3>3. job'[i] = job[i]
      BY <3>2
    <3> QED BY <3>2, <3>3 DEF CurrentLine
  <2> QED BY <2>1, <2>2
<1>3. LostBound'
  <2>1. lost \in Nat /\ lost' \in Nat
    BY DEF TokensInv, Sum
  <2>2. \A i \in Makes \ {m} : TokenJobs(i)' = TokenJobs(i) /\ (Forgets(i)' <=> Forgets(i))
    BY DEF TokenJobs, JobsOf, Forgets
  <2>3. Extra(Forgotten'[m]) <= Extra(Forgotten[m]) /\ Extra(Forgotten'[m]) \in Nat /\ Extra(Forgotten[m]) \in Nat
    <3>1. /\ Extra(Forgotten'[m]) \in Nat /\ Extra(Forgotten[m]) \in Nat
      BY ForgottenFacts, HeldByOne
    <3>2. CASE ~Forgets(m)'
      BY <3>1, <3>2, ForgottenFacts DEF Extra
    <3>3. CASE Forgets(m)'
      <4>1. Forgets(m) /\ TokenJobs(m)' \subseteq TokenJobs(m)
        BY <3>3
      <4>2. Cardinality(TokenJobs(m)') <= Cardinality(TokenJobs(m))
        BY <4>1, ForgottenFacts, FS_Subset
      <4> QED BY <3>3, <4>1, <4>2, ForgottenFacts DEF Extra
    <3> QED BY <3>1, <3>2, <3>3
  <2> QED BY <2>1, <2>2, <2>3, LostStep DEF SlotsInv
<1>4. NoneLeft'
  <2> SUFFICES ASSUME NEW i \in Jobs, make'[Owner[i]].proc = "exited" PROVE job'[i].jobslot = 0
    BY DEF NoneLeft
  <2>1. Owner[i] \in Makes /\ Owner[i] # m /\ i # j
    BY JobserverAssumption DEF Alive
  <2>2. make[Owner[i]].proc = "exited" /\ job'[i] = job[i]
    BY <2>1
  <2> QED BY <2>2 DEF SlotsInv, NoneLeft
<1> QED BY <1>1, <1>2, <1>3, <1>4 DEF SlotsInv

\* The states of the jobs that run or have run move on, outside of make m.
LEMMA EndsKeepSlots ==
  ASSUME TokensInv, SlotsInv, NEW m \in Makes, NEW e,
         \A j \in Jobs : SameJob(job[j], job'[j]) /\ job'[j].command_line = job[j].command_line,
         \A j \in Jobs : job[j].child = "live" => job'[j].child = "live" \/ CurrentLine(j).submake \in {NoMake, e},
         e \in Makes => ~Alive(e)',
         \A i \in Makes : Alive(i)' => Alive(i),
         \A i \in Makes \ {m} : make'[i].proc = make[i].proc /\ make'[i].job_slots_used = make[i].job_slots_used,
         make'[m].proc = "exited" => make[m].proc = "exited" \/ SlotJobs(m) = {},
         UNCHANGED spawnFailures, lost' \in Nat,
         Extra(Forgotten'[m]) + lost <= Extra(Forgotten[m]) + lost'
  PROVE  SlotsInv'
<1>1. SlotTaken'
  BY DEF SlotsInv, SlotTaken, SameJob
<1>2. HasParent'
  <2> SUFFICES ASSUME NEW p \in Makes \ {Root}, Alive(p)'
               PROVE  \E i \in Jobs : job'[i].child = "live" /\ CurrentLine(i)'.submake = p
    BY DEF HasParent
  <2>1. PICK i \in Jobs : job[i].child = "live" /\ CurrentLine(i).submake = p
    BY DEF SlotsInv, HasParent
  <2>2. p \notin {NoMake, e}
    BY JobserverAssumption
  <2>3. CurrentLine(i)' = CurrentLine(i)
    BY DEF CurrentLine
  <2> QED BY <2>1, <2>2, <2>3
<1>3. LostBound'
  <2>1. lost \in Nat
    BY DEF TokensInv, Sum
  <2>2. \A i \in Makes \ {m} : TokenJobs(i)' = TokenJobs(i) /\ (Forgets(i)' <=> Forgets(i))
    BY DEF TokenJobs, JobsOf, Forgets, SameJob
  <2> QED BY <2>1, <2>2, LostStep DEF SlotsInv
<1>4. NoneLeft'
  <2> SUFFICES ASSUME NEW j \in Jobs, make'[Owner[j]].proc = "exited" PROVE job'[j].jobslot = 0
    BY DEF NoneLeft
  <2>1. Owner[j] \in Makes /\ job[j].jobslot \in {0, 1} /\ job'[j].jobslot = job[j].jobslot
    BY JobserverAssumption DEF TokensInv, Jobs_OK, JobState, SameJob
  <2>2. CASE make[Owner[j]].proc = "exited"
    BY <2>1, <2>2 DEF SlotsInv, NoneLeft
  <2>3. CASE Owner[j] = m /\ SlotJobs(m) = {}
    BY <2>1, <2>3 DEF SlotJobs, JobsOf
  <2> QED BY <2>1, <2>2, <2>3
<1> QED BY <1>1, <1>2, <1>3, <1>4 DEF SlotsInv

\* A make exits once no slot is in use.
LEMMA ExitKeepsSlots ==
  ASSUME TokensInv, SlotsInv, NEW m \in Makes, NEW ok \in BOOLEAN, Exits(m, ok), Alive(m),
         make[m].job_slots_used = 0, UNCHANGED <<spawnFailures, lost>>
  PROVE  SlotsInv'
<1>1. /\ make \in [Makes -> MakeState] /\ job \in [Jobs -> JobState] /\ lost \in Nat
      /\ make[m].job_slots_used = Cardinality(SlotJobs(m)) /\ IsFiniteSet(SlotJobs(m))
  <2>1. make \in [Makes -> MakeState] /\ job \in [Jobs -> JobState] /\ lost \in Nat /\ IsFiniteSet(SlotJobs(m))
    BY JobSetsFinite DEF TokensInv, Makes_OK, Jobs_OK, Sum
  <2>2. make[m].job_slots_used = Cardinality(SlotJobs(m))
    BY DEF TokensInv, Makes_OK, MakeOK, Alive
  <2> QED BY <2>1, <2>2
<1>2. SlotJobs(m) = {}
  BY <1>1, FS_EmptySet
<1>3. \A i \in Makes : /\ i # m => make'[i].proc = make[i].proc /\ make'[i].job_slots_used = make[i].job_slots_used
                       /\ i = m => make'[i].proc = "exited"
  BY <1>1 DEF Exits, MakeState
<1>4. \A j \in Jobs : /\ SameJob(job[j], job'[j]) /\ job'[j].command_line = job[j].command_line
                      /\ job[j].child = "live" => job'[j].child = "live" \/ CurrentLine(j).submake \in {NoMake, m}
  <2> SUFFICES ASSUME NEW j \in Jobs
               PROVE  /\ SameJob(job[j], job'[j]) /\ job'[j].command_line = job[j].command_line
                      /\ job[j].child = "live" => job'[j].child = "live" \/ CurrentLine(j).submake \in {NoMake, m}
    OBVIOUS
  <2>1. CASE j \in ParentJobs(m)
    <3>1. job[j].child = "live" /\ CurrentLine(j).submake = m /\ job[j] \in JobState
      BY <1>1, <2>1 DEF ParentJobs
    <3>2. job'[j] = [job[j] EXCEPT !.child = IF ok THEN "won" ELSE "failed"]
      BY <2>1 DEF Exits
    <3> QED BY <3>1, <3>2 DEF JobState, SameJob, OnChain
  <2>2. CASE j \notin ParentJobs(m)
    BY <2>2 DEF Exits, SameJob
  <2> QED BY <2>1, <2>2
<1>5. ~Alive(m)' /\ ~Forgets(m)' /\ \A i \in Makes : Alive(i)' => Alive(i)
  BY <1>3 DEF Alive, Forgets
<1>6. Extra(Forgotten'[m]) + lost <= Extra(Forgotten[m]) + lost'
  <2>1. Extra(Forgotten[m]) \in Nat
    BY ForgottenFacts, HeldByOne
  <2>2. Extra(Forgotten'[m]) = 0
    BY <1>5, ForgottenFacts DEF Extra
  <2> QED BY <1>1, <2>1, <2>2
<1> QED BY <1>1, <1>2, <1>3, <1>4, <1>5, <1>6, EndsKeepSlots

LEMMA FatalKeepsSlots ==
  ASSUME TokensInv, SlotsInv, NEW m \in Makes, fatal_error_signal(m)
  PROVE  SlotsInv'
<1> DEFINE hit == {j \in children(m) : job[j].child = "live" /\ CurrentLine(j).submake = NoMake}
<1>1. /\ make \in [Makes -> MakeState] /\ make[m] \in MakeState /\ job \in [Jobs -> JobState] /\ MakeWell(m)
      /\ make[m].proc \in {"running", "dying"} /\ make[m].jobserver_tokens \in Nat /\ lost \in Nat
      /\ make[m].jobserver_enabled
  BY DEF TokensInv, Makes_OK, Jobs_OK, Sum, MakeWell, MakeOK, MakeState, fatal_error_signal
<1>2. job' = [j \in Jobs |-> IF j \in hit THEN [job[j] EXCEPT !.child = "failed"] ELSE job[j]]
  BY DEF fatal_error_signal
<1> HIDE DEF hit
<1>3. \A j \in Jobs : /\ SameJob(job[j], job'[j]) /\ job'[j].command_line = job[j].command_line
                      /\ job[j].child = "live" => job'[j].child = "live" \/ CurrentLine(j).submake \in {NoMake, NoMake}
  <2> SUFFICES ASSUME NEW j \in Jobs
               PROVE  /\ SameJob(job[j], job'[j]) /\ job'[j].command_line = job[j].command_line
                      /\ job[j].child = "live" => job'[j].child = "live" \/ CurrentLine(j).submake \in {NoMake, NoMake}
    OBVIOUS
  <2>1. CASE j \in hit
    <3>1. job[j] \in JobState /\ job'[j] = [job[j] EXCEPT !.child = "failed"]
      BY <1>1, <1>2, <2>1
    <3>2. job[j].child = "live" /\ CurrentLine(j).submake = NoMake
      BY <2>1 DEF hit
    <3> QED BY <3>1, <3>2 DEF JobState, SameJob, OnChain
  <2>2. CASE j \notin hit
    BY <1>2, <2>2 DEF SameJob
  <2> QED BY <2>1, <2>2
<1>4. /\ \A i \in Makes \ {m} : make'[i].proc = make[i].proc /\ make'[i].job_slots_used = make[i].job_slots_used
      /\ make'[m].proc = "signalled" /\ make'[m].job_slots_used = make[m].job_slots_used
  BY <1>1 DEF fatal_error_signal, MakeState
<1>5. \A i \in Makes : Alive(i)' => Alive(i)
  BY <1>1, <1>4 DEF Alive
<1>6. lost' = lost + Extra(make[m]) /\ Extra(make[m]) \in Nat /\ UNCHANGED spawnFailures
  <2>1. Released(m) * (make[m].jobserver_tokens - 1) = Extra(make[m])
    BY <1>1 DEF Released, Extra
  <2>2. Extra(make[m]) \in Nat
    BY <1>1, HeldByOne
  <2> QED BY <2>1, <2>2 DEF fatal_error_signal
<1>7. Extra(Forgotten[m]) = 0
  <2>1. ~Forgets(m)
    BY <1>1 DEF Forgets
  <2> QED BY <2>1, ForgottenFacts DEF Extra
<1>8. Extra(Forgotten'[m]) <= Extra(make[m])
  <2>1. CASE ~Forgets(m)'
    BY <1>6, <2>1, ForgottenFacts DEF Extra
  <2>2. CASE Forgets(m)'
    <3>1. make[m].job_slots_used > 0
      BY <1>4, <2>2 DEF Forgets
    <3>2. Cardinality(TokenJobs(m)) \in Nat
      BY ForgottenFacts
    <3>3. Cardinality(TokenJobs(m)) <= make[m].jobserver_tokens
      BY <1>1, <3>1, <3>2 DEF MakeWell, MakeOK, Dies
    <3>4. TokenJobs(m)' = TokenJobs(m)
      BY <1>3 DEF TokenJobs, JobsOf, SameJob
    <3>5. Forgotten'[m].jobserver_tokens = Cardinality(TokenJobs(m))
      BY <3>4, ForgottenFacts
    <3> QED BY <1>1, <3>2, <3>3, <3>5 DEF Extra
  <2> QED BY <2>1, <2>2
<1>9. Extra(Forgotten'[m]) + lost <= Extra(Forgotten[m]) + lost' /\ lost' \in Nat
  <2>1. Extra(Forgotten'[m]) \in Nat
    BY ForgottenFacts, HeldByOne
  <2> QED BY <1>1, <1>6, <1>7, <1>8, <2>1
<1>10. NoMake \notin Makes /\ make'[m].proc # "exited"
  BY <1>4, JobserverAssumption
<1> QED BY <1>3, <1>4, <1>5, <1>6, <1>9, <1>10, EndsKeepSlots

LEMMA CommandEndsKeepsSlots ==
  ASSUME TokensInv, SlotsInv, NEW j \in Jobs, NEW result \in {"won", "failed"}, CommandEnds(j, result)
  PROVE  SlotsInv'
<1> DEFINE m == Owner[j]
<1>1. /\ m \in Makes /\ make \in [Makes -> MakeState] /\ job \in [Jobs -> JobState] /\ lost \in Nat
  BY JobserverAssumption DEF TokensInv, Makes_OK, Jobs_OK, Sum
<1>2. /\ job[j].child = "live" /\ CurrentLine(j).submake = NoMake /\ UNCHANGED <<spawnFailures, lost>>
      /\ job' = [job EXCEPT ![j] = [job[j] EXCEPT !.child = result]]
  BY DEF CommandEnds
<1>3. \A i \in Makes : make'[i].proc = make[i].proc /\ make'[i].job_slots_used = make[i].job_slots_used
  BY <1>1 DEF CommandEnds, MakeState
<1>4. \A i \in Jobs : /\ SameJob(job[i], job'[i]) /\ job'[i].command_line = job[i].command_line
                      /\ job[i].child = "live" => job'[i].child = "live" \/ CurrentLine(i).submake \in {NoMake, NoMake}
  <2>1. /\ SameJob(job[j], job'[j]) /\ job'[j].command_line = job[j].command_line
    BY <1>1, <1>2 DEF JobState, SameJob, OnChain
  <2>2. \A i \in Jobs \ {j} : job'[i] = job[i]
    BY <1>1, <1>2
  <2> QED BY <1>2, <2>1, <2>2 DEF SameJob
<1>5. \A i \in Makes : (Alive(i)' => Alive(i)) /\ Forgets(i)' = Forgets(i)
  BY <1>3 DEF Alive, Forgets
<1>6. Extra(Forgotten'[m]) = Extra(Forgotten[m]) /\ Extra(Forgotten[m]) \in Nat
  <2>1. TokenJobs(m)' = TokenJobs(m)
    BY <1>4 DEF TokenJobs, JobsOf, SameJob
  <2> QED BY <1>1, <1>5, <2>1, ForgottenFacts, HeldByOne DEF Extra
<1>7. NoMake \notin Makes
  BY JobserverAssumption
<1>8. Extra(Forgotten'[m]) + lost <= Extra(Forgotten[m]) + lost' /\ lost' \in Nat
  BY <1>1, <1>2, <1>6
<1> HIDE DEF m
<1> QED BY <1>1, <1>2, <1>3, <1>4, <1>5, <1>7, <1>8, EndsKeepSlots

\* The steps that neither start nor end a job.
Quiet(m) ==
    \/ ReapOrWait(m) \/ EndScan(m) \/ AllConsidered(m) \/ \E j \in Jobs : DecideOnJob(m, j)
    \/ NeedToken(m) \/ jobserver_pre_acquire(m) \/ Recheck(m) \/ jobserver_acquire(m)
    \/ AcquireInterrupted(m) \/ ReapedAll(m) \/ die(m)

\* A make changes its agenda, its tokens and so on.
Turns(m) ==
    /\ make'[m].proc = make[m].proc \/ (make[m].proc = "running" /\ make'[m].proc = "dying")
    /\ make'[m].job_slots_used = make[m].job_slots_used
    /\ \A i \in Makes \ {m} : make'[i] = make[i]

LEMMA TurnKeepsSlots ==
  ASSUME TokensInv, SlotsInv, NEW m \in Makes, Turns(m), UNCHANGED <<job, spawnFailures, lost>>
  PROVE  SlotsInv'
BY QuietKeepsSlots DEF Turns

LEMMA QuietStep ==
  ASSUME TokensInv, NEW m \in Makes, Quiet(m)
  PROVE  Turns(m) /\ UNCHANGED <<job, spawnFailures, lost>>
<1>1. make \in [Makes -> MakeState] /\ make[m] \in MakeState
  BY DEF TokensInv, Makes_OK
<1>2. ASSUME NEW a, Goes(m, a) PROVE Turns(m)
  BY <1>1, <1>2 DEF Goes, Turns, MakeState
<1>3. ASSUME GetsToken(m) PROVE Turns(m)
  BY <1>1, <1>3 DEF GetsToken, Turns, MakeState
<1>4. CASE ReapOrWait(m)
  BY <1>2, <1>4 DEF ReapOrWait, Others
<1>5. CASE EndScan(m)
  BY <1>1, <1>5 DEF EndScan, Others, Turns, MakeState
<1>6. CASE AllConsidered(m)
  <2>1. make[m].proc = "running"
    BY <1>6, OnlyRunning DEF AllConsidered, Scanning
  <2> QED BY <1>1, <1>6, <2>1 DEF AllConsidered, Others, Turns, MakeState
<1>7. CASE \E j \in Jobs : DecideOnJob(m, j)
  BY <1>1, <1>7 DEF DecideOnJob, Others, Turns, MakeState
<1>8. CASE NeedToken(m)
  BY <1>2, <1>3, <1>8 DEF NeedToken, Others
<1>9. CASE jobserver_pre_acquire(m)
  BY <1>1, <1>9 DEF jobserver_pre_acquire, Others, Turns, MakeState
<1>10. CASE Recheck(m)
  <2>1. make[m].proc = "running"
    BY <1>10, OnlyRunning DEF Recheck
  <2>2. ASSUME make' = [make EXCEPT ![m].agenda = <<"die">>, ![m].proc = "dying", ![m].status = 2]
        PROVE  Turns(m)
    BY <1>1, <2>1, <2>2 DEF Turns, MakeState
  <2>3. UNCHANGED <<job, spawnFailures, lost>>
    BY <1>10 DEF Recheck
  <2>4. Turns(m)
    BY <1>2, <1>3, <1>10, <2>2 DEF Recheck
  <2> QED BY <2>3, <2>4
<1>11. CASE jobserver_acquire(m)
  BY <1>3, <1>11 DEF jobserver_acquire
<1>12. CASE AcquireInterrupted(m)
  BY <1>1, <1>12 DEF AcquireInterrupted, Others, Turns, MakeState
<1>13. CASE ReapedAll(m)
  BY <1>2, <1>13 DEF ReapedAll, Others
<1>14. CASE die(m)
  BY <1>2, <1>14 DEF die, Others
<1> QED BY <1>4, <1>5, <1>6, <1>7, <1>8, <1>9, <1>10, <1>11, <1>12, <1>13, <1>14 DEF Quiet

\* The three ways to exit.
LEMMA OutKeepsSlots ==
  ASSUME TokensInv, SlotsInv, NEW m \in Makes,
         clean_jobserver(m) \/ jobserver_acquire_all(m) \/ KillAndWait(m)
  PROVE  SlotsInv'
<1>1. make \in [Makes -> MakeState] /\ make[m] \in MakeState /\ MakeWell(m) /\ make[m].job_slots_used \in Nat
  BY DEF TokensInv, Makes_OK, MakeWell, MakeState
<1>2. CASE clean_jobserver(m)
  <2>1. Alive(m) /\ make[m].job_slots_used = 0 /\ UNCHANGED <<spawnFailures, lost>>
    <3>1. Alive(m) /\ Head(make[m].agenda) = "clean_jobserver" /\ UNCHANGED <<spawnFailures, lost>>
      BY <1>2 DEF clean_jobserver, At
    <3>2. At(m, "clean_jobserver")
      BY <1>2 DEF clean_jobserver
    <3>3. make[m].proc = "dying" /\ make[m].agenda = <<"clean_jobserver">>
      BY <3>2, OnlyDying
    <3>4. Dies(make[m], TokenJobs(m))
      BY <1>1, <3>3 DEF MakeWell, MakeOK
    <3> QED BY <3>1, <3>3, <3>4 DEF Dies
  <2>2. CASE m = Root
    <3>1. make' = [make EXCEPT ![m].agenda = <<"acquire_all">>, ![m].jobserver_tokens = 0] /\ UNCHANGED job
      BY <1>2, <2>2 DEF clean_jobserver
    <3>2. Turns(m)
      BY <1>1, <3>1 DEF Turns, MakeState
    <3> QED BY <2>1, <3>1, <3>2, TurnKeepsSlots
  <2>3. CASE m # Root
    <3>1. Exits(m, make[m].status = 0)
      BY <1>2, <2>3 DEF clean_jobserver
    <3> QED BY <2>1, <3>1, ExitKeepsSlots
  <2> QED BY <2>2, <2>3
<1>3. CASE jobserver_acquire_all(m)
  <2>1. At(m, "acquire_all") /\ Exits(m, make[m].status = 0) /\ UNCHANGED <<spawnFailures, lost>>
    BY <1>3 DEF jobserver_acquire_all
  <2>2. make[m].proc = "dying" /\ make[m].agenda = <<"acquire_all">>
    BY <2>1, OnlyDying
  <2>3. Dies(make[m], TokenJobs(m))
    BY <1>1, <2>2 DEF MakeWell, MakeOK
  <2>4. Alive(m) /\ make[m].job_slots_used = 0
    BY <2>2, <2>3 DEF Dies, Alive
  <2>5. (make[m].status = 0) \in BOOLEAN
    OBVIOUS
  <2> QED BY <2>1, <2>4, <2>5, ExitKeepsSlots
<1>4. CASE KillAndWait(m)
  <2>1. At(m, "kill") /\ Alive(m) /\ UNCHANGED <<spawnFailures, lost>>
    BY <1>4 DEF KillAndWait, At
  <2>2. CASE make[m].job_slots_used > 0
    <3>1. Goes(m, <<"wait", "kill">>) /\ UNCHANGED job
      BY <1>4, <2>2 DEF KillAndWait
    <3>2. Turns(m)
      BY <1>1, <3>1 DEF Goes, Turns, MakeState
    <3> QED BY <2>1, <3>1, <3>2, TurnKeepsSlots
  <2>3. CASE ~(make[m].job_slots_used > 0)
    <3>1. Exits(m, FALSE)
      BY <1>4, <2>3 DEF KillAndWait
    <3>2. make[m].job_slots_used = 0
      BY <1>1, <2>3
    <3> QED BY <2>1, <3>1, <3>2, ExitKeepsSlots
  <2> QED BY <2>2, <2>3
<1> QED BY <1>2, <1>3, <1>4

\* Starting the next line of a job: with a slot for a job that is new, or in
\* the slot that the job has.
LEMMA StartCommandKeepsSlots ==
  ASSUME TokensInv, SlotsInv, NEW m \in Makes, NEW j \in JobsOf(m), NEW mk \in MakeState, NEW counted \in BOOLEAN,
         start_job_command(m, j, mk, counted), MoreLines(j), job[j].child # "live",
         make[m].proc \in {"running", "dying", "signalled"}, mk.proc = make[m].proc,
         counted => make[m].proc = "running",
         ~counted => mk.job_slots_used = make[m].job_slots_used /\ job[j].child \in OnChain,
         UNCHANGED lost
  PROVE  SlotsInv'
<1>1. /\ make \in [Makes -> MakeState] /\ job \in [Jobs -> JobState] /\ j \in Jobs /\ Owner[j] = m
      /\ spawnFailures \in Nat /\ job[j] \in JobState
  BY DEF TokensInv, Makes_OK, Jobs_OK, JobsOf, SlotsInv, SlotTaken
<1>2. PICK k \in MakeState, c \in JobState, n \in Makes \cup {NoMake} :
            /\ JobMoves(m, j, k, c, n)
            /\ c.command_line = job[j].command_line + 1 /\ c.command_line <= Len(CommandLines[j])
            /\ \/ /\ c.child = "live" /\ c.jobslot = (IF counted THEN 1 ELSE job[j].jobslot)
                  /\ k = IF counted THEN [mk EXCEPT !.job_slots_used = @ + 1] ELSE mk
               \/ c.child = "unstarted" /\ c.jobslot = job[j].jobslot /\ k = mk
  BY StartsCommand
<1>3. job'[j] = c /\ \A i \in Jobs \ {j} : job'[i] = job[i]
  BY <1>1, <1>2 DEF JobMoves
<1>4. k.proc = make[m].proc /\ (~counted => k.job_slots_used = make[m].job_slots_used)
  BY <1>2 DEF MakeState
<1>5. /\ make'[m] = k
      /\ \A i \in Makes \ {m, n} : make'[i] = make[i]
      /\ \A i \in Makes \ {m} : make'[i].job_slots_used = make[i].job_slots_used
      /\ n \in Makes => /\ n # m /\ make[n].proc = "unborn" /\ make'[n].proc = "running"
                        /\ c.child = "live" /\ CommandLines[j][c.command_line].submake = n
  BY <1>1, <1>2 DEF JobMoves, MakeState
<1>6. Alive(m) /\ Alive(m)'
  BY <1>4, <1>5 DEF Alive
<1>7. Forgets(m)' => Forgets(m) /\ TokenJobs(m)' \subseteq TokenJobs(m)
  <2> SUFFICES ASSUME Forgets(m)' PROVE Forgets(m) /\ TokenJobs(m)' \subseteq TokenJobs(m)
    OBVIOUS
  <2>1. make[m].proc = "signalled" /\ ~counted
    BY <1>4, <1>5 DEF Forgets
  <2>2. Forgets(m) /\ job[j].child \in OnChain
    BY <1>4, <1>5, <2>1 DEF Forgets
  <2> QED BY <1>1, <1>3, <2>2 DEF TokenJobs, JobsOf
<1>8. n \in Makes => job'[j].child = "live" /\ CurrentLine(j)'.submake = n
  BY <1>3, <1>5 DEF CurrentLine
<1>9. /\ spawnFailures' \in Nat
      /\ spawnFailures' = 0 => spawnFailures = 0 /\ (job'[j].child \in OnChain => job'[j].jobslot = 1)
  <2>1. CASE UNCHANGED spawnFailures /\ job'[j].jobslot = IF counted THEN 1 ELSE job[j].jobslot
    BY <1>1, <2>1 DEF SlotsInv, SlotTaken
  <2>2. CASE spawnFailures' = spawnFailures + 1
    BY <1>1, <2>2
  <2>3. /\ [job EXCEPT ![j].command_line = job[j].command_line + 1, ![j].child = "live"][j].jobslot = job[j].jobslot
        /\ [job EXCEPT ![j].command_line = job[j].command_line + 1, ![j].child = "live",
                       ![j].jobslot = 1][j].jobslot = 1
    BY <1>1 DEF JobState
  <2>4. \/ UNCHANGED spawnFailures /\ job' = IF counted
                THEN [job EXCEPT ![j].command_line = job[j].command_line + 1, ![j].child = "live", ![j].jobslot = 1]
                ELSE [job EXCEPT ![j].command_line = job[j].command_line + 1, ![j].child = "live"]
        \/ spawnFailures' = spawnFailures + 1
    BY DEF start_job_command, Spawned, SpawnFails
  <2> QED BY <2>1, <2>2, <2>3, <2>4
<1>10. \A i \in Makes \ {m, n} : make'[i].proc = make[i].proc
  BY <1>5
<1> QED BY <1>1, <1>3, <1>5, <1>6, <1>7, <1>8, <1>9, <1>10, MoveKeepsSlots

\* A job that is put back, finished or taken off the chain has no slot.
LEMMA FreeKeepsSlots ==
  ASSUME TokensInv, SlotsInv, NEW m \in Makes, NEW j \in JobsOf(m), NEW k,
         make' = [make EXCEPT ![m] = k], Alive(m), k.proc \in {"running", "dying", "signalled"},
         k.proc = "signalled" => /\ make[m].proc = "signalled" /\ job'[j].child = "finished"
                                 /\ k.job_slots_used > 0 => make[m].job_slots_used > 0,
         job[j].child # "live", \A i \in Jobs \ {j} : job'[i] = job[i],
         job'[j].child \in {"waiting", "finished"}, UNCHANGED <<spawnFailures, lost>>
  PROVE  SlotsInv'
<1>1. /\ make \in [Makes -> MakeState] /\ j \in Jobs /\ Owner[j] = m /\ spawnFailures \in Nat
  BY DEF TokensInv, Makes_OK, JobsOf, SlotsInv, SlotTaken
<1>2. make'[m] = k /\ \A i \in Makes \ {m} : make'[i] = make[i]
  BY <1>1
<1>3. Alive(m)'
  BY <1>2 DEF Alive
<1>4. Forgets(m)' => Forgets(m) /\ TokenJobs(m)' \subseteq TokenJobs(m)
  BY <1>1, <1>2 DEF Forgets, TokenJobs, JobsOf, OnChain
<1>5. job'[j].child \notin OnChain /\ NoMake \notin Makes
  BY JobserverAssumption DEF OnChain
<1>6. /\ \A i \in Makes \ {m, NoMake} : make'[i].proc = make[i].proc
      /\ \A i \in Makes \ {m} : make'[i].job_slots_used = make[i].job_slots_used
  BY <1>2
<1> QED BY <1>1, <1>3, <1>4, <1>5, <1>6, MoveKeepsSlots

LEMMA StartKeepsSlots ==
  ASSUME TokensInv, SlotsInv, NEW m \in Makes, NEW j \in JobsOf(m), NEW mk \in MakeState,
         NEW back, NEW on \in Seq(Operations),
         make[m].proc = "running", mk.proc = "running", job[j].child \in {"pending", "waiting"},
         start_waiting_job(m, j, mk, back, on), UNCHANGED lost
  PROVE  SlotsInv'
<1>1. /\ job \in [Jobs -> JobState] /\ j \in Jobs /\ Alive(m) /\ job[j].child # "live" /\ MoreLines(j)
  <2>1. j \in Jobs /\ job \in [Jobs -> JobState] /\ job[j].command_line = 0
    BY DEF TokensInv, Jobs_OK, JobOK, JobsOf
  <2>2. CommandLines[j] \in Seq([submake : Makes \cup {NoMake}, noerror : BOOLEAN]) \ {<< >>}
    BY <2>1, JobserverAssumption
  <2>3. Len(CommandLines[j]) \in Nat /\ Len(CommandLines[j]) > 0
    BY <2>2, EmptySeq, LenProperties
  <2> QED BY <2>1, <2>3 DEF MoreLines, Alive
<1>2. CASE /\ make' = [make EXCEPT ![m] = [mk EXCEPT !.agenda = back, !.waiting_jobs = <<j>> \o @]]
           /\ job' = [job EXCEPT ![j].child = "waiting"] /\ UNCHANGED spawnFailures
  <2> DEFINE k == [mk EXCEPT !.agenda = back, !.waiting_jobs = <<j>> \o @]
  <2>1. k.proc = "running"
    BY DEF MakeState
  <2>2. job'[j].child = "waiting" /\ \A i \in Jobs \ {j} : job'[i] = job[i]
    BY <1>1, <1>2 DEF JobState
  <2>3. make' = [make EXCEPT ![m] = k]
    BY <1>2
  <2> HIDE DEF k
  <2> QED BY <1>1, <1>2, <2>1, <2>2, <2>3, FreeKeepsSlots
<1>3. CASE /\ make' = [make EXCEPT ![m] = [mk EXCEPT !.agenda = on, !.jobserver_tokens = @ - 1]]
           /\ job' = [job EXCEPT ![j].child = "finished"] /\ UNCHANGED spawnFailures
  <2> DEFINE k == [mk EXCEPT !.agenda = on, !.jobserver_tokens = @ - 1]
  <2>1. k.proc = "running"
    BY DEF MakeState
  <2>2. job'[j].child = "finished" /\ \A i \in Jobs \ {j} : job'[i] = job[i]
    BY <1>1, <1>3 DEF JobState
  <2>3. make' = [make EXCEPT ![m] = k]
    BY <1>3
  <2> HIDE DEF k
  <2> QED BY <1>1, <1>3, <2>1, <2>2, <2>3, FreeKeepsSlots
<1>4. CASE start_job_command(m, j, [mk EXCEPT !.agenda = on], TRUE)
  <2> DEFINE k == [mk EXCEPT !.agenda = on]
  <2>1. k \in MakeState /\ k.proc = "running"
    BY DEF MakeState
  <2>2. start_job_command(m, j, k, TRUE)
    BY <1>4
  <2> HIDE DEF k
  <2> QED BY <1>1, <2>1, <2>2, StartCommandKeepsSlots
<1> QED BY <1>2, <1>3, <1>4 DEF start_waiting_job

LEMMA StartingKeepsSlots ==
  ASSUME TokensInv, SlotsInv, NEW m \in Makes, StartJob(m) \/ TakeWaiting(m)
  PROVE  SlotsInv'
<1>1. make[m].proc = "running" /\ Runs(make[m])
  BY OnlyRunning DEF StartJob, TakeWaiting
<1>2. /\ make[m] \in MakeState /\ make[m].newjob \subseteq PendingJobs(m)
      /\ Chained(make[m].waiting_jobs, WaitJobs(m)) /\ UNCHANGED lost
  BY <1>1, Here DEF StartJob, TakeWaiting
<1>3. CASE StartJob(m)
  <2> DEFINE mk == [make[m] EXCEPT !.newjob = {}]
  <2>1. PICK j \in make[m].newjob : start_waiting_job(m, j, mk, Then(m, << >>), Then(m, << >>))
    BY <1>3 DEF StartJob
  <2>2. j \in JobsOf(m) /\ job[j].child = "pending"
    BY <1>2 DEF PendingJobs
  <2>3. mk \in MakeState /\ mk.proc = "running"
    BY <1>1, <1>2 DEF MakeState
  <2>4. Then(m, << >>) \in Seq(Operations)
    <3>1. make[m].agenda = <<"start", "scan">>
      BY <1>1, <1>3, AtRunning DEF StartJob, At
    <3>2. Tail(<<"start", "scan">>) = <<"scan">> /\ << >> \o <<"scan">> = <<"scan">>
      OBVIOUS
    <3> QED BY <3>1, <3>2 DEF Then, Operations
  <2> HIDE DEF mk
  <2> QED BY <1>1, <1>2, <2>1, <2>2, <2>3, <2>4, StartKeepsSlots
<1>4. CASE TakeWaiting(m)
  <2> DEFINE w == make[m].waiting_jobs
             j == Head(w)
             mk == [make[m] EXCEPT !.waiting_jobs = Tail(w)]
             on == Then(m, start_waiting_jobs(Tail(w)))
  <2>1. start_waiting_job(m, j, mk, Then(m, << >>), on)
    BY <1>4 DEF TakeWaiting
  <2>2. /\ w # << >> /\ w \in Seq(Jobs)
        /\ make[m].agenda \in {<<"take_waiting", "reap_or_wait">>, <<"take_waiting", "recheck", "scan">>,
                               <<"take_waiting", "reap", "token", "scan">>}
    BY <1>1, <1>2, <1>4, AtRunning DEF TakeWaiting, At, MakeState
  <2>3. j \in JobsOf(m) /\ job[j].child = "waiting"
    <3>1. j = w[1] /\ 1 \in 1 .. Len(w)
      BY <2>2, EmptySeq, LenProperties
    <3> QED BY <1>2, <3>1 DEF Chained, WaitJobs
  <2>4. Tail(w) \in Seq(Jobs)
    BY <2>2
  <2>5. mk \in MakeState /\ mk.proc = "running"
    BY <1>1, <1>2, <2>4 DEF MakeState
  <2>6. on \in Seq(Operations)
    <3>1. Tail(make[m].agenda) \in Seq(Operations)
      <4>1. make[m].agenda \in Seq(Operations)
        BY <1>2 DEF MakeState
      <4>2. make[m].agenda # << >>
        BY <2>2
      <4> QED BY ONLY <4>1, <4>2
    <3>2. start_waiting_jobs(Tail(w)) \in Seq(Operations)
      <4>1. << >> \in Seq(Operations)
        OBVIOUS
      <4>2. <<"reap", "take_waiting">> \in Seq(Operations)
        BY DEF Operations
      <4> QED BY <4>1, <4>2 DEF start_waiting_jobs
    <3> QED BY <3>1, <3>2 DEF Then
  <2> HIDE DEF mk, on, j, w
  <2> QED BY <1>1, <1>2, <2>1, <2>3, <2>5, <2>6, StartKeepsSlots
<1> QED BY <1>3, <1>4

LEMMA ReapingKeepsSlots ==
  ASSUME TokensInv, SlotsInv, NEW m \in Makes, reap_children(m)
  PROVE  SlotsInv'
<1>1. PICK j \in Reapable(m) : ReapNextLine(m, j) \/ ReapLastLine(m, j) \/ ReapFailure(m, j)
  BY DEF reap_children
<1>2. Reaping(m) /\ UNCHANGED lost
  BY DEF reap_children
<1>3. /\ j \in JobsOf(m) /\ j \in Jobs /\ job[j].child \in Dead /\ make[m] \in MakeState
      /\ make[m].proc \in {"running", "dying", "signalled"}
  BY <1>2, ReapHere
<1>4. job[j].child # "live" /\ job[j].child \in OnChain /\ Alive(m) /\ job \in [Jobs -> JobState]
  BY <1>3 DEF Dead, OnChain, Alive, TokensInv, Jobs_OK
<1>5. CASE ReapNextLine(m, j)
  <2> DEFINE mk == [make[m] EXCEPT !.more_commands = @ \/ Counts(j)]
  <2>1. start_job_command(m, j, mk, FALSE) /\ MoreLines(j)
    BY <1>5 DEF ReapNextLine
  <2>2. (make[m].more_commands \/ Counts(j)) \in BOOLEAN
    BY <1>3 DEF MakeState
  <2>3. mk \in MakeState /\ mk.proc = make[m].proc /\ mk.job_slots_used = make[m].job_slots_used
    BY <1>3, <2>2 DEF MakeState
  <2> HIDE DEF mk
  <2> QED BY <1>2, <1>3, <1>4, <2>1, <2>3, StartCommandKeepsSlots
<1>6. ASSUME NEW ok \in BOOLEAN, RemoveChild(m, j, ok)
      PROVE  SlotsInv'
  <2> DEFINE dies == ~ok /\ ~keep_going_flag /\ make[m].proc = "running"
             slots == IF make[m].job_slots_used > 0 THEN make[m].job_slots_used - job[j].jobslot
                      ELSE make[m].job_slots_used
             proc == IF dies THEN "dying" ELSE make[m].proc
             k == [make[m] EXCEPT
                     !.job_slots_used = slots,
                     !.jobserver_tokens = @ - 1,
                     !.more_commands = @ \/ Counts(j),
                     !.status = IF ok THEN @ ELSE 2,
                     !.proc = proc,
                     !.newjob = IF dies THEN {} ELSE @,
                     !.agenda = IF dies THEN <<"die">> ELSE Then(m, <<"reap">>)]
  <2>1. make' = [make EXCEPT ![m] = k]
    BY <1>6 DEF RemoveChild
  <2>2. k.proc = proc /\ k.job_slots_used = slots
    BY <1>3 DEF MakeState
  <2>3. job' = [job EXCEPT ![j].child = "finished", ![j].jobslot = 0] /\ UNCHANGED spawnFailures
    BY <1>6 DEF RemoveChild
  <2>4. job'[j].child = "finished" /\ \A i \in Jobs \ {j} : job'[i] = job[i]
    BY <1>3, <1>4, <2>3 DEF JobState
  <2>5. /\ proc \in {"running", "dying", "signalled"}
        /\ proc = "signalled" => make[m].proc = "signalled"
    BY <1>3
  <2>6. slots > 0 => make[m].job_slots_used > 0
    BY <1>3, <1>4 DEF MakeState, JobState
  <2> HIDE DEF k, proc, slots
  <2> QED BY <1>2, <1>3, <1>4, <2>1, <2>2, <2>3, <2>4, <2>5, <2>6, FreeKeepsSlots
<1> QED BY <1>1, <1>5, <1>6 DEF ReapLastLine, ReapFailure

LEMMA InitSlots == Init => SlotsInv
<1> SUFFICES ASSUME Init PROVE SlotsInv
  OBVIOUS
<1>1. \A j \in Jobs : job[j].child = "pending" /\ job[j].jobslot = 0
  BY DEF Init
<1>2. \A m \in Makes : make[m].proc = (IF m = Root THEN "running" ELSE "unborn")
  BY DEF Init, NewMake
<1>3. spawnFailures = 0 /\ lost = 0
  BY DEF Init
<1>4. SlotTaken /\ HasParent /\ NoneLeft
  BY <1>1, <1>2, <1>3 DEF SlotTaken, HasParent, NoneLeft, OnChain, Alive
<1>5. LostBound
  <2>1. \A m \in Makes : Forgotten[m].jobserver_enabled = FALSE
    <3>1. \A m \in Makes : Forgets(m) = FALSE
      BY <1>2 DEF Forgets
    <3> QED BY <3>1, ForgottenFacts
  <2>2. Held(Forgotten) = {}
    BY <2>1 DEF Held
  <2> QED BY <1>3, <2>2, FS_EmptySet DEF LostBound
<1> QED BY <1>4, <1>5 DEF SlotsInv

LEMMA NextKeepsSlots == TokensInv /\ SlotsInv /\ [Next]_vars => SlotsInv'
<1> SUFFICES ASSUME TokensInv, SlotsInv, [Next]_vars PROVE SlotsInv'
  OBVIOUS
<1>1. ASSUME NEW m \in Makes, MakeStep(m) PROVE SlotsInv'
  <2>1. \/ Quiet(m) \/ StartJob(m) \/ TakeWaiting(m) \/ reap_children(m)
        \/ clean_jobserver(m) \/ jobserver_acquire_all(m) \/ KillAndWait(m)
    BY <1>1 DEF MakeStep, Quiet
  <2>2. CASE Quiet(m)
    BY <2>2, QuietStep, TurnKeepsSlots
  <2> QED BY <2>1, <2>2, StartingKeepsSlots, ReapingKeepsSlots, OutKeepsSlots
<1>2. ASSUME NEW m \in Makes, fatal_error_signal(m) PROVE SlotsInv'
  BY <1>2, FatalKeepsSlots
<1>3. ASSUME NEW j \in Jobs, NEW result \in {"won", "failed"}, CommandEnds(j, result) PROVE SlotsInv'
  BY <1>3, CommandEndsKeepsSlots
<1>4. CASE UNCHANGED vars
  <2>1. UNCHANGED <<make, job, spawnFailures, lost>>
    BY <1>4 DEF vars
  <2> QED BY <2>1, QuietKeepsSlots
<1> QED BY <1>1, <1>2, <1>3, <1>4 DEF Next

\* A command left behind has no slot, and so its first line was not started.
LEMMA OrphansHaveNoSlot == TokensInv /\ SlotsInv => OrphansNeedSpawnFailure
<1> SUFFICES ASSUME TokensInv, SlotsInv, NEW j \in Jobs, job[j].child = "live", Abandons(Owner[j])
             PROVE  spawnFailures > 0
  BY DEF OrphansNeedSpawnFailure, Orphans
<1> DEFINE m == Owner[j]
<1>1. /\ m \in Makes /\ job[j].child \in OnChain /\ job[j].jobslot \in {0, 1} /\ spawnFailures \in Nat
      /\ MakeWell(m) /\ IsFiniteSet(SlotJobs(m))
  BY JobserverAssumption, JobSetsFinite DEF TokensInv, Jobs_OK, JobState, OnChain, SlotsInv, SlotTaken, Makes_OK, MakeWell
<1>2. job[j].jobslot = 0
  <2>1. CASE make[m].proc = "exited"
    BY <2>1 DEF SlotsInv, NoneLeft
  <2>2. ASSUME make[m].proc \in {"dying", "signalled"}, make[m].job_slots_used = 0 PROVE job[j].jobslot = 0
    <3>1. SlotJobs(m) = {}
      BY <1>1, <2>2, FS_EmptySet DEF MakeWell, MakeOK
    <3> QED BY <1>1, <3>1 DEF SlotJobs, JobsOf
  <2>3. CASE At(m, "acquire_all")
    <3>1. make[m].proc = "dying" /\ make[m].agenda = <<"acquire_all">>
      BY <1>1, <2>3, OnlyDying
    <3>2. make[m].job_slots_used = 0
      BY <1>1, <3>1 DEF MakeWell, MakeOK, Dies
    <3> QED BY <2>2, <3>1, <3>2
  <2> QED BY <2>1, <2>2, <2>3 DEF Abandons
<1> QED BY <1>1, <1>2 DEF SlotsInv, SlotTaken

\* The makes that are alive but for the root are run by a live line each.
LEMMA MakesRunOnLines ==
  ASSUME SlotsInv
  PROVE  LET live == {j \in Jobs : job[j].child = "live"}
             born == {m \in Makes : Alive(m)} \ {Root} IN
         /\ IsFiniteSet(live) /\ Cardinality(live) \in Nat /\ Cardinality(Running) \in Nat
         /\ Cardinality(born) \in Nat /\ Cardinality(Running) + Cardinality(born) <= Cardinality(live)
<1> DEFINE live == {j \in Jobs : job[j].child = "live"}
           born == {m \in Makes : Alive(m)} \ {Root}
           Runs_m(m, j) == job[j].child = "live" /\ CurrentLine(j).submake = m
           parent == [m \in born |-> CHOOSE j \in Jobs : Runs_m(m, j)]
<1>1. /\ IsFiniteSet(live) /\ IsFiniteSet(Running) /\ Running \subseteq live
      /\ Cardinality(live) \in Nat /\ Cardinality(Running) \in Nat
  <2>1. live \subseteq Jobs /\ Running \subseteq live
    BY DEF Running
  <2>2. IsFiniteSet(live) /\ IsFiniteSet(Running)
    BY <2>1, JobserverAssumption, FS_Subset
  <2> QED BY <2>1, <2>2, FS_CardinalityType
<1>2. IsFiniteSet(live \ Running) /\ Cardinality(live \ Running) = Cardinality(live) - Cardinality(Running)
  <2>1. live \cap Running = Running
    BY <1>1
  <2> QED BY <1>1, <2>1, FS_Difference
<1>3. \A m \in born : \E j \in Jobs : Runs_m(m, j)
  BY DEF SlotsInv, HasParent
<1>4. \A m \in born : parent[m] \in Jobs /\ Runs_m(m, parent[m])
  BY <1>3
<1>5. \A m \in born : parent[m] \in live \ Running
  <2>1. NoMake \notin born
    BY JobserverAssumption
  <2> QED BY <1>4, <2>1 DEF Running
<1>6. parent \in Injection(born, live \ Running)
  <2>1. parent \in [born -> live \ Running]
    BY <1>5
  <2>2. \A m, n \in born : parent[m] = parent[n] => m = n
    BY <1>4
  <2> HIDE DEF parent, born, live
  <2> QED BY <2>1, <2>2 DEF Injection, IsInjective
<1> HIDE DEF live, born, parent
<1>7. Cardinality(born) <= Cardinality(live \ Running) /\ Cardinality(born) \in Nat
  BY <1>2, <1>6, FS_Injection, FS_CardinalityType
<1>8. Cardinality(Running) + Cardinality(born) <= Cardinality(live)
  BY <1>1, <1>2, <1>7
<1> QED BY <1>1, <1>7, <1>8 DEF live, born

\* The token that a live line of make m uses as its i-th is the one m was born
\* with, one that m took out of the pipe, or one that is lost with m.
LEMMA TokenOfLine ==
  ASSUME TokensInv, SlotsInv, Orphans = {}, NEW j \in Jobs, job[j].child = "live",
         NEW i \in 1 .. Cardinality(TokenJobs(Owner[j]))
  PROVE  <<Owner[j], i>> \in Held(make) \cup Held(Forgotten) \cup {m \in Makes : Alive(m)} \X {1}
<1> DEFINE m == Owner[j]
<1>1. /\ m \in Makes /\ MakeWell(m) /\ j \in TokenJobs(m) /\ ~Abandons(m) /\ Cardinality(TokenJobs(m)) \in Nat
      /\ make[m] \in MakeState /\ i \in Nat
  <2>1. m \in Makes
    BY JobserverAssumption
  <2>2. MakeWell(m) /\ make[m] \in MakeState
    BY <2>1 DEF TokensInv, Makes_OK, MakeWell
  <2>3. Cardinality(TokenJobs(m)) \in Nat /\ i \in Nat
    BY <2>1, ForgottenFacts
  <2>4. j \in TokenJobs(m) /\ ~Abandons(m)
    BY DEF TokenJobs, JobsOf, OnChain, Orphans
  <2> QED BY <2>1, <2>2, <2>3, <2>4
<1> HIDE DEF m
<1>2. Alive(m)
  BY <1>1 DEF MakeWell, MakeOK, MakeState, Abandons, Alive
<1>3. CASE i = 1
  BY <1>1, <1>2, <1>3 DEF m
<1>4. CASE i # 1 /\ make[m].proc = "signalled"
  <2>1. Forgets(m) = TRUE
    BY <1>1, <1>4 DEF Abandons, Forgets, MakeState
  <2>2. Forgotten[m].jobserver_enabled /\ Forgotten[m].jobserver_tokens = Cardinality(TokenJobs(m))
    BY <1>1, <2>1, ForgottenFacts
  <2>3. i \in 2 .. Forgotten[m].jobserver_tokens
    BY <1>1, <1>4, <2>2 DEF m
  <2>4. <<m, i>> \in Held(Forgotten)
    BY <1>1, <2>2, <2>3 DEF Held
  <2> QED BY <2>4 DEF m
<1>5. CASE i # 1 /\ make[m].proc \in {"running", "dying"}
  <2>1. make[m].jobserver_enabled /\ Cardinality(TokenJobs(m)) <= make[m].jobserver_tokens
    <3>1. make[m].agenda # <<"acquire_all">>
      BY <1>1, <1>2 DEF Abandons, At
    <3>2. make[m].jobserver_tokens \in Nat
      BY <1>1 DEF MakeState
    <3> QED BY <1>1, <1>5, <3>1, <3>2 DEF MakeWell, MakeOK, Dies
  <2>2. i \in 2 .. make[m].jobserver_tokens
    <3>1. make[m].jobserver_tokens \in Nat
      BY <1>1 DEF MakeState
    <3> QED BY <1>1, <1>5, <2>1, <3>1 DEF m
  <2>3. <<m, i>> \in Held(make)
    BY <1>1, <2>1, <2>2 DEF Held
  <2> QED BY <2>3 DEF m
<1> QED BY <1>2, <1>3, <1>4, <1>5 DEF Alive

\* Live lines have a token each, of those that makes were born with, took out
\* of the pipe or lost.
LEMMA LinesRunOnTokens ==
  ASSUME TokensInv, SlotsInv, Orphans = {}
  PROVE  LET live == {j \in Jobs : job[j].child = "live"}
             alive == {m \in Makes : Alive(m)} IN
         /\ Cardinality(Held(make)) \in Nat /\ Cardinality(Held(Forgotten)) \in Nat /\ Cardinality(alive) \in Nat
         /\ IsFiniteSet(alive)
         /\ Cardinality(live) <= Cardinality(Held(make)) + Cardinality(Held(Forgotten)) + Cardinality(alive)
<1> DEFINE live == {j \in Jobs : job[j].child = "live"}
           alive == {m \in Makes : Alive(m)}
           Numbers(m) == Bijection(TokenJobs(m), 1 .. Cardinality(TokenJobs(m)))
           number == [m \in Makes |-> CHOOSE f : f \in Numbers(m)]
           token == [j \in live |-> <<Owner[j], number[Owner[j]][j]>>]
           own == alive \X {1}
           H == Held(make)
           F == Held(Forgotten)
<1>1. /\ IsFiniteSet(H) /\ IsFiniteSet(F) /\ Cardinality(H) \in Nat /\ Cardinality(F) \in Nat
  <2>1. make \in [Makes -> MakeState] /\ Forgotten \in [Makes -> MakeState] /\ Root \in Makes
    BY ForgottenFacts, JobserverAssumption DEF TokensInv, Makes_OK
  <2>2. ASSUME NEW f \in [Makes -> MakeState] PROVE IsFiniteSet(Held(f))
    <3>1. IsFiniteSet(HeldBut(f, Root)) /\ Held(f) = HeldBut(f, Root) \cup HeldBy(f[Root], Root)
      BY <2>1, HeldFinite
    <3>2. IsFiniteSet(HeldBy(f[Root], Root))
      BY <2>1, HeldByOne
    <3> QED BY <3>1, <3>2, FS_Union
  <2> QED BY <2>1, <2>2, FS_CardinalityType
<1>2. IsFiniteSet(alive) /\ Cardinality(alive) \in Nat /\ IsFiniteSet(own) /\ Cardinality(own) = Cardinality(alive)
  <2>1. IsFiniteSet(alive) /\ Cardinality(alive) \in Nat
    BY JobserverAssumption, FS_Subset, FS_CardinalityType
  <2>2. IsFiniteSet({1}) /\ Cardinality({1}) = 1
    BY FS_Singleton
  <2> HIDE DEF alive
  <2>3. IsFiniteSet(own) /\ Cardinality(own) = Cardinality(alive) * Cardinality({1})
    BY <2>1, <2>2, FS_Product
  <2> QED BY <2>1, <2>2, <2>3
<1>3. \A m \in Makes : number[m] \in Numbers(m)
  <2>1. ASSUME NEW m \in Makes PROVE \E f : f \in Numbers(m)
    <3>1. IsFiniteSet(TokenJobs(m))
      BY ForgottenFacts
    <3>2. ExistsBijection(1 .. Cardinality(TokenJobs(m)), TokenJobs(m))
      BY <3>1, FS_CardinalityType
    <3>3. ExistsBijection(TokenJobs(m), 1 .. Cardinality(TokenJobs(m)))
      BY <3>2, Fun_ExistsBijSymmetric
    <3> QED BY <3>3 DEF ExistsBijection
  <2> QED BY <2>1
<1> HIDE DEF number
<1>4. \A j \in live : Owner[j] \in Makes /\ j \in TokenJobs(Owner[j])
  BY JobserverAssumption DEF TokenJobs, JobsOf, OnChain
<1>5. \A j \in live : number[Owner[j]][j] \in 1 .. Cardinality(TokenJobs(Owner[j]))
  BY <1>3, <1>4 DEF Bijection, Injection
<1>6. \A j \in live : token[j] \in H \cup F \cup own
  BY <1>5, TokenOfLine
<1>7. \A i, j \in live : token[i] = token[j] => i = j
  <2> SUFFICES ASSUME NEW i \in live, NEW j \in live, token[i] = token[j] PROVE i = j
    OBVIOUS
  <2>1. Owner[i] = Owner[j] /\ number[Owner[i]][i] = number[Owner[i]][j]
    OBVIOUS
  <2>2. i \in TokenJobs(Owner[i]) /\ j \in TokenJobs(Owner[i]) /\ number[Owner[i]] \in Numbers(Owner[i])
    BY <1>3, <1>4, <2>1
  <2> QED BY <2>1, <2>2 DEF Bijection, Injection, IsInjective
<1>8. token \in Injection(live, H \cup F \cup own)
  <2>1. token \in [live -> H \cup F \cup own]
    BY <1>6
  <2> HIDE DEF token, live, own, H, F
  <2> QED BY <1>7, <2>1 DEF Injection, IsInjective
<1> HIDE DEF live, alive, own, token, H, F
<1>9. IsFiniteSet(H \cup F) /\ Cardinality(H \cup F) <= Cardinality(H) + Cardinality(F)
  <2>1. H \cap F \subseteq H
    OBVIOUS
  <2>2. IsFiniteSet(H \cap F) /\ Cardinality(H \cap F) \in Nat
    BY <1>1, <2>1, FS_Subset, FS_CardinalityType
  <2>3. IsFiniteSet(H \cup F) /\ Cardinality(H \cup F) = Cardinality(H) + Cardinality(F) - Cardinality(H \cap F)
    BY <1>1, FS_Union
  <2> QED BY <1>1, <2>2, <2>3
<1>10. /\ IsFiniteSet(H \cup F \cup own) /\ Cardinality(H \cup F) \in Nat
       /\ Cardinality(H \cup F \cup own) <= Cardinality(H \cup F) + Cardinality(own)
  <2>1. (H \cup F) \cap own \subseteq own
    OBVIOUS
  <2>2. IsFiniteSet((H \cup F) \cap own) /\ Cardinality((H \cup F) \cap own) \in Nat
    BY <1>2, <2>1, FS_Subset, FS_CardinalityType
  <2>3. /\ IsFiniteSet(H \cup F \cup own)
        /\ Cardinality(H \cup F \cup own) = Cardinality(H \cup F) + Cardinality(own) - Cardinality((H \cup F) \cap own)
    BY <1>2, <1>9, FS_Union
  <2>4. Cardinality(H \cup F) \in Nat
    BY <1>9, FS_CardinalityType
  <2> QED BY <1>2, <2>2, <2>3, <2>4
<1>11. Cardinality(live) <= Cardinality(H \cup F \cup own) /\ Cardinality(live) \in Nat
       /\ Cardinality(H \cup F \cup own) \in Nat
  BY <1>8, <1>10, FS_Injection, FS_CardinalityType
<1>12. Cardinality(live) <= Cardinality(H) + Cardinality(F) + Cardinality(alive)
  BY <1>1, <1>2, <1>9, <1>10, <1>11
<1> QED BY <1>1, <1>2, <1>12 DEF live, alive, H, F

LEMMA SlotsBoundCommands == TokensInv /\ SlotsInv => JobsWithinSlots
<1> SUFFICES ASSUME TokensInv, SlotsInv, Orphans = {} PROVE Cardinality(Running) <= master_job_slots
  BY DEF JobsWithinSlots
<1> DEFINE live == {j \in Jobs : job[j].child = "live"}
           alive == {m \in Makes : Alive(m)}
           born == alive \ {Root}
           h == Cardinality(Held(make))
           f == Cardinality(Held(Forgotten))
<1>1. /\ IsFiniteSet(live) /\ Cardinality(live) \in Nat /\ Cardinality(Running) \in Nat
      /\ Cardinality(born) \in Nat /\ Cardinality(Running) + Cardinality(born) <= Cardinality(live)
  BY MakesRunOnLines
<1>2. /\ h \in Nat /\ f \in Nat /\ Cardinality(alive) \in Nat /\ IsFiniteSet(alive)
      /\ Cardinality(live) <= h + f + Cardinality(alive)
  BY LinesRunOnTokens
<1>3. Cardinality(alive) <= Cardinality(born) + 1
  <2> HIDE DEF alive
  <2>1. Cardinality(born) = IF Root \in alive THEN Cardinality(alive) - 1 ELSE Cardinality(alive)
    BY <1>2, FS_RemoveElement
  <2> QED BY <1>2, <2>1
<1>4. pipe \in Nat /\ lost \in Nat /\ master_job_slots \in Nat /\ pipe + h + lost <= master_job_slots - 1
  <2>1. HeldTokens = Held(make)
    BY DEF HeldTokens, Held
  <2> QED BY <2>1, JobserverAssumption DEF TokensInv, Sum
<1>5. f <= lost
  BY DEF SlotsInv, LostBound
<1> HIDE DEF live, alive, born, h, f
<1> QED BY <1>1, <1>2, <1>3, <1>4, <1>5

\* make -jN never has more than N commands running, over all makes of the
\* tree, until a make leaves one of its own behind, and it does so only if a
\* line of that job could not be started before.
THEOREM JobsAlwaysAccounted == Spec => []JobsAccounted
<1>1. Init => TokensInv /\ SlotsInv
  BY InitEstablishes, InitSlots
<1>2. TokensInv /\ SlotsInv /\ [Next]_vars => (TokensInv /\ SlotsInv)'
  BY NextKeeps, NextKeepsSlots
<1>3. TokensInv /\ SlotsInv => JobsAccounted
  BY SlotsBoundCommands, OrphansHaveNoSlot DEF JobsAccounted
<1> QED BY <1>1, <1>2, <1>3, PTL DEF Spec
====
