---- MODULE KernelThreadsProofs ----
(***************************************************************************)
(* Proofs about KernelThreads for every number of threads, waiters and     *)
(* interrupts and every set of timeouts.                                   *)
(*                                                                         *)
(* What the two tables promise holds because a wait owns the CPU: the      *)
(* invariant StepInv says that only the waiter of the call in wait can be  *)
(* active, that a call which goes round its loop has its waiter or its     *)
(* interrupt, and that a BLOCKED thread is the current one.  The           *)
(* scheduler's scan is reasoned about through two lemmas on Scheduled and  *)
(* Woken, the operators every action changes the thread table with.        *)
(***************************************************************************)
EXTENDS KernelThreads, WellFoundedInduction, TLAPS

USE SizesAssumption, TimeoutsAssumption, PortsAssumption

States == {"READY", "RUNNING", "BLOCKED", "TERMINATED"}
Thread == [id : 0 .. MAX_THREADS, stack : BOOLEAN, last_error : {0, ERR_TIMEOUT},
           state : States]
Waiter == [pid : 0 .. MAX_THREADS, irq : Irqs, timeout : Timeouts \cup {0},
           age : 0 .. Oldest, active : BOOLEAN]
Call == [pc : Pcs, pid : 1 .. MAX_THREADS, thread : Slots, irq : Irqs,
         clear : BOOLEAN, timeout : Timeouts, slot : WaiterSlots,
         cause : {"none", "irq", "timeout"}]

\* sched_create_thread hands out ids and slots in the same order and nothing
\* ever ends a thread.
IdsInOrder ==
    \A s \in Slots : /\ threads[s].id = IF s + 1 < next_thread_id THEN s + 1 ELSE 0
                     /\ threads[s].id = 0 => threads[s].state = "READY"
                     /\ threads[s].state # "TERMINATED"

\* The call in wait was made by a thread that still has its slot, and that has
\* the CPU until the call first yields.
CallOfThread ==
    wait = NoWait \/ /\ wait \in Call /\ threads[wait.thread].id = wait.pid
                     /\ wait.pc \in {"register", "count", "block"} => wait.thread = current_thread

\* Only the entry the call in wait made can be active; the search finds it once
\* num_waiters covers it, and the timeout checker did not take it.
OneWaiter ==
    \A w \in WaiterSlots : irq_waiters[w].active =>
        /\ w = wait.slot /\ wait.pc \in Pcs \ {"register"} /\ wait.cause # "timeout"
        /\ w < num_waiters \/ wait.pc = "count"

\* Until the call leaves its loop it has its entry, or its interrupt came, or
\* the timeout checker took the entry and the search is next.
LoopStatus ==
    wait.pc \in {"count", "block", "test", "timeouts", "find", "yield"} =>
        \/ irq_waiters[wait.slot].active
        \/ irq_occurred[wait.irq] = 1
        \/ wait.pc = "find" /\ wait.cause = "timeout"

\* Why a call leaves its loop is known only when it does.
CauseWhenWaiting ==
    /\ wait.pc \in {"register", "count", "block", "test", "timeouts", "yield"} =>
          wait.cause = "none"
    /\ wait.pc = "find" => wait.cause \in {"none", "timeout"}

\* ERR_TIMEOUT stays in a thread only until the call that timed out returns.
ErrorFresh ==
    \A s \in Slots : threads[s].last_error = ERR_TIMEOUT =>
        /\ wait.pc \in {"find", "consume", "remove"}
        /\ wait.thread = s /\ wait.cause = "timeout"

----------------------------------------------------------------------------
(***************************************************************************)
(* The scheduler's scan and the two operators on the thread table.         *)
(***************************************************************************)
LEMMA OldestIsLongest ==
  /\ Oldest \in Timeouts /\ Oldest \in Nat
  /\ \A t \in Timeouts : t <= Oldest
BY DEF Oldest

LEMMA LeastNatural ==
  ASSUME NEW T, T \subseteq Nat, T # {}
  PROVE  \E m \in T : \A k \in T : m <= k
<1> DEFINE R == {ss \in Nat \X Nat : ss[1] < ss[2]}
<1>1. R = OpToRel(<, Nat)
  BY DEF OpToRel
<1>2. IsWellFoundedOn(R, Nat)
  BY <1>1, NatLessThanWellFounded
<1> HIDE DEF R
<1>3. PICK m \in T : \A k \in T : ~(<<k, m>> \in R)
  BY <1>2, WFMin
<1>4. ASSUME NEW k \in T PROVE m <= k
  <2>1. m \in Nat /\ k \in Nat
    OBVIOUS
  <2>2. ~(k < m)
    BY <1>3, <2>1, Zenon DEF R
  <2> QED BY <2>1, <2>2
<1> QED BY <1>4

\* sched_schedule's scan finds a slot whenever there is a runnable thread.
LEMMA ScanFinds ==
  ASSUME NEW th, current_thread \in Slots, AnyRunnable(th)
  PROVE  NextThread(th) \in Slots /\ th[NextThread(th)].state = "READY"
         /\ th[NextThread(th)].id # 0
<1> DEFINE Ready == {s \in Slots : th[s].state = "READY" /\ th[s].id # 0}
           T == {Distance(s) : s \in Ready}
<1>1. \A s \in Slots : Distance(s) \in Nat
  BY DEF Distance, Slots
<1>2. T \subseteq Nat /\ T # {}
  BY <1>1 DEF AnyRunnable
<1>3. PICK m \in T : \A k \in T : m <= k
  BY <1>2, LeastNatural
<1>4. PICK s \in Ready : m = Distance(s)
  OBVIOUS
<1>5. \A u \in Ready : Distance(s) <= Distance(u)
  BY <1>3, <1>4
<1>6. \E x \in Slots :
        /\ th[x].state = "READY" /\ th[x].id # 0
        /\ \A u \in Slots : th[u].state = "READY" /\ th[u].id # 0 => Distance(x) <= Distance(u)
  BY <1>4, <1>5
<1> QED BY <1>6 DEF NextThread

\* What sched_schedule does to each slot.
LEMMA ScheduledSlots ==
  ASSUME NEW th \in [Slots -> Thread], current_thread \in Slots,
         \A s \in Slots : th[s].state \in {"RUNNING", "BLOCKED"} => s = current_thread /\ th[s].id # 0
  PROVE  /\ ScheduledCurrent(th) \in Slots
         /\ Scheduled(th) \in [Slots -> Thread]
         /\ \A s \in Slots :
              /\ Scheduled(th)[s].id = th[s].id
              /\ Scheduled(th)[s].last_error = th[s].last_error
              /\ Scheduled(th)[s].state = "BLOCKED" => th[s].state = "BLOCKED"
              /\ Scheduled(th)[s].state = "TERMINATED" => th[s].state = "TERMINATED"
              /\ Scheduled(th)[s].state \in {"RUNNING", "BLOCKED"} => s = ScheduledCurrent(th)
              /\ th[s].id = 0 => Scheduled(th)[s].state = th[s].state
<1>1. CASE ~AnyRunnable(th)
  BY <1>1 DEF Scheduled, ScheduledCurrent
<1>2. CASE AnyRunnable(th)
  <2> DEFINE x == NextThread(th)
  <2>1. x \in Slots /\ th[x].id # 0
    BY <1>2, ScanFinds
  <2>2. ScheduledCurrent(th) = x
    BY <1>2 DEF ScheduledCurrent
  <2>3. Scheduled(th) = [s \in Slots |->
            IF s = x THEN [th[s] EXCEPT !.state = "RUNNING"]
            ELSE IF s = current_thread /\ th[s].id # 0 THEN [th[s] EXCEPT !.state = "READY"]
            ELSE th[s]]
    BY <1>2 DEF Scheduled
  <2> HIDE DEF x
  <2> QED BY <2>1, <2>2, <2>3 DEF Thread, States
<1> QED BY <1>1, <1>2

\* What waking the waiters in W does to each slot.
WokenBy(th, W, s) == th[s].state = "BLOCKED" /\ \E w \in W : irq_waiters[w].pid = th[s].id

LEMMA WokenSlots ==
  ASSUME NEW th \in [Slots -> Thread], NEW W, NEW error \in {0, ERR_TIMEOUT}
  PROVE  /\ Woken(th, W, error) \in [Slots -> Thread]
         /\ \A s \in Slots :
              /\ Woken(th, W, error)[s].id = th[s].id
              /\ Woken(th, W, error)[s].state = IF WokenBy(th, W, s) THEN "READY" ELSE th[s].state
              /\ Woken(th, W, error)[s].last_error =
                   IF WokenBy(th, W, s) /\ error # 0 THEN error ELSE th[s].last_error
BY DEF Woken, WokenBy, Thread, States

LEMMA WokenByNobody ==
  ASSUME NEW th \in [Slots -> Thread], NEW error
  PROVE  Woken(th, {}, error) = th
BY DEF Woken

\* What silencing the waiters in W does to each entry.
LEMMA SilencedEntries ==
  ASSUME NEW W, irq_waiters \in [WaiterSlots -> Waiter]
  PROVE  /\ Silenced(W) \in [WaiterSlots -> Waiter]
         /\ \A w \in WaiterSlots :
              /\ Silenced(W)[w].active = (irq_waiters[w].active /\ w \notin W)
              /\ Silenced(W)[w].pid = irq_waiters[w].pid
              /\ Silenced(W)[w].irq = irq_waiters[w].irq
<1>1. 0 \in 0 .. Oldest
  BY OldestIsLongest
<1>2. ASSUME NEW w \in WaiterSlots
      PROVE  /\ Silenced(W)[w] \in Waiter
             /\ Silenced(W)[w].active = (irq_waiters[w].active /\ w \notin W)
             /\ Silenced(W)[w].pid = irq_waiters[w].pid
             /\ Silenced(W)[w].irq = irq_waiters[w].irq
  <2>1. CASE w \in W
    <3>1. Silenced(W)[w] = [irq_waiters[w] EXCEPT !.active = FALSE, !.age = 0]
      BY <2>1 DEF Silenced
    <3>2. irq_waiters[w] \in Waiter
      OBVIOUS
    <3>3. /\ Silenced(W)[w] \in Waiter /\ Silenced(W)[w].active = FALSE
          /\ Silenced(W)[w].pid = irq_waiters[w].pid
          /\ Silenced(W)[w].irq = irq_waiters[w].irq
      BY <1>1, <3>1, <3>2 DEF Waiter
    <3>4. (irq_waiters[w].active /\ w \notin W) = FALSE
      BY <2>1
    <3> QED BY <3>3, <3>4, Zenon
  <2>2. CASE w \notin W
    <3>1. Silenced(W)[w] = irq_waiters[w]
      BY <2>2 DEF Silenced
    <3> QED BY <2>2, <3>1 DEF Waiter
  <2> QED BY <2>1, <2>2
<1>3. Silenced(W) = [w \in WaiterSlots |-> Silenced(W)[w]]
  BY DEF Silenced
<1> QED BY <1>2, <1>3

----------------------------------------------------------------------------
(***************************************************************************)
(* The invariant.                                                          *)
(***************************************************************************)
Types ==
    /\ port \in {"x86_64", "wired"}
    /\ threads \in [Slots -> Thread]
    /\ current_thread \in Slots /\ next_thread_id \in 1 .. MAX_THREADS + 1
    /\ irq_waiters \in [WaiterSlots -> Waiter]
    /\ num_waiters \in 0 .. MAX_IRQ_WAITERS
    /\ irq_occurred \in [Irqs -> {0, 1}]
    /\ irq_occurrence_count \in [Irqs -> 0 .. COUNT_RANGE - 1]
    /\ raised \subseteq Irqs
    /\ returned.result \in {0, -1, -2, -3, -4}

LEMMA TypesOfTypeOK == TypeOK <=> Types /\ (wait = NoWait \/ wait.pc \in Pcs)
BY DEF TypeOK, Types, Thread, Waiter, States

StepInv ==
    /\ Types /\ IdsInOrder /\ CallOfThread /\ CauseWhenWaiting /\ OneWaiter /\ LoopStatus
    /\ ErrorFresh
    /\ OneRunningThread /\ NoStaleWaiter /\ BlockedHasTheCpu /\ TimeoutReportedTruthfully

LEMMA NoWaitPc == NoWait.pc = "none" /\ NoWait.pc \notin Pcs
BY DEF NoWait, Pcs

\* What the call in wait is.
LEMMA InCall ==
  ASSUME StepInv, wait.pc \in Pcs
  PROVE  /\ wait # NoWait /\ wait \in Call /\ threads[wait.thread].id = wait.pid
         /\ wait.thread \in Slots /\ wait.slot \in WaiterSlots /\ wait.irq \in Irqs
         /\ wait.pid # 0
BY NoWaitPc DEF StepInv, CallOfThread, Call

\* A wake-up that a call has not seen yet is not lost.
LEMMA WakeupKept == StepInv => NoLostWakeup
<1> SUFFICES ASSUME StepInv, wait.pc \in {"block", "test", "timeouts", "yield"},
                    irq_occurred[wait.irq] # 1
             PROVE  Waiting(irq_waiters, wait.pid, wait.irq) # {}
  BY DEF NoLostWakeup
<1>1. wait.slot \in WaiterSlots
  BY InCall DEF Pcs
<1>2. irq_waiters[wait.slot].active
  BY DEF StepInv, LoopStatus
<1>3. wait.slot \in Waiting(irq_waiters, wait.pid, wait.irq)
  BY <1>1, <1>2 DEF Waiting, StepInv, OneWaiter, NoStaleWaiter
<1> QED BY <1>3

\* What the steps keep says that the tables are consistent.
LEMMA StepInvConsistent == StepInv => SchedulerConsistent
<1>1. CallOfThread => wait = NoWait \/ wait.pc \in Pcs
  BY DEF CallOfThread, Call
<1> QED BY <1>1, TypesOfTypeOK, WakeupKept DEF StepInv, SchedulerConsistent

\* Outside a wait nobody waits.
LEMMA Quiet ==
  ASSUME StepInv, wait.pc \in {"none", "register"}
  PROVE  (\A w \in WaiterSlots : ~irq_waiters[w].active) /\ Expired = {}
<1>1. \A w \in WaiterSlots : ~irq_waiters[w].active
  BY DEF StepInv, OneWaiter, Pcs
<1> QED BY <1>1 DEF Expired

\* Ids are handed out once.
LEMMA IdsUnique ==
  ASSUME StepInv
  PROVE  \A s, u \in Slots : threads[s].id # 0 /\ threads[s].id = threads[u].id => s = u
BY DEF StepInv, IdsInOrder, Slots, Types

\* The scheduler may run on the table as it is.
LEMMA Schedulable ==
  ASSUME StepInv
  PROVE  \A s \in Slots : threads[s].state \in {"RUNNING", "BLOCKED"} =>
            s = current_thread /\ threads[s].id # 0
BY DEF StepInv, OneRunningThread, BlockedHasTheCpu, IdsInOrder

LEMMA InitInv == Init => StepInv
<1> SUFFICES ASSUME Init PROVE StepInv
  OBVIOUS
<1> USE DEF Init
<1>1. 0 \in Slots /\ 0 \in 0 .. MAX_IRQ_WAITERS /\ 1 \in 1 .. MAX_THREADS + 1
  BY DEF Slots
<1>2. threads \in [Slots -> Thread]
  BY DEF NoThread, Thread, States
<1>3. irq_waiters \in [WaiterSlots -> Waiter]
  BY OldestIsLongest DEF NoWaiter, Waiter, Irqs
<1>4. Types
  BY <1>1, <1>2, <1>3, PortsAssumption DEF Types
<1>5. IdsInOrder
  BY DEF IdsInOrder, NoThread, Slots
<1>6. CallOfThread /\ CauseWhenWaiting /\ ErrorFresh /\ TimeoutReportedTruthfully
  BY NoWaitPc DEF CallOfThread, CauseWhenWaiting, ErrorFresh, NoThread, ERR_TIMEOUT, TimeoutReportedTruthfully
<1>7. OneWaiter /\ NoStaleWaiter /\ LoopStatus
  BY DEF OneWaiter, NoStaleWaiter, NoWaiter, LoopStatus, NoWait
<1>8. OneRunningThread /\ BlockedHasTheCpu
  BY DEF OneRunningThread, BlockedHasTheCpu, NoThread
<1> QED BY <1>4, <1>5, <1>6, <1>7, <1>8 DEF StepInv

\* Creating a thread: the first free slot is the one the next id belongs to.
LEMMA CreateThreadInv ==
  ASSUME StepInv, CreateThread
  PROVE  StepInv'
<1>1. PICK s \in FreeSlots, stack \in BOOLEAN :
        /\ \A u \in FreeSlots : s <= u
        /\ threads' = [threads EXCEPT ![s] =
              [id |-> next_thread_id, state |-> "READY", stack |-> stack,
               last_error |-> threads[s].last_error]]
  BY DEF CreateThread
<1>2. /\ threads \in [Slots -> Thread] /\ next_thread_id \in 1 .. MAX_THREADS + 1
      /\ next_thread_id' = next_thread_id + 1 /\ wait = NoWait
      /\ UNCHANGED <<port, current_thread, irq_waiters, num_waiters, irq_occurred,
                     irq_occurrence_count, raised, wait, returned>>
  BY DEF StepInv, Types, CreateThread
<1>3. \A u \in Slots : u \in FreeSlots <=> u + 1 >= next_thread_id
  BY <1>2 DEF FreeSlots, StepInv, IdsInOrder, Slots
<1>4. s \in Slots
  BY DEF FreeSlots
<1>5. s + 1 = next_thread_id
  <2>1. s + 1 >= next_thread_id
    BY <1>3, <1>4
  <2>2. next_thread_id - 1 \in Slots
    BY <1>2, <1>4, <2>1 DEF Slots
  <2>3. next_thread_id - 1 \in FreeSlots
    BY <1>2, <1>3, <2>2
  <2>4. s <= next_thread_id - 1
    BY <1>1, <2>3
  <2> QED BY <1>2, <1>4, <2>1, <2>4 DEF Slots
<1>6. next_thread_id' \in 1 .. MAX_THREADS + 1
  BY <1>2, <1>4, <1>5 DEF Slots
<1>7. /\ threads' \in [Slots -> Thread]
      /\ \A u \in Slots : u # s => threads'[u] = threads[u]
      /\ threads'[s].state = "READY" /\ threads'[s].id = s + 1
      /\ threads'[s].last_error = threads[s].last_error
  BY <1>1, <1>2, <1>4, <1>5 DEF Thread, States, Slots
<1>8. Types'
  BY <1>2, <1>6, <1>7 DEF StepInv, Types
<1>9. IdsInOrder'
  <2> SUFFICES ASSUME NEW u \in Slots
               PROVE  /\ threads'[u].id = IF u + 1 < next_thread_id + 1 THEN u + 1 ELSE 0
                      /\ threads'[u].id = 0 => threads'[u].state = "READY"
                      /\ threads'[u].state # "TERMINATED"
    BY <1>2 DEF IdsInOrder
  <2>1. CASE u = s
    BY <1>4, <1>5, <1>7, <2>1 DEF Slots
  <2>2. CASE u # s
    <3>1. u + 1 < next_thread_id <=> u + 1 < next_thread_id + 1
      BY <1>2, <1>4, <1>5, <2>2 DEF Slots
    <3> QED BY <1>7, <2>2, <3>1 DEF StepInv, IdsInOrder
  <2> QED BY <2>1, <2>2
<1>10. CallOfThread' /\ CauseWhenWaiting' /\ TimeoutReportedTruthfully'
  BY <1>2 DEF CallOfThread, CauseWhenWaiting, StepInv, TimeoutReportedTruthfully
<1>11. ErrorFresh' /\ OneRunningThread' /\ BlockedHasTheCpu'
  BY <1>2, <1>4, <1>7 DEF ErrorFresh, OneRunningThread, BlockedHasTheCpu, StepInv
<1>12. OneWaiter' /\ NoStaleWaiter' /\ LoopStatus'
  BY <1>2 DEF OneWaiter, NoStaleWaiter, LoopStatus, StepInv
<1> QED BY <1>8, <1>9, <1>10, <1>11, <1>12 DEF StepInv

\* sched_schedule, wherever it is called from.
LEMMA ScheduleStep ==
  ASSUME StepInv, threads' = Scheduled(threads), current_thread' = ScheduledCurrent(threads),
         next_thread_id' = next_thread_id
  PROVE  /\ current_thread' \in Slots /\ threads' \in [Slots -> Thread]
         /\ IdsInOrder' /\ OneRunningThread' /\ BlockedHasTheCpu'
         /\ \A s \in Slots : /\ threads'[s].id = threads[s].id
                             /\ threads'[s].last_error = threads[s].last_error
<1>1. threads \in [Slots -> Thread] /\ current_thread \in Slots
  BY DEF StepInv, Types
<1> DEFINE th == Scheduled(threads)
<1>2. /\ current_thread' \in Slots
      /\ th \in [Slots -> Thread]
      /\ \A s \in Slots :
           /\ th[s].id = threads[s].id
           /\ th[s].last_error = threads[s].last_error
           /\ th[s].state = "TERMINATED" => threads[s].state = "TERMINATED"
           /\ th[s].state \in {"RUNNING", "BLOCKED"} => s = current_thread'
           /\ threads[s].id = 0 => th[s].state = threads[s].state
  BY <1>1, Schedulable, ScheduledSlots
<1>3. threads' = th
  OBVIOUS
<1> HIDE DEF th
<1>4. IdsInOrder' /\ OneRunningThread' /\ BlockedHasTheCpu'
  BY <1>2, <1>3 DEF StepInv, IdsInOrder, OneRunningThread, BlockedHasTheCpu
<1> QED BY <1>2, <1>3, <1>4

LEMMA ScheduleInv ==
  ASSUME StepInv, wait = NoWait,
         threads' = Scheduled(threads), current_thread' = ScheduledCurrent(threads),
         UNCHANGED <<port, next_thread_id, irq_waiters, num_waiters, irq_occurred,
                     irq_occurrence_count, raised, wait, returned>>
  PROVE  StepInv'
<1>1. /\ current_thread' \in Slots /\ threads' \in [Slots -> Thread]
      /\ IdsInOrder' /\ OneRunningThread' /\ BlockedHasTheCpu'
      /\ \A s \in Slots : /\ threads'[s].id = threads[s].id
                          /\ threads'[s].last_error = threads[s].last_error
  BY ScheduleStep
<1>2. Types' /\ CallOfThread' /\ CauseWhenWaiting' /\ TimeoutReportedTruthfully'
  BY <1>1 DEF StepInv, Types, CallOfThread, CauseWhenWaiting, TimeoutReportedTruthfully
<1>3. ErrorFresh' /\ OneWaiter' /\ NoStaleWaiter' /\ LoopStatus'
  BY <1>1 DEF ErrorFresh, OneWaiter, NoStaleWaiter, LoopStatus, StepInv
<1> QED BY <1>1, <1>2, <1>3 DEF StepInv

LEMMA YieldInv ==
  ASSUME StepInv, Yield
  PROVE  StepInv'
BY ScheduleInv DEF Yield

\* With nothing expired the timeout checker changes nothing.
LEMMA NothingExpired ==
  ASSUME StepInv, Expired = {}, NEW th \in [Slots -> Thread]
  PROVE  Silenced(Expired) = irq_waiters /\ Woken(th, Expired, ERR_TIMEOUT) = th
<1>1. irq_waiters \in [WaiterSlots -> Waiter]
  BY DEF StepInv, Types
<1> QED BY <1>1, WokenByNobody DEF Silenced

LEMMA MainLoopInv ==
  ASSUME StepInv, MainLoop
  PROVE  StepInv'
<1>1. threads \in [Slots -> Thread] /\ current_thread \in Slots
  BY DEF StepInv, Types
<1>2. Expired = {}
  BY NoWaitPc, Quiet DEF MainLoop
<1>3. Scheduled(threads) \in [Slots -> Thread]
  BY <1>1, Schedulable, ScheduledSlots
<1>4. threads' = Scheduled(threads) /\ irq_waiters' = irq_waiters
  BY <1>2, <1>3, NothingExpired DEF MainLoop
<1> QED BY <1>4, ScheduleInv DEF MainLoop

LEMMA TimerTickInv ==
  ASSUME StepInv, TimerTick
  PROVE  StepInv'
<1>1. /\ irq_waiters \in [WaiterSlots -> Waiter]
      /\ irq_waiters' = [w \in WaiterSlots |->
           IF irq_waiters[w].active /\ irq_waiters[w].age < Oldest
           THEN [irq_waiters[w] EXCEPT !.age = @ + 1] ELSE irq_waiters[w]]
      /\ UNCHANGED <<port, threads, current_thread, next_thread_id, num_waiters,
                     irq_occurred, irq_occurrence_count, raised, wait, returned>>
  BY DEF StepInv, Types, TimerTick
<1>2. /\ irq_waiters' \in [WaiterSlots -> Waiter]
      /\ \A w \in WaiterSlots : /\ irq_waiters'[w].active = irq_waiters[w].active
                                /\ irq_waiters'[w].pid = irq_waiters[w].pid
                                /\ irq_waiters'[w].irq = irq_waiters[w].irq
  BY <1>1, OldestIsLongest DEF Waiter
<1>3. Types' /\ IdsInOrder' /\ CallOfThread' /\ CauseWhenWaiting' /\ ErrorFresh'
      /\ OneRunningThread' /\ TimeoutReportedTruthfully' /\ BlockedHasTheCpu'
  BY <1>1, <1>2 DEF StepInv, Types, IdsInOrder, CallOfThread, CauseWhenWaiting, ErrorFresh,
                    OneRunningThread, TimeoutReportedTruthfully, BlockedHasTheCpu
<1>4. OneWaiter' /\ NoStaleWaiter'
  BY <1>1, <1>2 DEF OneWaiter, NoStaleWaiter, StepInv
<1>5. LoopStatus'
  <2>1. wait.pc \in Pcs => wait.slot \in WaiterSlots
    BY InCall
  <2> QED BY <1>1, <1>2, <2>1 DEF LoopStatus, StepInv, Pcs
<1> QED BY <1>3, <1>4, <1>5 DEF StepInv

\* Telling the waiters in W and taking them off the table: what notify and
\* the timeout checker have in common.
LEMMA WakeStep ==
  ASSUME StepInv, NEW W \in SUBSET WaiterSlots, NEW error \in {0, ERR_TIMEOUT},
         threads' = Woken(threads, W, error), irq_waiters' = Silenced(W),
         UNCHANGED <<current_thread, next_thread_id, num_waiters>>
  PROVE  /\ threads' \in [Slots -> Thread] /\ irq_waiters' \in [WaiterSlots -> Waiter]
         /\ IdsInOrder' /\ OneRunningThread' /\ BlockedHasTheCpu'
         /\ \A s \in Slots : threads'[s].id = threads[s].id
         /\ \A w \in WaiterSlots :
              /\ irq_waiters'[w].active = (irq_waiters[w].active /\ w \notin W)
              /\ irq_waiters'[w].pid = irq_waiters[w].pid
              /\ irq_waiters'[w].irq = irq_waiters[w].irq
<1>1. threads \in [Slots -> Thread] /\ irq_waiters \in [WaiterSlots -> Waiter]
  BY DEF StepInv, Types
<1>2. /\ threads' \in [Slots -> Thread]
      /\ \A s \in Slots :
           /\ threads'[s].id = threads[s].id
           /\ threads'[s].state = IF WokenBy(threads, W, s) THEN "READY" ELSE threads[s].state
  BY <1>1, WokenSlots
<1>3. /\ irq_waiters' \in [WaiterSlots -> Waiter]
      /\ \A w \in WaiterSlots :
           /\ irq_waiters'[w].active = (irq_waiters[w].active /\ w \notin W)
           /\ irq_waiters'[w].pid = irq_waiters[w].pid
           /\ irq_waiters'[w].irq = irq_waiters[w].irq
  BY <1>1, SilencedEntries
<1>4. IdsInOrder' /\ OneRunningThread' /\ BlockedHasTheCpu'
  BY <1>2 DEF StepInv, IdsInOrder, OneRunningThread, BlockedHasTheCpu
<1> QED BY <1>2, <1>3, <1>4

\* notify takes the entries of the interrupt's waiters, and records it: a call
\* whose entry it takes has its interrupt.
LEMMA DeviceInterruptInv ==
  ASSUME StepInv, NEW n \in Irqs, DeviceInterrupt(n)
  PROVE  StepInv'
<1>1. /\ raised' = raised \cup {n}
      /\ UNCHANGED <<port, current_thread, next_thread_id, num_waiters, wait, returned>>
  BY DEF DeviceInterrupt
<1>2. CASE ~NOTIFY_WIRED
  <2>1. UNCHANGED <<irq_occurred, irq_occurrence_count, irq_waiters, threads>>
    BY <1>2 DEF DeviceInterrupt
  <2>2. Types'
    BY <1>1, <2>1 DEF StepInv, Types
  <2> QED BY <1>1, <2>1, <2>2 DEF StepInv, IdsInOrder, CallOfThread, CauseWhenWaiting, OneWaiter, LoopStatus,
        ErrorFresh, OneRunningThread, NoStaleWaiter, BlockedHasTheCpu, TimeoutReportedTruthfully
<1>3. CASE NOTIFY_WIRED
  <2>1. /\ irq_occurred' = [irq_occurred EXCEPT ![n] = 1]
        /\ irq_occurrence_count' = [irq_occurrence_count EXCEPT ![n] = (@ + 1) % COUNT_RANGE]
        /\ irq_waiters' = Silenced(Notified(n))
        /\ threads' = Woken(threads, Notified(n), 0)
    BY <1>3 DEF DeviceInterrupt, syscall_irq_notify
  <2>2. Notified(n) \in SUBSET WaiterSlots
    BY DEF Notified
  <2>3. /\ threads' \in [Slots -> Thread] /\ irq_waiters' \in [WaiterSlots -> Waiter]
        /\ IdsInOrder' /\ OneRunningThread' /\ BlockedHasTheCpu'
        /\ \A s \in Slots : threads'[s].id = threads[s].id
        /\ \A w \in WaiterSlots :
             /\ irq_waiters'[w].active = (irq_waiters[w].active /\ w \notin Notified(n))
             /\ irq_waiters'[w].pid = irq_waiters[w].pid
             /\ irq_waiters'[w].irq = irq_waiters[w].irq
    BY <1>1, <2>1, <2>2, WakeStep
  <2>4. irq_occurred \in [Irqs -> {0, 1}]
        /\ irq_occurrence_count \in [Irqs -> 0 .. COUNT_RANGE - 1]
    BY DEF StepInv, Types
  <2>5. irq_occurred' \in [Irqs -> {0, 1}] /\ irq_occurred'[n] = 1
        /\ \A m \in Irqs : irq_occurred[m] = 1 => irq_occurred'[m] = 1
    BY <2>1, <2>4
  <2>6. (irq_occurrence_count[n] + 1) % COUNT_RANGE \in 0 .. COUNT_RANGE - 1
    BY <2>4
  <2>7. Types'
    BY <1>1, <2>1, <2>3, <2>4, <2>5, <2>6 DEF StepInv, Types
  <2>8. CallOfThread' /\ CauseWhenWaiting' /\ TimeoutReportedTruthfully'
    BY <1>1, <2>3 DEF StepInv, CallOfThread, CauseWhenWaiting, Call, TimeoutReportedTruthfully
  <2>9. ErrorFresh'
    <3>1. threads \in [Slots -> Thread]
      BY DEF StepInv, Types
    <3>2. \A s \in Slots : threads'[s].last_error = threads[s].last_error
      BY <2>1, <3>1, WokenSlots
    <3> QED BY <1>1, <3>2 DEF StepInv, ErrorFresh
  <2>10. OneWaiter' /\ NoStaleWaiter'
    BY <1>1, <2>3 DEF OneWaiter, NoStaleWaiter, StepInv
  <2>11. LoopStatus'
    <3> SUFFICES ASSUME wait.pc \in {"count", "block", "test", "timeouts", "find", "yield"},
                        ~irq_waiters'[wait.slot].active,
                        ~(wait.pc = "find" /\ wait.cause = "timeout")
                 PROVE  irq_occurred'[wait.irq] = 1
      BY <1>1 DEF LoopStatus
    <3>1. wait.slot \in WaiterSlots /\ wait.irq \in Irqs
      BY InCall DEF Pcs
    <3>2. CASE irq_waiters[wait.slot].active
      <4>1. wait.slot \in Notified(n)
        BY <2>3, <3>1, <3>2
      <4>2. wait.irq = n
        BY <3>1, <3>2, <4>1 DEF Notified, StepInv, NoStaleWaiter
      <4> QED BY <2>5, <4>2
    <3>3. CASE irq_occurred[wait.irq] = 1
      BY <2>5, <3>1, <3>3
    <3> QED BY <3>2, <3>3 DEF StepInv, LoopStatus
  <2> QED BY <2>3, <2>7, <2>8, <2>9, <2>10, <2>11 DEF StepInv
<1> QED BY <1>2, <1>3

LEMMA ResetCountInv ==
  ASSUME StepInv, NEW n \in Irqs, ResetCount(n)
  PROVE  StepInv'
<1>1. irq_occurrence_count' \in [Irqs -> 0 .. COUNT_RANGE - 1]
  BY DEF ResetCount, StepInv, Types
<1>2. UNCHANGED <<port, threads, current_thread, next_thread_id, irq_waiters,
                   num_waiters, irq_occurred, raised, wait, returned>>
  BY DEF ResetCount
<1>3. Types'
  BY <1>1, <1>2 DEF StepInv, Types
<1> QED BY <1>2, <1>3 DEF StepInv, IdsInOrder, CallOfThread, CauseWhenWaiting, OneWaiter, LoopStatus, ErrorFresh,
        OneRunningThread, NoStaleWaiter, BlockedHasTheCpu, TimeoutReportedTruthfully

----------------------------------------------------------------------------
(***************************************************************************)
(* The steps of SYS_IRQ_WAIT.                                              *)
(***************************************************************************)
\* Only a known thread that asks for a known interrupt that has not come gets
\* to wait.
LEMMA Outcomes ==
  ASSUME StepInv, NEW n \in 0 .. MAX_IRQS, NEW nowait \in BOOLEAN
  PROVE  /\ WaitOutcome(n, nowait) \in {0, 1, -1, -2, -4}
         /\ WaitOutcome(n, nowait) = 1 =>
              n \in Irqs /\ CurrentPid # 0 /\ irq_occurred[n] = 0
<1>1. n \in Irqs => irq_occurred[n] \in {0, 1}
  BY DEF StepInv, Types
<1>2. CASE n \notin Irqs
  BY <1>2 DEF WaitOutcome
<1>3. CASE n \in Irqs /\ CurrentPid = 0
  BY <1>3 DEF WaitOutcome
<1>4. CASE n \in Irqs /\ CurrentPid # 0 /\ irq_occurred[n] = 1
  BY <1>4 DEF WaitOutcome
<1>5. CASE n \in Irqs /\ CurrentPid # 0 /\ irq_occurred[n] = 0
  BY <1>5 DEF WaitOutcome
<1> QED BY <1>1, <1>2, <1>3, <1>4, <1>5

\* Taking the interrupt never makes one appear.
LEMMA ConsumeKeeps ==
  ASSUME StepInv, NEW n, NEW clear \in BOOLEAN, Consume(n, clear)
  PROVE  /\ irq_occurred' \in [Irqs -> {0, 1}] /\ raised' \subseteq raised
         /\ \A m \in Irqs : irq_occurred[m] = 0 => irq_occurred'[m] = 0
         /\ (\A m \in raised : irq_occurred[m] = 1) => \A m \in raised' : irq_occurred'[m] = 1
<1>1. irq_occurred \in [Irqs -> {0, 1}] /\ raised \subseteq Irqs
  BY DEF StepInv, Types
<1> QED BY <1>1 DEF Consume

LEMMA IrqWaitReturnsInv ==
  ASSUME StepInv, NEW n \in 0 .. MAX_IRQS, NEW clear \in BOOLEAN, NEW nowait \in BOOLEAN,
         IrqWaitReturns(n, clear, nowait)
  PROVE  StepInv'
<1>1. /\ wait = NoWait /\ Consume(n, clear)
      /\ returned' = [result |-> WaitOutcome(n, nowait), cause |-> "at once"]
      /\ UNCHANGED <<port, threads, current_thread, next_thread_id, irq_waiters,
                     num_waiters, irq_occurrence_count, wait>>
  BY DEF IrqWaitReturns
<1>2. WaitOutcome(n, nowait) \in {0, -1, -2, -4}
  <2>1. WaitOutcome(n, nowait) <= 0
    BY DEF IrqWaitReturns
  <2>2. WaitOutcome(n, nowait) \in {0, 1, -1, -2, -4}
    BY Outcomes
  <2> QED BY <2>1, <2>2
<1>3. returned'.result \in {0, -1, -2, -4}
  BY <1>1, <1>2
<1>4. Types'
  BY <1>1, <1>3, ConsumeKeeps DEF StepInv, Types
<1>5. TimeoutReportedTruthfully'
  BY <1>3 DEF TimeoutReportedTruthfully, ERR_TIMEOUT
<1>6. OneWaiter' /\ NoStaleWaiter' /\ LoopStatus'
  BY <1>1, NoWaitPc DEF OneWaiter, NoStaleWaiter, LoopStatus, StepInv
<1> QED BY <1>1, <1>4, <1>5, <1>6 DEF StepInv, IdsInOrder, CallOfThread, CauseWhenWaiting, ErrorFresh,
        OneRunningThread, BlockedHasTheCpu

LEMMA IrqWaitGoesOnInv ==
  ASSUME StepInv, NEW n \in 0 .. MAX_IRQS, NEW clear \in BOOLEAN, NEW timeout \in Timeouts,
         IrqWaitGoesOn(n, clear, timeout)
  PROVE  StepInv'
<1>1. /\ wait = NoWait /\ n \in Irqs /\ CurrentPid # 0
      /\ UNCHANGED <<port, threads, current_thread, next_thread_id, irq_waiters, num_waiters,
                     irq_occurred, irq_occurrence_count, raised, returned>>
  BY Outcomes DEF IrqWaitGoesOn
<1>2. wait' = [pc |-> "register", pid |-> CurrentPid, thread |-> current_thread, irq |-> n,
               clear |-> clear, timeout |-> timeout, slot |-> 0, cause |-> "none"]
  BY DEF IrqWaitGoesOn
<1>3. /\ current_thread \in Slots /\ CurrentPid = threads[current_thread].id
      /\ CurrentPid \in 1 .. MAX_THREADS
  BY <1>1 DEF StepInv, Types, CurrentPid, Thread
<1>4. wait' \in Call /\ wait'.pc = "register" /\ wait'.thread = current_thread
      /\ wait'.pid = CurrentPid /\ wait'.cause = "none"
  BY <1>1, <1>2, <1>3 DEF Call, Pcs, WaiterSlots
<1>5. Types' /\ CallOfThread' /\ CauseWhenWaiting'
  BY <1>1, <1>3, <1>4 DEF StepInv, Types, CallOfThread, CauseWhenWaiting
<1>6. \A w \in WaiterSlots : ~irq_waiters[w].active
  BY <1>1, Quiet, NoWaitPc
<1>7. OneWaiter' /\ NoStaleWaiter' /\ LoopStatus'
  BY <1>1, <1>4, <1>6 DEF OneWaiter, NoStaleWaiter, LoopStatus
<1>8. ErrorFresh'
  BY <1>1, NoWaitPc DEF StepInv, ErrorFresh
<1> QED BY <1>1, <1>5, <1>7, <1>8 DEF StepInv, IdsInOrder, OneRunningThread,
        BlockedHasTheCpu, TimeoutReportedTruthfully

\* The table has room: nobody else waits while a call is made.
LEMMA RoomForOne ==
  ASSUME StepInv, wait.pc = "register"
  PROVE  Waiting(irq_waiters, wait.pid, wait.irq) = {} /\ FreeWaiters = WaiterSlots
         /\ FreeWaiters # {}
<1>1. \A w \in WaiterSlots : ~irq_waiters[w].active
  BY Quiet
<1>2. 0 \in WaiterSlots
  BY DEF WaiterSlots
<1> QED BY <1>1, <1>2 DEF Waiting, FreeWaiters

LEMMA WaitRegisterInv ==
  ASSUME StepInv, WaitRegister
  PROVE  StepInv'
<1>1. wait.pc = "register" /\ wait.pc \in Pcs
  BY DEF WaitRegister, Pcs
<1>2. /\ wait \in Call /\ threads[wait.thread].id = wait.pid /\ wait.irq \in Irqs
      /\ wait.pid \in 1 .. MAX_THREADS /\ wait.timeout \in Timeouts
      /\ wait.thread = current_thread
  BY <1>1, InCall DEF Call, StepInv, CallOfThread
<1>3. /\ returned' = returned
      /\ UNCHANGED <<port, threads, current_thread, next_thread_id, num_waiters,
                     irq_occurred, irq_occurrence_count, raised>>
  BY <1>1, RoomForOne DEF WaitRegister
<1>4. PICK w \in WaiterSlots :
        /\ irq_waiters' = [irq_waiters EXCEPT ![w] =
              [pid |-> wait.pid, irq |-> wait.irq, timeout |-> wait.timeout,
               age |-> 0, active |-> TRUE]]
        /\ wait' = [wait EXCEPT !.pc = "count", !.slot = w]
  BY <1>1, RoomForOne DEF WaitRegister
<1>5. irq_waiters \in [WaiterSlots -> Waiter]
  BY DEF StepInv, Types
<1>6. \A v \in WaiterSlots : ~irq_waiters[v].active
  BY <1>1, Quiet
<1>7. /\ irq_waiters' \in [WaiterSlots -> Waiter]
      /\ \A v \in WaiterSlots : irq_waiters'[v].active <=> v = w
      /\ irq_waiters'[w].pid = wait.pid /\ irq_waiters'[w].irq = wait.irq
  BY <1>2, <1>4, <1>5, <1>6, OldestIsLongest DEF Waiter
<1>8. /\ wait' \in Call /\ wait'.pc = "count" /\ wait'.slot = w /\ wait'.pid = wait.pid
      /\ wait'.irq = wait.irq /\ wait'.thread = wait.thread /\ wait'.cause = wait.cause
  BY <1>2, <1>4 DEF Call, Pcs
<1>9. wait.cause = "none"
  BY <1>1 DEF StepInv, CauseWhenWaiting
<1>10. Types' /\ CallOfThread' /\ CauseWhenWaiting'
  <2>1. Types'
    BY <1>3, <1>7 DEF StepInv, Types
  <2>2. CallOfThread' /\ CauseWhenWaiting'
    BY <1>2, <1>3, <1>8, <1>9 DEF CallOfThread, CauseWhenWaiting
  <2> QED BY <2>1, <2>2
<1>11. wait' # NoWait
  BY <1>8, NoWaitPc
<1>12. OneWaiter' /\ NoStaleWaiter' /\ LoopStatus'
  BY <1>7, <1>8, <1>9, <1>11 DEF OneWaiter, NoStaleWaiter, LoopStatus, Pcs
<1>13. ErrorFresh'
  BY <1>1, <1>3 DEF StepInv, ErrorFresh
<1> QED BY <1>3, <1>10, <1>12, <1>13 DEF StepInv, IdsInOrder, OneRunningThread,
        BlockedHasTheCpu, TimeoutReportedTruthfully

LEMMA WaitCountInv ==
  ASSUME StepInv, WaitCount
  PROVE  StepInv'
<1>1. /\ wait.pc = "count" /\ wait.pc \in Pcs
      /\ num_waiters' = IF wait.slot >= num_waiters THEN wait.slot + 1 ELSE num_waiters
      /\ wait' = [wait EXCEPT !.pc = "block"]
      /\ UNCHANGED <<port, threads, current_thread, next_thread_id, irq_waiters, irq_occurred,
                     irq_occurrence_count, raised, returned>>
  BY DEF WaitCount, Pcs
<1>2. wait # NoWait /\ wait \in Call /\ threads[wait.thread].id = wait.pid
      /\ wait.slot \in WaiterSlots /\ wait.thread = current_thread
  BY <1>1, InCall DEF StepInv, CallOfThread
<1>3. /\ wait' \in Call /\ wait'.pc = "block" /\ wait'.slot = wait.slot /\ wait'.pid = wait.pid
      /\ wait'.irq = wait.irq /\ wait'.thread = wait.thread /\ wait'.cause = wait.cause
  BY <1>1, <1>2 DEF Call, Pcs
<1>4. num_waiters' \in 0 .. MAX_IRQ_WAITERS /\ wait.slot < num_waiters'
  BY <1>1, <1>2 DEF StepInv, Types, WaiterSlots
<1>5. Types' /\ CallOfThread' /\ CauseWhenWaiting'
  BY <1>1, <1>2, <1>3, <1>4 DEF StepInv, Types, CallOfThread, CauseWhenWaiting
<1>6. wait' # NoWait
  BY <1>3, NoWaitPc
<1>7. OneWaiter' /\ NoStaleWaiter' /\ LoopStatus'
  BY <1>1, <1>3, <1>4, <1>6 DEF StepInv, OneWaiter, NoStaleWaiter, LoopStatus, Pcs
<1>8. ErrorFresh'
  BY <1>1, <1>3 DEF StepInv, ErrorFresh
<1> QED BY <1>1, <1>5, <1>7, <1>8 DEF StepInv, IdsInOrder, OneRunningThread,
        BlockedHasTheCpu, TimeoutReportedTruthfully

\* The thread that is marked BLOCKED still has the CPU.
LEMMA WaitBlockInv ==
  ASSUME StepInv, WaitBlock
  PROVE  StepInv'
<1>1. /\ wait.pc = "block" /\ wait.pc \in Pcs
      /\ threads' = [threads EXCEPT ![wait.thread].state = "BLOCKED"]
      /\ wait' = [wait EXCEPT !.pc = "test"]
      /\ UNCHANGED <<port, current_thread, next_thread_id, irq_waiters, num_waiters,
                     irq_occurred, irq_occurrence_count, raised, returned>>
  BY DEF WaitBlock, Pcs
<1>2. /\ wait # NoWait /\ wait \in Call /\ threads[wait.thread].id = wait.pid
      /\ wait.thread \in Slots /\ wait.pid # 0 /\ wait.thread = current_thread
  BY <1>1, InCall DEF StepInv, CallOfThread
<1>3. /\ wait' \in Call /\ wait'.pc = "test" /\ wait'.slot = wait.slot /\ wait'.pid = wait.pid
      /\ wait'.irq = wait.irq /\ wait'.thread = wait.thread /\ wait'.cause = wait.cause
  BY <1>1, <1>2 DEF Call, Pcs
<1>4. threads \in [Slots -> Thread]
  BY DEF StepInv, Types
<1>5. /\ threads' \in [Slots -> Thread]
      /\ threads'[current_thread].state = "BLOCKED"
      /\ \A s \in Slots : /\ threads'[s].id = threads[s].id
                          /\ threads'[s].last_error = threads[s].last_error
                          /\ s # current_thread => threads'[s].state = threads[s].state
  BY <1>1, <1>2, <1>4 DEF Thread, States
<1>6. Types' /\ CallOfThread' /\ CauseWhenWaiting'
  BY <1>1, <1>2, <1>3, <1>5 DEF StepInv, Types, CallOfThread, CauseWhenWaiting
<1>7. IdsInOrder' /\ OneRunningThread' /\ BlockedHasTheCpu' /\ TimeoutReportedTruthfully'
  BY <1>1, <1>2, <1>5 DEF StepInv, IdsInOrder, OneRunningThread, BlockedHasTheCpu,
                          TimeoutReportedTruthfully
<1>8. wait' # NoWait
  BY <1>3, NoWaitPc
<1>9. OneWaiter' /\ NoStaleWaiter' /\ LoopStatus'
  BY <1>1, <1>3, <1>8 DEF StepInv, OneWaiter, NoStaleWaiter, LoopStatus, Pcs
<1>10. ErrorFresh'
  BY <1>1, <1>5 DEF StepInv, ErrorFresh
<1> QED BY <1>6, <1>7, <1>9, <1>10 DEF StepInv

\* A step of the call that only moves it on: its entry, its threads and its
\* error stay, so what matters is where it goes and why.
LEMMA MoveOn ==
  ASSUME StepInv, wait.pc \in {"test", "find"},
         NEW pc \in {"consume", "timeouts", "yield"}, NEW cause \in {"none", "irq", "timeout"},
         wait' = [wait EXCEPT !.pc = pc, !.cause = cause],
         UNCHANGED <<port, threads, current_thread, next_thread_id, irq_waiters, num_waiters,
                     irq_occurred, irq_occurrence_count, raised, returned>>,
         cause = wait.cause \/ (cause = "irq" /\ wait.cause # "timeout"),
         pc # "consume" => cause = "none",
         pc # "consume" => irq_waiters[wait.slot].active \/ irq_occurred[wait.irq] = 1
  PROVE  StepInv'
<1>1. /\ wait # NoWait /\ wait \in Call /\ threads[wait.thread].id = wait.pid
  BY InCall DEF Pcs
<1>2. /\ wait' \in Call /\ wait'.pc = pc /\ wait'.slot = wait.slot /\ wait'.pid = wait.pid
      /\ wait'.irq = wait.irq /\ wait'.thread = wait.thread /\ wait'.cause = cause
  BY <1>1 DEF Call, Pcs
<1>3. wait' # NoWait
  BY <1>2, NoWaitPc DEF Pcs
<1>4. Types' /\ CallOfThread' /\ CauseWhenWaiting'
  BY <1>1, <1>2 DEF StepInv, Types, CallOfThread, CauseWhenWaiting
<1>5. OneWaiter' /\ NoStaleWaiter'
  BY <1>2, <1>3 DEF StepInv, OneWaiter, NoStaleWaiter, Pcs
<1>6. LoopStatus'
  BY <1>2 DEF LoopStatus
<1>7. ErrorFresh'
  BY <1>2 DEF StepInv, ErrorFresh, CauseWhenWaiting
<1> QED BY <1>4, <1>5, <1>6, <1>7 DEF StepInv, IdsInOrder, OneRunningThread,
        BlockedHasTheCpu, TimeoutReportedTruthfully

LEMMA WaitTestInv ==
  ASSUME StepInv, WaitTest
  PROVE  StepInv'
<1>1. /\ wait.pc = "test" /\ wait.pc \in Pcs
      /\ UNCHANGED <<port, threads, current_thread, next_thread_id, irq_waiters, num_waiters,
                     irq_occurred, irq_occurrence_count, raised, returned>>
  BY DEF WaitTest, Pcs
<1>2. wait \in Call /\ wait.cause = "none"
  BY <1>1, InCall DEF StepInv, CauseWhenWaiting
<1>3. CASE irq_occurred[wait.irq] = 1
  <2>1. wait' = [wait EXCEPT !.pc = "consume", !.cause = "irq"]
    BY <1>3 DEF WaitTest
  <2> QED BY <1>1, <1>2, <2>1, MoveOn
<1>4. CASE irq_occurred[wait.irq] # 1
  <2>1. wait' = [wait EXCEPT !.pc = "timeouts", !.cause = "none"]
    BY <1>2, <1>4 DEF WaitTest, Call
  <2>2. irq_waiters[wait.slot].active
    BY <1>1, <1>4 DEF StepInv, LoopStatus
  <2> QED BY <1>1, <1>2, <2>1, <2>2, MoveOn
<1> QED BY <1>3, <1>4

LEMMA WaitFindInv ==
  ASSUME StepInv, WaitFind
  PROVE  StepInv'
<1>1. /\ wait.pc = "find" /\ wait.pc \in Pcs
      /\ UNCHANGED <<port, threads, current_thread, next_thread_id, irq_waiters, num_waiters,
                     irq_occurred, irq_occurrence_count, raised, returned>>
  BY DEF WaitFind, Pcs
<1>2. wait \in Call /\ wait.cause \in {"none", "timeout"}
  BY <1>1, InCall DEF StepInv, CauseWhenWaiting
<1>3. CASE Waiting(irq_waiters, wait.pid, wait.irq) = {}
  <2> DEFINE c == IF wait.cause = "none" THEN "irq" ELSE wait.cause
  <2>1. wait' = [wait EXCEPT !.pc = "consume", !.cause = c]
    BY <1>2, <1>3 DEF WaitFind, Call
  <2>2. c \in {"irq", "timeout"} /\ (c = wait.cause \/ (c = "irq" /\ wait.cause # "timeout"))
    BY <1>2
  <2> HIDE DEF c
  <2> QED BY <1>1, <2>1, <2>2, MoveOn
<1>4. CASE Waiting(irq_waiters, wait.pid, wait.irq) # {}
  <2>1. PICK w \in WaiterSlots : irq_waiters[w].active
    BY <1>4 DEF Waiting
  <2>2. irq_waiters[wait.slot].active /\ wait.cause = "none"
    BY <1>2, <2>1 DEF StepInv, OneWaiter
  <2>3. wait' = [wait EXCEPT !.pc = "yield", !.cause = "none"]
    BY <1>2, <1>4, <2>2 DEF WaitFind, Call
  <2> QED BY <1>1, <2>2, <2>3, MoveOn
<1> QED BY <1>3, <1>4

\* An entry that has expired is the one of the call, and taking it leaves none.
LEMMA WaitTimeoutsInv ==
  ASSUME StepInv, WaitTimeouts
  PROVE  StepInv'
<1>1. /\ wait.pc = "timeouts" /\ wait.pc \in Pcs
      /\ threads' = Woken(threads, Expired, ERR_TIMEOUT)
      /\ irq_waiters' = Silenced(Expired)
      /\ wait' = [wait EXCEPT !.pc = "find", !.cause = IF Expired = {} THEN @ ELSE "timeout"]
      /\ UNCHANGED <<port, current_thread, next_thread_id, num_waiters, irq_occurred,
                     irq_occurrence_count, raised, returned>>
  BY DEF WaitTimeouts, Pcs
<1>2. /\ wait # NoWait /\ wait \in Call /\ threads[wait.thread].id = wait.pid
      /\ wait.cause = "none" /\ wait.thread \in Slots /\ wait.slot \in WaiterSlots
      /\ wait.pid # 0
  BY <1>1, InCall DEF StepInv, CauseWhenWaiting
<1>3. /\ wait' \in Call /\ wait'.pc = "find" /\ wait'.slot = wait.slot /\ wait'.pid = wait.pid
      /\ wait'.irq = wait.irq /\ wait'.thread = wait.thread
      /\ wait'.cause = IF Expired = {} THEN "none" ELSE "timeout"
  BY <1>1, <1>2 DEF Call, Pcs
<1>4. Expired \in SUBSET WaiterSlots /\ threads \in [Slots -> Thread]
  BY DEF Expired, StepInv, Types
<1>5. /\ threads' \in [Slots -> Thread] /\ irq_waiters' \in [WaiterSlots -> Waiter]
      /\ IdsInOrder' /\ OneRunningThread' /\ BlockedHasTheCpu'
      /\ \A s \in Slots : threads'[s].id = threads[s].id
      /\ \A w \in WaiterSlots :
           /\ irq_waiters'[w].active = (irq_waiters[w].active /\ w \notin Expired)
           /\ irq_waiters'[w].pid = irq_waiters[w].pid
           /\ irq_waiters'[w].irq = irq_waiters[w].irq
  BY <1>1, <1>4, WakeStep
<1>6. Types' /\ CallOfThread' /\ CauseWhenWaiting' /\ TimeoutReportedTruthfully'
  BY <1>1, <1>2, <1>3, <1>5 DEF StepInv, Types, CallOfThread, CauseWhenWaiting,
                                TimeoutReportedTruthfully
<1>7. wait' # NoWait
  BY <1>3, NoWaitPc
<1>8. \A w \in WaiterSlots : irq_waiters[w].active => w = wait.slot
  BY DEF StepInv, OneWaiter
<1>9. Expired # {} => \A w \in WaiterSlots : ~irq_waiters'[w].active
  <2> SUFFICES ASSUME NEW x \in Expired, NEW w \in WaiterSlots, irq_waiters'[w].active
               PROVE  FALSE
    OBVIOUS
  <2>1. x \in WaiterSlots /\ irq_waiters[x].active
    BY DEF Expired
  <2> QED BY <1>5, <1>8, <2>1
<1>10. OneWaiter' /\ NoStaleWaiter'
  <2>1. ASSUME NEW w \in WaiterSlots, irq_waiters'[w].active
        PROVE  /\ w = wait.slot /\ w < num_waiters /\ Expired = {}
               /\ wait.pid = irq_waiters'[w].pid /\ wait.irq = irq_waiters'[w].irq
    <3>1. irq_waiters[w].active /\ Expired = {}
      BY <1>5, <1>9, <2>1
    <3> QED BY <1>1, <1>5, <3>1 DEF StepInv, OneWaiter, NoStaleWaiter
  <2>2. num_waiters' = num_waiters /\ wait'.pc \in Pcs \ {"register"}
        /\ (Expired = {} => wait'.cause = "none")
    BY <1>1, <1>3 DEF Pcs
  <2>3. OneWaiter'
    BY <1>3, <2>1, <2>2 DEF OneWaiter
  <2> QED BY <1>3, <1>7, <2>1, <2>3 DEF NoStaleWaiter
<1>11. LoopStatus'
  <2>1. CASE Expired = {}
    BY <1>1, <1>2, <1>3, <1>5, <2>1 DEF StepInv, LoopStatus
  <2>2. CASE Expired # {}
    BY <1>3, <2>2 DEF LoopStatus
  <2> QED BY <2>1, <2>2
<1>12. ErrorFresh'
  <2> SUFFICES ASSUME NEW s \in Slots, threads'[s].last_error = ERR_TIMEOUT
               PROVE  wait.thread = s /\ Expired # {}
    BY <1>3 DEF ErrorFresh
  <2>1. threads[s].last_error # ERR_TIMEOUT
    BY <1>1 DEF StepInv, ErrorFresh
  <2>2. WokenBy(threads, Expired, s)
    BY <1>1, <1>4, <2>1, WokenSlots
  <2>3. threads[s].id = wait.pid /\ Expired # {}
    BY <2>2 DEF WokenBy, Expired, StepInv, NoStaleWaiter
  <2> QED BY <1>2, <2>3, IdsUnique
<1> QED BY <1>5, <1>6, <1>10, <1>11, <1>12 DEF StepInv

LEMMA WaitYieldInv ==
  ASSUME StepInv, WaitYield
  PROVE  StepInv'
<1>1. /\ wait.pc = "yield" /\ wait.pc \in Pcs
      /\ threads' = Scheduled(threads) /\ current_thread' = ScheduledCurrent(threads)
      /\ wait' = [wait EXCEPT !.pc = "test"]
      /\ UNCHANGED <<port, next_thread_id, irq_waiters, num_waiters, irq_occurred,
                     irq_occurrence_count, raised, returned>>
  BY DEF WaitYield, Pcs
<1>2. wait # NoWait /\ wait \in Call /\ threads[wait.thread].id = wait.pid
      /\ wait.thread \in Slots
  BY <1>1, InCall
<1>3. /\ wait' \in Call /\ wait'.pc = "test" /\ wait'.slot = wait.slot /\ wait'.pid = wait.pid
      /\ wait'.irq = wait.irq /\ wait'.thread = wait.thread /\ wait'.cause = wait.cause
  BY <1>1, <1>2 DEF Call, Pcs
<1>4. /\ current_thread' \in Slots /\ threads' \in [Slots -> Thread]
      /\ IdsInOrder' /\ OneRunningThread' /\ BlockedHasTheCpu'
      /\ \A s \in Slots : /\ threads'[s].id = threads[s].id
                          /\ threads'[s].last_error = threads[s].last_error
  BY <1>1, ScheduleStep
<1>5. Types' /\ CallOfThread' /\ CauseWhenWaiting' /\ TimeoutReportedTruthfully'
  BY <1>1, <1>2, <1>3, <1>4 DEF StepInv, Types, CallOfThread, CauseWhenWaiting,
                                TimeoutReportedTruthfully
<1>6. wait' # NoWait
  BY <1>3, NoWaitPc
<1>7. OneWaiter' /\ NoStaleWaiter' /\ LoopStatus'
  BY <1>1, <1>3, <1>6 DEF StepInv, OneWaiter, NoStaleWaiter, LoopStatus, Pcs
<1>8. ErrorFresh'
  BY <1>1, <1>4 DEF StepInv, ErrorFresh
<1> QED BY <1>4, <1>5, <1>7, <1>8 DEF StepInv

LEMMA WaitConsumeInv ==
  ASSUME StepInv, WaitConsume
  PROVE  StepInv'
<1>1. /\ wait.pc = "consume" /\ wait.pc \in Pcs /\ Consume(wait.irq, wait.clear)
      /\ wait' = [wait EXCEPT !.pc = "remove"]
      /\ UNCHANGED <<port, threads, current_thread, next_thread_id, irq_waiters, num_waiters,
                     irq_occurrence_count, returned>>
  BY DEF WaitConsume, Pcs
<1>2. wait # NoWait /\ wait \in Call /\ threads[wait.thread].id = wait.pid
      /\ wait.clear \in BOOLEAN
  BY <1>1, InCall DEF Call
<1>3. /\ wait' \in Call /\ wait'.pc = "remove" /\ wait'.slot = wait.slot /\ wait'.pid = wait.pid
      /\ wait'.irq = wait.irq /\ wait'.thread = wait.thread /\ wait'.cause = wait.cause
  BY <1>1, <1>2 DEF Call, Pcs
<1>4. Types' /\ CallOfThread' /\ CauseWhenWaiting'
  BY <1>1, <1>2, <1>3, ConsumeKeeps DEF StepInv, Types, CallOfThread, CauseWhenWaiting
<1>5. wait' # NoWait
  BY <1>3, NoWaitPc
<1>6. OneWaiter' /\ NoStaleWaiter' /\ LoopStatus'
  BY <1>1, <1>3, <1>5 DEF StepInv, OneWaiter, NoStaleWaiter, LoopStatus, Pcs
<1>7. ErrorFresh'
  BY <1>1, <1>3 DEF StepInv, ErrorFresh
<1> QED BY <1>1, <1>4, <1>6, <1>7 DEF StepInv, IdsInOrder, OneRunningThread,
        BlockedHasTheCpu, TimeoutReportedTruthfully

\* remove_irq_waiter finds whatever entry the call still has.
LEMMA WaitRemoveInv ==
  ASSUME StepInv, WaitRemove
  PROVE  StepInv'
<1>1. /\ wait.pc = "remove" /\ wait.pc \in Pcs
      /\ irq_waiters' = Silenced(Waiting(irq_waiters, wait.pid, wait.irq))
      /\ threads' = [threads EXCEPT ![wait.thread].last_error = IF @ = ERR_TIMEOUT THEN 0 ELSE @]
      /\ returned' = [result |-> IF threads[wait.thread].last_error = ERR_TIMEOUT
                                 THEN ERR_TIMEOUT ELSE 0, cause |-> wait.cause]
      /\ wait' = NoWait
      /\ UNCHANGED <<port, current_thread, next_thread_id, num_waiters, irq_occurred,
                     irq_occurrence_count, raised>>
  BY DEF WaitRemove, Pcs
<1>2. threads \in [Slots -> Thread] /\ wait.thread \in Slots
      /\ irq_waiters \in [WaiterSlots -> Waiter]
  BY <1>1, InCall DEF StepInv, Types
<1>3. \A w \in WaiterSlots : irq_waiters[w].active =>
        w \in Waiting(irq_waiters, wait.pid, wait.irq)
  BY <1>1 DEF Waiting, StepInv, OneWaiter, NoStaleWaiter
<1>4. /\ irq_waiters' \in [WaiterSlots -> Waiter]
      /\ \A w \in WaiterSlots : ~irq_waiters'[w].active
  BY <1>1, <1>2, <1>3, SilencedEntries
<1>5. /\ threads' \in [Slots -> Thread]
      /\ \A s \in Slots : /\ threads'[s].id = threads[s].id
                          /\ threads'[s].state = threads[s].state
  BY <1>1, <1>2 DEF Thread
<1>6. \A s \in Slots : threads'[s].last_error # ERR_TIMEOUT
  <2>1. \A s \in Slots : s # wait.thread => threads'[s].last_error = threads[s].last_error
    BY <1>1, <1>2
  <2>2. threads'[wait.thread].last_error # ERR_TIMEOUT
    BY <1>1, <1>2 DEF ERR_TIMEOUT, Thread
  <2> QED BY <2>1, <2>2 DEF StepInv, ErrorFresh
<1>7. returned'.result \in {0, ERR_TIMEOUT}
  BY <1>1
<1>8. Types'
  BY <1>1, <1>4, <1>5, <1>7 DEF StepInv, Types, ERR_TIMEOUT
<1>9. IdsInOrder' /\ OneRunningThread' /\ BlockedHasTheCpu'
  BY <1>1, <1>5 DEF StepInv, IdsInOrder, OneRunningThread, BlockedHasTheCpu
<1>10. CallOfThread' /\ ErrorFresh' /\ LoopStatus' /\ CauseWhenWaiting'
  BY <1>1, <1>6, NoWaitPc DEF CallOfThread, ErrorFresh, LoopStatus, CauseWhenWaiting, Pcs
<1>11. OneWaiter' /\ NoStaleWaiter'
  BY <1>4 DEF OneWaiter, NoStaleWaiter
<1>12. TimeoutReportedTruthfully'
  BY <1>1, <1>2 DEF TimeoutReportedTruthfully, StepInv, ErrorFresh, ERR_TIMEOUT
<1> QED BY <1>8, <1>9, <1>10, <1>11, <1>12 DEF StepInv

----------------------------------------------------------------------------
LEMMA NextInv ==
  ASSUME StepInv, [Next]_vars
  PROVE  StepInv'
<1>1. CASE UNCHANGED vars
  BY <1>1 DEF vars, StepInv, Types, IdsInOrder, CallOfThread, CauseWhenWaiting, OneWaiter,
       LoopStatus, ErrorFresh, OneRunningThread, NoStaleWaiter, BlockedHasTheCpu,
       TimeoutReportedTruthfully
<1>2. CASE CreateThread
  BY <1>2, CreateThreadInv
<1>3. CASE Yield
  BY <1>3, YieldInv
<1>4. CASE MainLoop
  BY <1>4, MainLoopInv
<1>5. CASE TimerTick
  BY <1>5, TimerTickInv
<1>6. CASE \E n \in Irqs : DeviceInterrupt(n) \/ ResetCount(n)
  BY <1>6, DeviceInterruptInv, ResetCountInv
<1>7. CASE IrqWait
  BY <1>7, IrqWaitReturnsInv, IrqWaitGoesOnInv DEF IrqWait
<1>8. CASE WaitStep
  BY <1>8, WaitRegisterInv, WaitCountInv, WaitBlockInv, WaitTestInv, WaitTimeoutsInv,
     WaitFindInv, WaitYieldInv, WaitConsumeInv, WaitRemoveInv DEF WaitStep
<1> QED BY <1>1, <1>2, <1>3, <1>4, <1>5, <1>6, <1>7, <1>8 DEF Next

\* Whatever user code and devices do, and wherever an interrupt comes in
\* SYS_IRQ_WAIT: one thread at most is marked RUNNING, a BLOCKED thread is the
\* one that has the CPU, no waiter outlives the call that entered it, and a call
\* that goes round its loop has its entry or its interrupt.
THEOREM SchedulerStaysConsistent == Spec => []SchedulerConsistent
<1>1. Init => StepInv
  BY InitInv
<1>2. StepInv /\ [Next]_vars => StepInv'
  BY NextInv
<1>3. StepInv => SchedulerConsistent
  BY StepInvConsistent
<1> QED BY <1>1, <1>2, <1>3, PTL DEF Spec

\* On every port a wait that reports ERR_TIMEOUT timed out: no return path
\* leaves last_error behind for a later wait to report.
THEOREM TimeoutsAreTruthful == Spec => []TimeoutReportedTruthfully
<1>1. Init => StepInv
  BY InitInv
<1>2. StepInv /\ [Next]_vars => StepInv'
  BY NextInv
<1>3. StepInv => TimeoutReportedTruthfully
  BY DEF StepInv
<1> QED BY <1>1, <1>2, <1>3, PTL DEF Spec

----------------------------------------------------------------------------
(***************************************************************************)
(* What is remembered on a port that calls syscall_irq_notify, and what    *)
(* never happens on the one of the repository.                             *)
(***************************************************************************)
LEMMA RememberedStep ==
  ASSUME StepInv, InterruptRemembered, [Next]_vars
  PROVE  InterruptRemembered'
<1>1. irq_occurred \in [Irqs -> {0, 1}] /\ raised \subseteq Irqs
  BY DEF StepInv, Types
<1>2. port' = port /\ NOTIFY_WIRED' = NOTIFY_WIRED
  BY DEF Next, vars, CreateThread, Yield, MainLoop, TimerTick, DeviceInterrupt, ResetCount,
     IrqWait, IrqWaitReturns, IrqWaitGoesOn, WaitStep, WaitRegister, WaitCount, WaitBlock,
     WaitTest, WaitTimeouts, WaitFind, WaitYield, WaitConsume, WaitRemove, NOTIFY_WIRED
<1>3. ASSUME raised' = raised, irq_occurred' = irq_occurred
      PROVE  InterruptRemembered'
  BY <1>2, <1>3 DEF InterruptRemembered
<1>4. ASSUME NEW n \in Irqs, DeviceInterrupt(n)
      PROVE  InterruptRemembered'
  <2>1. NOTIFY_WIRED =>
          raised' = raised \cup {n} /\ irq_occurred' = [irq_occurred EXCEPT ![n] = 1]
    BY <1>4 DEF DeviceInterrupt, syscall_irq_notify
  <2> QED BY <1>1, <1>2, <2>1 DEF InterruptRemembered
<1>5. ASSUME NEW n, NEW clear \in BOOLEAN, Consume(n, clear)
      PROVE  InterruptRemembered'
  BY <1>2, <1>5, ConsumeKeeps DEF InterruptRemembered
<1>6. \/ raised' = raised /\ irq_occurred' = irq_occurred
      \/ \E n \in Irqs : DeviceInterrupt(n)
      \/ \E n \in 0 .. MAX_IRQS, clear \in BOOLEAN : Consume(n, clear)
  <2>1. ASSUME IrqWait
        PROVE  \/ raised' = raised /\ irq_occurred' = irq_occurred
               \/ \E n \in 0 .. MAX_IRQS, clear \in BOOLEAN : Consume(n, clear)
    BY <2>1 DEF IrqWait, IrqWaitReturns, IrqWaitGoesOn
  <2>2. ASSUME WaitConsume
        PROVE  \E n \in 0 .. MAX_IRQS, clear \in BOOLEAN : Consume(n, clear)
    <3>1. wait.clear \in BOOLEAN /\ wait.irq \in 0 .. MAX_IRQS
      BY <2>2, InCall DEF WaitConsume, Pcs, Call, Irqs
    <3> QED BY <2>2, <3>1 DEF WaitConsume
  <2> QED BY <2>1, <2>2 DEF Next, vars, CreateThread, Yield, MainLoop, TimerTick,
            ResetCount, WaitStep, WaitRegister, WaitCount, WaitBlock, WaitTest, WaitTimeouts,
            WaitFind, WaitYield, WaitRemove
<1> QED BY <1>3, <1>4, <1>5, <1>6

\* On the built port nothing is recorded, no entry ages, and so a call that has
\* entered its waiter never leaves its loop.
Deaf ==
    ~NOTIFY_WIRED =>
        /\ \A n \in Irqs : irq_occurred[n] = 0
        /\ \A w \in WaiterSlots : irq_waiters[w].active => irq_waiters[w].age = 0
        /\ wait.pc \in Pcs => wait.pc \notin {"consume", "remove"} /\ wait.cause = "none"
        /\ returned.cause \in {"none", "at once"}

LEMMA DeafExpired ==
  ASSUME StepInv, Deaf, ~NOTIFY_WIRED
  PROVE  Expired = {}
<1> SUFFICES ASSUME NEW w \in Expired
             PROVE  FALSE
  OBVIOUS
<1>1. /\ w \in WaiterSlots /\ irq_waiters[w].active /\ irq_waiters[w].timeout # 0
      /\ irq_waiters[w].age >= irq_waiters[w].timeout
  BY DEF Expired
<1>2. irq_waiters[w].age = 0 /\ irq_waiters[w].timeout \in Nat
  BY <1>1 DEF Deaf, StepInv, Types, Waiter
<1> QED BY <1>1, <1>2

\* No step of a call in progress leads out of it.
LEMMA DeafWait ==
  ASSUME StepInv, Deaf, ~NOTIFY_WIRED, WaitStep
  PROVE  Deaf'
<1>0. irq_waiters \in [WaiterSlots -> Waiter]
  BY DEF StepInv, Types
<1>1. CASE WaitRegister
  <2>1. wait.pc = "register" /\ wait.pc \in Pcs
    BY <1>1 DEF WaitRegister, Pcs
  <2>2. /\ returned' = returned /\ UNCHANGED <<port, irq_occurred>>
    BY <1>1, <2>1, RoomForOne DEF WaitRegister
  <2>3. PICK w \in WaiterSlots :
        /\ irq_waiters' = [irq_waiters EXCEPT ![w] =
              [pid |-> wait.pid, irq |-> wait.irq, timeout |-> wait.timeout,
               age |-> 0, active |-> TRUE]]
        /\ wait' = [wait EXCEPT !.pc = "count", !.slot = w]
    BY <1>1, <2>1, RoomForOne DEF WaitRegister
  <2>4. wait \in Call
    BY <2>1, InCall
  <2>5. wait'.pc = "count" /\ wait'.cause = wait.cause
    BY <2>3, <2>4 DEF Call
  <2>6. \A v \in WaiterSlots : irq_waiters'[v].active => irq_waiters'[v].age = 0
    BY <1>0, <2>3 DEF Deaf
  <2> QED BY <2>1, <2>2, <2>5, <2>6 DEF Deaf, NOTIFY_WIRED
<1>2. CASE WaitCount \/ WaitBlock \/ WaitYield
  <2>1. /\ UNCHANGED <<port, irq_waiters, irq_occurred, returned>> /\ wait.pc \in Pcs
        /\ \E p \in Pcs \ {"consume", "remove"} : wait' = [wait EXCEPT !.pc = p]
    BY <1>2 DEF WaitCount, WaitBlock, WaitYield, Pcs
  <2>2. wait \in Call
    BY <2>1, InCall
  <2>3. wait'.pc \notin {"consume", "remove"} /\ wait'.cause = wait.cause
    BY <2>1, <2>2 DEF Call
  <2> QED BY <2>1, <2>3 DEF Deaf, NOTIFY_WIRED
<1>3. CASE WaitTest
  <2>1. /\ wait.pc = "test" /\ wait.pc \in Pcs
        /\ UNCHANGED <<port, irq_waiters, irq_occurred, returned>>
    BY <1>3 DEF WaitTest, Pcs
  <2>2. wait \in Call /\ irq_occurred[wait.irq] = 0
    BY <2>1, InCall DEF Deaf
  <2>3. wait' = [wait EXCEPT !.pc = "timeouts"]
    BY <1>3, <2>2 DEF WaitTest
  <2>4. wait'.pc = "timeouts" /\ wait'.cause = wait.cause
    BY <2>2, <2>3 DEF Call
  <2> QED BY <2>1, <2>4 DEF Deaf, NOTIFY_WIRED
<1>4. CASE WaitTimeouts
  <2>1. /\ wait.pc = "timeouts" /\ wait.pc \in Pcs
        /\ UNCHANGED <<port, irq_occurred, returned>>
        /\ irq_waiters' = Silenced(Expired)
        /\ wait' = [wait EXCEPT !.pc = "find", !.cause = IF Expired = {} THEN @ ELSE "timeout"]
    BY <1>4 DEF WaitTimeouts, Pcs
  <2>2. Expired = {}
    BY DeafExpired
  <2>3. irq_waiters' = irq_waiters
    BY <1>0, <2>1, <2>2 DEF Silenced
  <2>4. wait \in Call
    BY <2>1, InCall
  <2>5. wait'.pc = "find" /\ wait'.cause = wait.cause
    BY <2>1, <2>2, <2>4 DEF Call
  <2> QED BY <2>1, <2>3, <2>5 DEF Deaf, NOTIFY_WIRED
<1>5. CASE WaitFind
  <2>1. /\ wait.pc = "find" /\ wait.pc \in Pcs
        /\ UNCHANGED <<port, irq_waiters, irq_occurred, returned>>
    BY <1>5 DEF WaitFind, Pcs
  <2>2. wait \in Call /\ wait.slot \in WaiterSlots /\ irq_occurred[wait.irq] = 0
        /\ wait.cause = "none"
    BY <2>1, InCall DEF Deaf
  <2>3. irq_waiters[wait.slot].active
    BY <2>1, <2>2 DEF StepInv, LoopStatus
  <2>4. wait.slot \in Waiting(irq_waiters, wait.pid, wait.irq)
    BY <2>1, <2>2, <2>3 DEF Waiting, StepInv, OneWaiter, NoStaleWaiter
  <2>5. wait' = [wait EXCEPT !.pc = "yield"]
    BY <1>5, <2>4 DEF WaitFind
  <2>6. wait'.pc = "yield" /\ wait'.cause = wait.cause
    BY <2>2, <2>5 DEF Call
  <2> QED BY <2>1, <2>6 DEF Deaf, NOTIFY_WIRED
<1>6. CASE WaitConsume \/ WaitRemove
  BY <1>6 DEF WaitConsume, WaitRemove, Deaf, Pcs
<1> QED BY <1>1, <1>2, <1>3, <1>4, <1>5, <1>6 DEF WaitStep

LEMMA DeafStep ==
  ASSUME StepInv, Deaf, ~NOTIFY_WIRED, [Next]_vars
  PROVE  Deaf'
<1>0. /\ irq_waiters \in [WaiterSlots -> Waiter] /\ irq_occurred \in [Irqs -> {0, 1}]
      /\ port \in {"x86_64", "wired"}
  BY DEF StepInv, Types
<1>1. CASE UNCHANGED vars \/ CreateThread \/ Yield \/ \E n \in Irqs : DeviceInterrupt(n) \/ ResetCount(n)
  <2>1. UNCHANGED <<port, irq_waiters, irq_occurred, wait, returned>>
    BY <1>1 DEF vars, CreateThread, Yield, DeviceInterrupt, ResetCount
  <2> QED BY <2>1 DEF Deaf, NOTIFY_WIRED
<1>2. CASE MainLoop
  <2>1. Expired = {}
    BY DeafExpired
  <2>2. irq_waiters' = irq_waiters /\ UNCHANGED <<port, irq_occurred, wait, returned>>
    BY <1>0, <1>2, <2>1 DEF MainLoop, Silenced
  <2> QED BY <2>2 DEF Deaf, NOTIFY_WIRED
<1>3. CASE TimerTick
  <2>1. wait = NoWait
    BY <1>0, <1>3 DEF TimerTick, SYSCALL_CLI, NOTIFY_WIRED
  <2>2. \A w \in WaiterSlots : ~irq_waiters[w].active
    BY <2>1, Quiet, NoWaitPc
  <2>3. irq_waiters' = irq_waiters /\ UNCHANGED <<port, irq_occurred, wait, returned>>
    BY <1>0, <1>3, <2>2 DEF TimerTick
  <2> QED BY <2>3 DEF Deaf, NOTIFY_WIRED
<1>4. CASE IrqWait
  <2>1. ASSUME NEW n \in 0 .. MAX_IRQS, NEW clear \in BOOLEAN, NEW nowait \in BOOLEAN,
               IrqWaitReturns(n, clear, nowait)
        PROVE  Deaf'
    <3>1. \A m \in Irqs : irq_occurred[m] = 0 => irq_occurred'[m] = 0
      BY <2>1, ConsumeKeeps DEF IrqWaitReturns
    <3>2. UNCHANGED <<port, irq_waiters, wait>> /\ returned'.cause = "at once"
      BY <2>1 DEF IrqWaitReturns
    <3> QED BY <3>1, <3>2 DEF Deaf, NOTIFY_WIRED
  <2>2. ASSUME NEW n \in 0 .. MAX_IRQS, NEW clear \in BOOLEAN, NEW timeout \in Timeouts,
               IrqWaitGoesOn(n, clear, timeout)
        PROVE  Deaf'
    <3>1. UNCHANGED <<port, irq_waiters, irq_occurred, returned>>
          /\ wait'.pc = "register" /\ wait'.cause = "none"
      BY <2>2 DEF IrqWaitGoesOn
    <3> QED BY <3>1 DEF Deaf, NOTIFY_WIRED
  <2> QED BY <1>4, <2>1, <2>2 DEF IrqWait
<1>5. CASE WaitStep
  BY <1>5, DeafWait
<1> QED BY <1>1, <1>2, <1>3, <1>4, <1>5 DEF Next

\* What SYS_IRQ_WAIT reports is what happened: on a port that calls
\* syscall_irq_notify an interrupt that fired stays in irq_occurred until a wait
\* with IRQ_WAIT_CLEAR takes it, on the port of the repository a wait ends only
\* where it began, and on both no timeout is made up.
THEOREM WaitResultsAreTruthful == Spec => []WaitResultTruthful
<1>1. Init => StepInv /\ InterruptRemembered /\ Deaf
  <2>1. Init => Deaf
    BY NoWaitPc DEF Init, Deaf, NoWaiter
  <2> QED BY <2>1, InitInv DEF Init, InterruptRemembered
<1>2. ASSUME StepInv, Deaf, [Next]_vars
      PROVE  Deaf'
  <2>1. CASE NOTIFY_WIRED
    <3>1. port' = port
      BY <1>2 DEF Next, vars, CreateThread, Yield, MainLoop, TimerTick, DeviceInterrupt,
         ResetCount, IrqWait, IrqWaitReturns, IrqWaitGoesOn, WaitStep, WaitRegister, WaitCount,
         WaitBlock, WaitTest, WaitTimeouts, WaitFind, WaitYield, WaitConsume, WaitRemove
    <3> QED BY <2>1, <3>1 DEF Deaf, NOTIFY_WIRED
  <2>2. CASE ~NOTIFY_WIRED
    BY <1>2, <2>2, DeafStep
  <2> QED BY <2>1, <2>2
<1>3. StepInv /\ InterruptRemembered /\ Deaf /\ [Next]_vars
        => (StepInv /\ InterruptRemembered /\ Deaf)'
  BY <1>2, NextInv, RememberedStep
<1>4. StepInv /\ InterruptRemembered /\ Deaf => WaitResultTruthful
  BY DEF StepInv, Deaf, BuiltPortIsDeaf, WaitResultTruthful
<1> QED BY <1>1, <1>3, <1>4, PTL DEF Spec
====
