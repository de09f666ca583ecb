---- MODULE KernelThreads ----
(***************************************************************************)
(* Threads and hardware-interrupt waits of the kernel: src/sched/sched.c,  *)
(* src/kernel/syscall.c, src/time/time.c, arch/x86_64/interrupts/irq.c and *)
(* the scheduling part of src/kernel/main.c's loop.                        *)
(*                                                                         *)
(* sched_schedule only relabels threads: no context is switched, so a      *)
(* SYS_IRQ_WAIT call spins inside the kernel on the one CPU and nothing    *)
(* but interrupt handlers runs until it returns.  The variable wait is     *)
(* that call.  System calls are made by user code (external) and count as  *)
(* calls of whatever thread current_thread names.                          *)
(*                                                                         *)
(* The variable port says which port the kernel was built for.  syscall.c  *)
(* is written for one that calls syscall_irq_notify from its interrupt     *)
(* handler and lets interrupts in during a system call, "wired"; the       *)
(* x86_64 port of the repository does neither (irq_handler_asm_shim,       *)
(* isr128).                                                                *)
(*                                                                         *)
(* A SYS_IRQ_WAIT call is a sequence of steps, cut wherever an interrupt   *)
(* makes a difference: after the test of irq_occurred, after the entry in  *)
(* the waiter table, after num_waiters is raised to cover it, after the    *)
(* thread is marked BLOCKED, between the tests, the timeout check and the  *)
(* yield of its loop, and between its last two assignments.  Within the    *)
(* timeout check and sched_schedule an interrupt has the effect it has     *)
(* before or after them.                                                   *)
(*                                                                         *)
(* Time: a waiter keeps its age, now - start_time, counted up to the       *)
(* longest timeout, instead of two absolute tick counts; check_timeouts    *)
(* only compares the age with the timeout, and the age of an inactive      *)
(* entry is not kept.  block_reason, block_data and priority are written   *)
(* and never read, last_scheduled always equals current_thread: none of    *)
(* them is kept.                                                           *)
(***************************************************************************)
EXTENDS Integers

CONSTANTS
    MAX_THREADS, MAX_IRQ_WAITERS, MAX_IRQS,
    Timeouts,      \* timeout_ms arguments, in ticks; 0 waits for ever
    COUNT_RANGE,   \* irq_occurrence_count counts modulo this (2^32 in the code)
    Ports          \* the ports considered

ASSUME SizesAssumption ==
    /\ MAX_THREADS \in Nat \ {0} /\ MAX_IRQ_WAITERS \in Nat \ {0}
    /\ MAX_IRQS \in Nat \ {0} /\ COUNT_RANGE \in Nat \ {0}
ASSUME TimeoutsAssumption ==   \* timeout_ms has 32 bits: there is a longest one
    Timeouts \subseteq Nat /\ \E t \in Timeouts : \A u \in Timeouts : u <= t
ASSUME PortsAssumption == Ports \subseteq {"x86_64", "wired"}

VARIABLES
    port,
    threads, current_thread, next_thread_id,
    irq_waiters, num_waiters, irq_occurred, irq_occurrence_count,
    wait,      \* the SYS_IRQ_WAIT call past its first tests, or NoWait
    raised,    \* history: device interrupts that fired and were not consumed
    returned   \* history: result of the last such call, and why it ended

vars == <<port, threads, current_thread, next_thread_id, irq_waiters, num_waiters,
          irq_occurred, irq_occurrence_count, raised, wait, returned>>

\* The port's handler calls syscall_irq_notify; the port keeps interrupts off
\* during a system call.
NOTIFY_WIRED == port = "wired"
SYSCALL_CLI == port = "x86_64"

Slots == 0 .. MAX_THREADS - 1
WaiterSlots == 0 .. MAX_IRQ_WAITERS - 1
Irqs == 0 .. MAX_IRQS - 1
Oldest == CHOOSE t \in Timeouts : \A u \in Timeouts : u <= t

ERR_TIMEOUT == -3
NoWait == [pc |-> "none"]
NoThread == [id |-> 0, state |-> "READY", stack |-> FALSE, last_error |-> 0]
NoWaiter == [pid |-> 0, irq |-> 0, timeout |-> 0, age |-> 0, active |-> FALSE]

Init ==
    /\ port \in Ports
    /\ threads = [s \in Slots |-> NoThread]
    /\ current_thread = 0 /\ next_thread_id = 1
    /\ irq_waiters = [w \in WaiterSlots |-> NoWaiter] /\ num_waiters = 0
    /\ irq_occurred = [n \in Irqs |-> 0]
    /\ irq_occurrence_count = [n \in Irqs |-> 0]
    /\ raised = {} /\ wait = NoWait /\ returned = [result |-> 0, cause |-> "none"]

----------------------------------------------------------------------------
(***************************************************************************)
(* Scheduler                                                               *)
(***************************************************************************)
AnyRunnable(th) == \E s \in Slots : th[s].state = "READY" /\ th[s].id # 0

\* How many slots sched_schedule's scan passes before it looks at slot s.
Distance_from_zero(s) == s

Distance(s) == (s - current_thread - 1) % MAX_THREADS

NextThread(th) ==
    CHOOSE s \in Slots :
        /\ th[s].state = "READY" /\ th[s].id # 0
        /\ \A u \in Slots : th[u].state = "READY" /\ th[u].id # 0 => Distance(s) <= Distance(u)

\* sched_schedule (and sched_yield): the threads it leaves behind.  The
\* current thread becomes READY whatever state it was in.
Scheduled_old_keeps_state(th) ==
    IF AnyRunnable(th) THEN [th EXCEPT ![NextThread(th)].state = "RUNNING"] ELSE th

Scheduled(th) ==
    IF ~AnyRunnable(th) THEN th
    ELSE [s \in Slots |->
            IF s = NextThread(th) THEN [th[s] EXCEPT !.state = "RUNNING"]
            ELSE IF s = current_thread /\ th[s].id # 0 THEN [th[s] EXCEPT !.state = "READY"]
            ELSE th[s]]

ScheduledCurrent(th) == IF AnyRunnable(th) THEN NextThread(th) ELSE current_thread

\* sched_create_thread: the slot is claimed before the stack is allocated.
FreeSlots == {s \in Slots : threads[s].state = "TERMINATED" \/ threads[s].id = 0}

CreateThread ==
    /\ wait = NoWait
    /\ \E s \in FreeSlots, stack \in BOOLEAN :
          /\ \A u \in FreeSlots : s <= u
          /\ threads' = [threads EXCEPT ![s] =
                [id |-> next_thread_id, state |-> "READY", stack |-> stack,
                 last_error |-> threads[s].last_error]]
    /\ next_thread_id' = next_thread_id + 1
    /\ UNCHANGED <<port, current_thread, irq_waiters, num_waiters, irq_occurred,
                   irq_occurrence_count, raised, wait, returned>>

\* SYS_THREAD_YIELD.
Yield ==
    /\ wait = NoWait
    /\ threads' = Scheduled(threads)
    /\ current_thread' = ScheduledCurrent(threads)
    /\ UNCHANGED <<port, next_thread_id, irq_waiters, num_waiters, irq_occurred,
                   irq_occurrence_count, raised, wait, returned>>

----------------------------------------------------------------------------
(***************************************************************************)
(* Waiter table                                                            *)
(***************************************************************************)
Waiting(ws, pid, n) ==
    {w \in WaiterSlots : w < num_waiters /\ ws[w].active /\ ws[w].pid = pid /\ ws[w].irq = n}

\* Threads after the waiters in W were told: only BLOCKED threads change.
Woken(th, W, error) ==
    [s \in Slots |->
        IF th[s].state = "BLOCKED" /\ \E w \in W : irq_waiters[w].pid = th[s].id
        THEN [th[s] EXCEPT !.state = "READY",
                           !.last_error = IF error # 0 THEN error ELSE @]
        ELSE th[s]]

Silenced(W) == [w \in WaiterSlots |->
    IF w \in W THEN [irq_waiters[w] EXCEPT !.active = FALSE, !.age = 0] ELSE irq_waiters[w]]

\* syscall_irq_check_timeouts
Expired_blocked_only == {w \in WaiterSlots :
    /\ w < num_waiters /\ irq_waiters[w].active
    /\ irq_waiters[w].timeout # 0 /\ irq_waiters[w].age >= irq_waiters[w].timeout
    /\ \E s \in Slots : threads[s].id = irq_waiters[w].pid /\ threads[s].state = "BLOCKED"}

Expired == {w \in WaiterSlots :
    /\ w < num_waiters /\ irq_waiters[w].active
    /\ irq_waiters[w].timeout # 0 /\ irq_waiters[w].age >= irq_waiters[w].timeout}

\* The part of one turn of kernel_main's loop that concerns threads.
MainLoop ==
    /\ wait = NoWait
    /\ threads' = Woken(Scheduled(threads), Expired, ERR_TIMEOUT)
    /\ current_thread' = ScheduledCurrent(threads)
    /\ irq_waiters' = Silenced(Expired)
    /\ UNCHANGED <<port, next_thread_id, num_waiters, irq_occurred,
                   irq_occurrence_count, raised, wait, returned>>

\* The timer interrupt: time_tick.
TimerTick ==
    /\ wait = NoWait \/ ~SYSCALL_CLI
    /\ irq_waiters' = [w \in WaiterSlots |->
          IF irq_waiters[w].active /\ irq_waiters[w].age < Oldest
          THEN [irq_waiters[w] EXCEPT !.age = @ + 1] ELSE irq_waiters[w]]
    /\ UNCHANGED <<port, threads, current_thread, next_thread_id, num_waiters,
                   irq_occurred, irq_occurrence_count, raised, wait, returned>>

\* syscall_irq_notify
Notified(n) == {w \in WaiterSlots :
    w < num_waiters /\ irq_waiters[w].active /\ irq_waiters[w].irq = n}

syscall_irq_notify(n) ==
    /\ irq_occurred' = [irq_occurred EXCEPT ![n] = 1]
    /\ irq_occurrence_count' = [irq_occurrence_count EXCEPT ![n] = (@ + 1) % COUNT_RANGE]
    /\ irq_waiters' = Silenced(Notified(n))
    /\ threads' = Woken(threads, Notified(n), 0)

\* irq_handler_asm_shim for a device interrupt: the handler table holds the
\* timer only, so the interrupt is acknowledged and nothing else happens,
\* unless the port calls syscall_irq_notify.
DeviceInterrupt(n) ==
    /\ wait = NoWait \/ ~SYSCALL_CLI
    /\ raised' = raised \cup {n}
    /\ IF NOTIFY_WIRED THEN syscall_irq_notify(n)
       ELSE UNCHANGED <<irq_occurred, irq_occurrence_count, irq_waiters, threads>>
    /\ UNCHANGED <<port, current_thread, next_thread_id, num_waiters, wait, returned>>

----------------------------------------------------------------------------
(***************************************************************************)
(* SYS_IRQ_WAIT                                                            *)
(***************************************************************************)
CurrentPid == threads[current_thread].id

FreeWaiters == {w \in WaiterSlots : ~irq_waiters[w].active}

\* The result of a call that does not get to add_irq_waiter, or 1.
WaitOutcome(n, nowait) ==
    CASE n \notin Irqs -> -1
      [] n \in Irqs /\ CurrentPid = 0 -> -4
      [] n \in Irqs /\ CurrentPid # 0 /\ irq_occurred[n] = 1 -> 0
      [] n \in Irqs /\ CurrentPid # 0 /\ irq_occurred[n] = 0 -> IF nowait THEN -2 ELSE 1

\* IRQ_WAIT_CLEAR consumes the interrupt.
Consume_always(n, clear) ==
    IF n \in Irqs /\ irq_occurred[n] = 1
    THEN /\ irq_occurred' = [irq_occurred EXCEPT ![n] = 0]
         /\ raised' = IF clear THEN raised \ {n} ELSE raised
    ELSE UNCHANGED <<irq_occurred, raised>>

Consume(n, clear) ==
    IF clear /\ n \in Irqs /\ irq_occurred[n] = 1
    THEN /\ irq_occurred' = [irq_occurred EXCEPT ![n] = 0]
         /\ raised' = raised \ {n}
    ELSE UNCHANGED <<irq_occurred, raised>>

IrqWaitReturns(n, clear, nowait) ==
    /\ wait = NoWait
    /\ WaitOutcome(n, nowait) <= 0
    /\ Consume(n, clear)
    /\ returned' = [result |-> WaitOutcome(n, nowait), cause |-> "at once"]
    /\ UNCHANGED <<port, threads, current_thread, next_thread_id, irq_waiters,
                   num_waiters, irq_occurrence_count, wait>>

IrqWaitGoesOn(n, clear, timeout) ==
    /\ wait = NoWait
    /\ WaitOutcome(n, FALSE) = 1
    /\ wait' = [pc |-> "register", pid |-> CurrentPid, thread |-> current_thread,
                irq |-> n, clear |-> clear, timeout |-> timeout, slot |-> 0, cause |-> "none"]
    /\ UNCHANGED <<port, threads, current_thread, next_thread_id, irq_waiters, num_waiters,
                   irq_occurred, irq_occurrence_count, raised, returned>>

\* add_irq_waiter takes the first inactive entry, and then makes num_waiters
\* cover it.
WaitRegister ==
    /\ wait.pc = "register"
    /\ IF Waiting(irq_waiters, wait.pid, wait.irq) = {} /\ FreeWaiters # {}
       THEN /\ \E w \in FreeWaiters :
                  /\ \A v \in FreeWaiters : w <= v
                  /\ irq_waiters' = [irq_waiters EXCEPT ![w] =
                        [pid |-> wait.pid, irq |-> wait.irq, timeout |-> wait.timeout,
                         age |-> 0, active |-> TRUE]]
                  /\ wait' = [wait EXCEPT !.pc = "count", !.slot = w]
            /\ UNCHANGED returned
       ELSE /\ returned' = [result |-> IF Waiting(irq_waiters, wait.pid, wait.irq) # {}
                                      THEN -2 ELSE -1, cause |-> "refused"]
            /\ wait' = NoWait
            /\ UNCHANGED irq_waiters
    /\ UNCHANGED <<port, threads, current_thread, next_thread_id, num_waiters, irq_occurred,
                   irq_occurrence_count, raised>>

WaitCount ==
    /\ wait.pc = "count"
    /\ num_waiters' = IF wait.slot >= num_waiters THEN wait.slot + 1 ELSE num_waiters
    /\ wait' = [wait EXCEPT !.pc = "block"]
    /\ UNCHANGED <<port, threads, current_thread, next_thread_id, irq_waiters, irq_occurred,
                   irq_occurrence_count, raised, returned>>

WaitBlock ==
    /\ wait.pc = "block"
    /\ threads' = [threads EXCEPT ![wait.thread].state = "BLOCKED"]
    /\ wait' = [wait EXCEPT !.pc = "test"]
    /\ UNCHANGED <<port, current_thread, next_thread_id, irq_waiters, num_waiters,
                   irq_occurred, irq_occurrence_count, raised, returned>>

\* The loop: leave when the interrupt is there, check the timeouts, leave when
\* the entry is gone, else yield and go round.
WaitTest ==
    /\ wait.pc = "test"
    /\ wait' = IF irq_occurred[wait.irq] = 1
               THEN [wait EXCEPT !.pc = "consume", !.cause = "irq"]
               ELSE [wait EXCEPT !.pc = "timeouts"]
    /\ UNCHANGED <<port, threads, current_thread, next_thread_id, irq_waiters, num_waiters,
                   irq_occurred, irq_occurrence_count, raised, returned>>

WaitTimeouts ==
    /\ wait.pc = "timeouts"
    /\ threads' = Woken(threads, Expired, ERR_TIMEOUT)
    /\ irq_waiters' = Silenced(Expired)
    /\ wait' = [wait EXCEPT !.pc = "find", !.cause = IF Expired = {} THEN @ ELSE "timeout"]
    /\ UNCHANGED <<port, current_thread, next_thread_id, num_waiters, irq_occurred,
                   irq_occurrence_count, raised, returned>>

WaitFind ==
    /\ wait.pc = "find"
    /\ wait' = IF Waiting(irq_waiters, wait.pid, wait.irq) = {}
               THEN [wait EXCEPT !.pc = "consume", !.cause = IF @ = "none" THEN "irq" ELSE @]
               ELSE [wait EXCEPT !.pc = "yield"]
    /\ UNCHANGED <<port, threads, current_thread, next_thread_id, irq_waiters, num_waiters,
                   irq_occurred, irq_occurrence_count, raised, returned>>

WaitYield ==
    /\ wait.pc = "yield"
    /\ threads' = Scheduled(threads)
    /\ current_thread' = ScheduledCurrent(threads)
    /\ wait' = [wait EXCEPT !.pc = "test"]
    /\ UNCHANGED <<port, next_thread_id, irq_waiters, num_waiters, irq_occurred,
                   irq_occurrence_count, raised, returned>>

WaitConsume ==
    /\ wait.pc = "consume"
    /\ Consume(wait.irq, wait.clear)
    /\ wait' = [wait EXCEPT !.pc = "remove"]
    /\ UNCHANGED <<port, threads, current_thread, next_thread_id, irq_waiters, num_waiters,
                   irq_occurrence_count, returned>>

\* remove_irq_waiter, and the result.
WaitRemove ==
    /\ wait.pc = "remove"
    /\ irq_waiters' = Silenced(Waiting(irq_waiters, wait.pid, wait.irq))
    /\ threads' = [threads EXCEPT ![wait.thread].last_error = IF @ = ERR_TIMEOUT THEN 0 ELSE @]
    /\ returned' = [result |-> IF threads[wait.thread].last_error = ERR_TIMEOUT
                               THEN ERR_TIMEOUT ELSE 0, cause |-> wait.cause]
    /\ wait' = NoWait
    /\ UNCHANGED <<port, current_thread, next_thread_id, num_waiters, irq_occurred,
                   irq_occurrence_count, raised>>

\* SYS_IRQ_RESET_COUNT (SYS_IRQ_GET_COUNT changes nothing).
ResetCount(n) ==
    /\ wait = NoWait
    /\ irq_occurrence_count' = [irq_occurrence_count EXCEPT ![n] = 0]
    /\ UNCHANGED <<port, threads, current_thread, next_thread_id, irq_waiters,
                   num_waiters, irq_occurred, raised, wait, returned>>

IrqWait == \E n \in 0 .. MAX_IRQS, clear, nowait \in BOOLEAN, timeout \in Timeouts :
    \/ IrqWaitReturns(n, clear, nowait)
    \/ ~nowait /\ IrqWaitGoesOn(n, clear, timeout)

\* The one CPU executes the call.
WaitStep ==
    \/ WaitRegister \/ WaitCount \/ WaitBlock \/ WaitTest \/ WaitTimeouts \/ WaitFind \/ WaitYield
    \/ WaitConsume \/ WaitRemove

Next ==
    \/ CreateThread \/ Yield \/ MainLoop \/ TimerTick
    \/ \E n \in Irqs : DeviceInterrupt(n) \/ ResetCount(n)
    \/ IrqWait \/ WaitStep

Spec == Init /\ [][Next]_vars

\* The timer keeps ticking, and the CPU keeps executing whatever it is in:
\* the main loop, or the loop of a waiting system call.  Devices and user
\* code may stop at any time.
FairSpec == Spec /\ WF_vars(MainLoop) /\ WF_vars(TimerTick)
                 /\ WF_vars(WaitStep)

\* Nothing preempts user code.  With threads that yield now and then the
\* scheduler is entered again and again, from a system call or the main loop.
CooperativeSpec == FairSpec /\ SF_vars(MainLoop \/ Yield)

----------------------------------------------------------------------------
Pcs == {"register", "count", "block", "test", "timeouts", "find", "yield",
        "consume", "remove"}

TypeOK ==
    /\ port \in {"x86_64", "wired"}
    /\ threads \in [Slots -> [id : 0 .. MAX_THREADS, stack : BOOLEAN, last_error : {0, ERR_TIMEOUT},
                              state : {"READY", "RUNNING", "BLOCKED", "TERMINATED"}]]
    /\ current_thread \in Slots /\ next_thread_id \in 1 .. MAX_THREADS + 1
    /\ irq_waiters \in [WaiterSlots -> [pid : 0 .. MAX_THREADS, irq : Irqs, timeout : Timeouts \cup {0},
                                        age : 0 .. Oldest, active : BOOLEAN]]
    /\ num_waiters \in 0 .. MAX_IRQ_WAITERS
    /\ irq_occurred \in [Irqs -> {0, 1}]
    /\ irq_occurrence_count \in [Irqs -> 0 .. COUNT_RANGE - 1]
    /\ raised \subseteq Irqs
    /\ wait = NoWait \/ wait.pc \in Pcs
    /\ returned.result \in {0, -1, -2, -3, -4}

\* Only current_thread is ever marked RUNNING: sched_schedule never leaves
\* two threads that both believe they own the CPU.
OneRunningThread ==
    \A s \in Slots : threads[s].state = "RUNNING" => s = current_thread

\* A BLOCKED thread is the one that has the CPU, so the next sched_schedule that
\* finds another thread makes it READY again: no thread sleeps that only
\* notify or the timeout checker could wake.  The code depends on it, because
\* an interrupt between add_irq_waiter and the assignment of BLOCKED takes the
\* entry away and leaves the thread BLOCKED, even after its call returned.
BlockedHasTheCpu ==
    \A s \in Slots : threads[s].state = "BLOCKED" => s = current_thread

\* A call that goes round its loop with its entry gone will notice: the
\* interrupt is there for the next test, or the search for the entry comes
\* first.
NoLostWakeup ==
    wait.pc \in {"block", "test", "timeouts", "yield"} =>
        \/ Waiting(irq_waiters, wait.pid, wait.irq) # {}
        \/ irq_occurred[wait.irq] = 1

\* Waiter entries belong to calls in progress: no return path of
\* syscall_irq_wait leaves an entry behind for a later call to trip over.
NoStaleWaiter ==
    \A w \in WaiterSlots : irq_waiters[w].active =>
        wait # NoWait /\ wait.pid = irq_waiters[w].pid /\ wait.irq = irq_waiters[w].irq

\* A wait reports a timeout only if it timed out; the error left in the
\* thread by one wait never reaches the next.
TimeoutReportedTruthfully == returned.result = ERR_TIMEOUT => returned.cause = "timeout"

\* An interrupt that fired is remembered in irq_occurred until a wait with
\* IRQ_WAIT_CLEAR takes it ("called from irq_handler when a hardware IRQ
\* fires", syscall.c).
InterruptRemembered == NOTIFY_WIRED => \A n \in raised : irq_occurred[n] = 1

\* On the port of the repository nothing is ever recorded, no clock runs while
\* a call waits, and so a call that has to wait never returns.
BuiltPortIsDeaf ==
    ~NOTIFY_WIRED => /\ \A n \in Irqs : irq_occurred[n] = 0
                     /\ returned.cause \in {"none", "at once"}

\* The thread and waiter tables agree with what runs: one thread has the CPU,
\* no waiter outlives its call, no thread sleeps and no wake-up is lost.
SchedulerConsistent ==
    TypeOK /\ OneRunningThread /\ NoStaleWaiter /\ BlockedHasTheCpu /\ NoLostWakeup

\* What SYS_IRQ_WAIT reports is what happened: no timeout is made up, and where
\* interrupts are recorded none is forgotten.
WaitResultTruthful == TimeoutReportedTruthfully /\ InterruptRemembered /\ BuiltPortIsDeaf

\* A READY thread gets the CPU: it is marked RUNNING, or blocks itself because
\* it already had the CPU.  Round robin starves nobody, even while a wait spins
\* in the kernel (kernel/specs/tla/Scheduler.tla: "every process will
\* eventually be scheduled"), as long as user threads yield.
ReadyThreadsRun == \A s \in Slots :
    threads[s].state = "READY" /\ threads[s].id # 0 ~> threads[s].state # "READY"

\* A wait with a timeout returns, whether or not the interrupt comes.
TimedWaitReturns == (wait # NoWait /\ wait.timeout # 0) ~> wait = NoWait

\* It does where the clock runs during a system call.
TimedWaitReturnsWithClock ==
    (~SYSCALL_CLI /\ wait # NoWait /\ wait.timeout # 0) ~> wait = NoWait

\* syscall.c: a wait whose entry was "removed by timeout handler" timed out,
\* and says so.
TimeoutIsReported == returned.cause = "timeout" => returned.result = ERR_TIMEOUT
====
