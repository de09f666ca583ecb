---- MODULE Dos25 ----
(***************************************************************************)
(* The DOS25 boot loader: efi_main and the boot steps it calls, the queues *)
(* in shared memory (runtime.c), the self-test that sends through them     *)
(* (ipc_test.c) and the runtime daemon that serves them (daemon.c).  The   *)
(* loader runs on one processor, one step after the other; the firmware    *)
(* may fail any call.  The kernel, which is not part of it, sends requests *)
(* and takes answers while the daemon runs, between two calls of the queue *)
(* operations: these are not made to run at the same time.  A message      *)
(* keeps its type, whether its data are long enough and its sequence       *)
(* number.                                                                 *)
(***************************************************************************)
EXTENDS Integers, Sequences

CONSTANTS
    IPC_QUEUE_SIZE,
    MAX_MESSAGES,        \* after which the daemon stops
    KernelRequests       \* bound on requests of the kernel

\* 256 messages in a queue, and five for the daemon: both messages of the
\* self-test have room and are served.
ASSUME Dos25Assumption ==
    /\ IPC_QUEUE_SIZE \in Nat /\ MAX_MESSAGES \in Nat /\ KernelRequests \in Nat
    /\ IPC_QUEUE_SIZE >= 2 /\ MAX_MESSAGES >= 2

VARIABLES
    boot,                \* the step efi_main is at
    kernel_to_daemon, daemon_to_kernel,
    statistics,
    message_count,       \* of daemon_message_loop
    power,               \* what ResetSystem did to the machine
    kernel_sequence,     \* sequence number of the kernel's last request
    taken,               \* history: requests the daemon took
    answered,            \* history: which of them it put an answer in the queue for
    answers              \* history: answers the kernel took

bootVars == <<boot, kernel_to_daemon, daemon_to_kernel, statistics, message_count, power,
              kernel_sequence, taken, answered, answers>>
histories == <<taken, answered, answers>>
queues == <<kernel_to_daemon, daemon_to_kernel>>

NoMessage == [type |-> "none", long |-> FALSE, sequence |-> 0]
EmptyQueue == [producer_index |-> 0, consumer_index |-> 0, count |-> 0,
               messages |-> [i \in 0 .. IPC_QUEUE_SIZE - 1 |-> NoMessage]]

BootInit ==
    /\ boot = "memory_map"
    /\ kernel_to_daemon = EmptyQueue /\ daemon_to_kernel = EmptyQueue
    /\ statistics = [sent |-> 0, received |-> 0, errors |-> 0]
    /\ message_count = 0
    /\ power = "on"
    /\ kernel_sequence = 0
    /\ taken = << >> /\ answered = << >> /\ answers = << >>

----------------------------------------------------------------------------
(***************************************************************************)
(* Queues                                                                  *)
(***************************************************************************)
ipc_queue_empty(q) == q.count = 0
ipc_queue_full(q) == q.count >= IPC_QUEUE_SIZE

\* Mutant: the index is not advanced.
ipc_send_message_in_place(q, m) ==
    IF ipc_queue_full(q) THEN q
    ELSE [q EXCEPT !.messages[q.producer_index] = m, !.count = q.count + 1]

\* The queue after the call, which fails when it is full.
ipc_send_message(q, m) ==
    IF ipc_queue_full(q) THEN q
    ELSE [q EXCEPT !.messages[q.producer_index] = m,
                   !.producer_index = (q.producer_index + 1) % IPC_QUEUE_SIZE,
                   !.count = q.count + 1]

Received(q) == q.messages[q.consumer_index]

ipc_receive_message(q) ==
    [q EXCEPT !.consumer_index = (q.consumer_index + 1) % IPC_QUEUE_SIZE, !.count = q.count - 1]

Queued(q) == [n \in 1..q.count |-> q.messages[(q.consumer_index + n - 1) % IPC_QUEUE_SIZE]]

----------------------------------------------------------------------------
(***************************************************************************)
(* Booting                                                                 *)
(***************************************************************************)
\* A step of boot_params_init; if it fails efi_main ends in error_exit.
Step(from, to) ==
    /\ boot = from
    /\ boot' \in {to, "error_exit"}
    /\ UNCHANGED <<message_count, power, kernel_sequence, histories>>

get_memory_map_simple ==
    /\ Step("memory_map", "shared_memory")
    /\ UNCHANGED <<queues, statistics>>

\* With initialize_ipc_queues.
setup_shared_memory ==
    /\ Step("shared_memory", "load_kernel")
    /\ kernel_to_daemon' = EmptyQueue /\ daemon_to_kernel' = EmptyQueue
    /\ statistics' = [sent |-> 0, received |-> 0, errors |-> 0]

\* preserve_runtime_services cannot fail and graphics_init may.
load_kernel ==
    /\ Step("load_kernel", "tests")
    /\ UNCHANGED <<queues, statistics>>

GetTime(n) == [type |-> "GET_TIME", long |-> TRUE, sequence |-> n]

\* run_ipc_tests.  Nobody takes its two messages out again.
run_ipc_tests ==
    /\ boot = "tests"
    /\ boot' = "jump"
    /\ kernel_to_daemon' =
          ipc_send_message(ipc_send_message(kernel_to_daemon, GetTime(1)),
                           [type |-> "RESET_SYSTEM", long |-> TRUE, sequence |-> 2])
    /\ UNCHANGED <<daemon_to_kernel, statistics, message_count, power, kernel_sequence,
                   histories>>

\* jump_to_kernel up to start_runtime_daemon.
jump_to_kernel ==
    /\ boot = "jump"
    /\ boot' = "daemon"
    /\ kernel_to_daemon' = ipc_send_message(kernel_to_daemon, GetTime(1))
    /\ UNCHANGED <<daemon_to_kernel, statistics, message_count, power, kernel_sequence,
                   histories>>

----------------------------------------------------------------------------
(***************************************************************************)
(* The daemon                                                              *)
(***************************************************************************)
Response(m) == m

Resets(m) == m.type = "RESET_SYSTEM" /\ m.long

\* process_message: what it returns.  A set of the time needs its data too.
Processed(m) ==
    \/ m.type \in {"GET_TIME", "GET_VARIABLE", "SHUTDOWN"}
    \/ m.type \in {"RESET_SYSTEM", "SET_TIME"} /\ m.long

Counted(s, done, ok) ==
    [s EXCEPT !.sent = IF ok THEN @ + 1 ELSE @, !.received = @ + 1,
              !.errors = IF ok THEN @ ELSE @ + 1]

Serving == boot = "daemon" /\ message_count < MAX_MESSAGES

\* One turn of daemon_message_loop.  ResetSystem returns only if it fails.
DaemonServes ==
    /\ Serving /\ ~ipc_queue_empty(kernel_to_daemon)
    /\ LET m == Received(kernel_to_daemon)
           ok == Processed(m) /\ ~ipc_queue_full(daemon_to_kernel) IN
       /\ kernel_to_daemon' = ipc_receive_message(kernel_to_daemon)
       /\ \/ /\ Resets(m)
             /\ power' = "off" /\ boot' = "off"
             /\ UNCHANGED <<daemon_to_kernel, statistics, message_count, answered>>
          \/ /\ daemon_to_kernel' =
                   IF ok THEN ipc_send_message(daemon_to_kernel, Response(m)) ELSE daemon_to_kernel
             /\ statistics' = Counted(statistics, Processed(m), ok)
             /\ message_count' = message_count + 1
             /\ boot' = IF m.type = "SHUTDOWN" THEN "demo_completed" ELSE boot
             /\ answered' = IF ok THEN Append(answered, Len(taken) + 1) ELSE answered
             /\ UNCHANGED power
       /\ taken' = Append(taken, m)
    /\ UNCHANGED <<kernel_sequence, answers>>

DaemonEnds ==
    /\ boot = "daemon"
    /\ message_count >= MAX_MESSAGES \/ ipc_queue_empty(kernel_to_daemon)
    /\ boot' = "demo_completed"
    /\ UNCHANGED <<queues, statistics, message_count, power, kernel_sequence,
                   histories>>

----------------------------------------------------------------------------
(***************************************************************************)
(* The kernel                                                              *)
(***************************************************************************)
Types == {"GET_TIME", "SET_TIME", "RESET_SYSTEM", "GET_VARIABLE", "SHUTDOWN", "unknown"}

KernelSends ==
    /\ boot = "daemon" /\ kernel_sequence < KernelRequests
    /\ kernel_sequence' = kernel_sequence + 1
    /\ \E type \in Types, long \in BOOLEAN :
          kernel_to_daemon' = ipc_send_message(kernel_to_daemon,
              [type |-> type, long |-> long, sequence |-> kernel_sequence'])
    /\ UNCHANGED <<boot, daemon_to_kernel, statistics, message_count, power, histories>>

KernelTakes ==
    /\ boot = "daemon" /\ ~ipc_queue_empty(daemon_to_kernel)
    /\ answers' = Append(answers, Received(daemon_to_kernel))
    /\ daemon_to_kernel' = ipc_receive_message(daemon_to_kernel)
    /\ UNCHANGED <<boot, kernel_to_daemon, statistics, message_count, power, kernel_sequence,
                   taken, answered>>

BootNext ==
    \/ get_memory_map_simple \/ setup_shared_memory \/ load_kernel
    \/ run_ipc_tests \/ jump_to_kernel
    \/ DaemonServes \/ DaemonEnds
    \/ KernelSends \/ KernelTakes

BootSpec == BootInit /\ [][BootNext]_bootVars

----------------------------------------------------------------------------
(***************************************************************************)
(* Properties                                                              *)
(***************************************************************************)
\* Type invariant.
BootTypeOK ==
    \A q \in {kernel_to_daemon, daemon_to_kernel} :
        /\ q.producer_index \in 0 .. IPC_QUEUE_SIZE - 1
        /\ q.consumer_index \in 0 .. IPC_QUEUE_SIZE - 1
        /\ q.count \in 0..IPC_QUEUE_SIZE

\* What the kernel took and will find in the ring are the answers to requests that
\* were taken and processed, each once, in their order and with their sequence
\* numbers, also when the ring is full or wraps; and the statistics count them.
AnswersFollowRequests ==
    /\ answers \o Queued(daemon_to_kernel) = [n \in DOMAIN answered |-> taken[answered[n]]]
    /\ \A n \in DOMAIN answered :
          /\ answered[n] \in DOMAIN taken /\ Processed(taken[answered[n]])
          /\ \A k \in 1 .. n - 1 : answered[k] < answered[n]
    /\ power = "on" => /\ statistics.sent = Len(answered)
                       /\ statistics.received = Len(taken)
                       /\ statistics.sent + statistics.errors = Len(taken)

\* "DOS25 bootloader demo completed successfully!" is reached only if the
\* firmware refused to reset: the daemon finds the RESET_SYSTEM message of the
\* self-test, which asks for a shutdown, before anything the kernel sends.
CompletesIfResetRefused ==
    boot = "demo_completed" =>
        /\ power = "on"
        /\ \E n \in DOMAIN taken : n <= 2 /\ Resets(taken[n])

\* The rings between kernel and daemon keep order and counts until the reset.
BootCorrect == BootTypeOK /\ AnswersFollowRequests /\ CompletesIfResetRefused
====
