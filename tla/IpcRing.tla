---- MODULE IpcRing ----
(***************************************************************************)
(* The kernel's only message queue: the ring of src/ipc/ipc.c, the system  *)
(* calls that use it and the main loop of src/kernel/main.c, which takes   *)
(* the oldest message and sends it again to the same target.               *)
(*                                                                         *)
(* A message is a model value; the environment sends one again only after  *)
(* it has left the ring, so that messages can be told apart.  System calls *)
(* run with interrupts off and the main loop is never preempted by one:    *)
(* each operation is one step.                                             *)
(***************************************************************************)
EXTENDS Integers

CONSTANTS
    MAX_IPC_QUEUE,      \* slots of the ring
    IPC_MAX_DATA_SIZE,  \* bytes of payload a message can carry
    Messages,
    NoMessage,          \* what a slot holds that was never written
    Processes           \* thread ids

ASSUME QueueAssumption == MAX_IPC_QUEUE \in Nat \ {0, 1}
ASSUME DataAssumption == IPC_MAX_DATA_SIZE \in Nat
ASSUME MessagesAssumption == NoMessage \notin Messages

VARIABLES
    ipc_queue,   \* slot -> [msg, target]
    queue_head,
    queue_tail,
    rc,          \* what the last operation returned
    inflight     \* history: messages accepted by ipc_send and not yet received

ringVars == <<ipc_queue, queue_head, queue_tail, rc, inflight>>

Slots == 0 .. MAX_IPC_QUEUE - 1

ECLIB_OK == 0
ECLIB_IPC_TIMEOUT == -1
ECLIB_IPC_BUFFER_OVERFLOW == -4

Empty == queue_head = queue_tail
Full == (queue_tail + 1) % MAX_IPC_QUEUE = queue_head

RingInit ==
    /\ ipc_queue = [s \in Slots |-> [msg |-> NoMessage, target |-> 0]]
    /\ queue_head = 0 /\ queue_tail = 0
    /\ rc = ECLIB_OK /\ inflight = {}

(***************************************************************************)
(* ipc_send into the ring whose head is at h: one slot stays empty.        *)
(***************************************************************************)

Put(t, m) ==
    /\ rc' = ECLIB_OK
    /\ ipc_queue' = [ipc_queue EXCEPT ![queue_tail] = [msg |-> m, target |-> t]]
    /\ queue_tail' = (queue_tail + 1) % MAX_IPC_QUEUE
    /\ inflight' = inflight \cup {m}

Refuse(code) ==
    /\ rc' = code
    /\ UNCHANGED <<ipc_queue, queue_tail, inflight>>

ipc_send_unchecked(h, t, m) == Put(t, m)

ipc_send_early_full(h, t, m) ==
    IF (queue_tail + 2) % MAX_IPC_QUEUE = h
    THEN Refuse(ECLIB_IPC_BUFFER_OVERFLOW) ELSE Put(t, m)

ipc_send(h, t, m) ==
    IF (queue_tail + 1) % MAX_IPC_QUEUE = h
    THEN Refuse(ECLIB_IPC_BUFFER_OVERFLOW) ELSE Put(t, m)

\* SYS_IPC_SEND, and ipc_send_msg, which first refuses an oversized payload.
Send(t, m) ==
    /\ m \in Messages \ inflight
    /\ ipc_send(queue_head, t, m)
    /\ UNCHANGED queue_head

SendMsg(len, t, m) ==
    /\ m \in Messages \ inflight
    /\ IF len > IPC_MAX_DATA_SIZE
       THEN Refuse(ECLIB_IPC_BUFFER_OVERFLOW) ELSE ipc_send(queue_head, t, m)
    /\ UNCHANGED queue_head

\* SYS_IPC_RECEIVE by any process: whatever is at the head, whoever it is for.
ipc_receive_head_kept ==
    IF Empty
    THEN rc' = ECLIB_IPC_TIMEOUT /\ UNCHANGED <<queue_head, inflight>>
    ELSE /\ rc' = ECLIB_OK
         /\ inflight' = inflight \ {ipc_queue[queue_head].msg}
         /\ UNCHANGED queue_head

ipc_receive ==
    IF Empty
    THEN rc' = ECLIB_IPC_TIMEOUT /\ UNCHANGED <<queue_head, inflight>>
    ELSE /\ rc' = ECLIB_OK
         /\ queue_head' = (queue_head + 1) % MAX_IPC_QUEUE
         /\ inflight' = inflight \ {ipc_queue[queue_head].msg}

Receive == ipc_receive /\ UNCHANGED <<ipc_queue, queue_tail>>

\* One turn of kernel_main's loop: ipc_receive_msg, then ipc_send of what it got.
Relay ==
    /\ ~Empty
    /\ LET pending_msg == ipc_queue[queue_head]
           head == (queue_head + 1) % MAX_IPC_QUEUE
       IN  queue_head' = head /\ ipc_send(head, pending_msg.target, pending_msg.msg)

RingNext ==
    \/ \E t \in Processes, m \in Messages :
          Send(t, m) \/ \E len \in {0, IPC_MAX_DATA_SIZE, IPC_MAX_DATA_SIZE + 1} : SendMsg(len, t, m)
    \/ Receive
    \/ Relay

RingSpec == RingInit /\ [][RingNext]_ringVars

----------------------------------------------------------------------------
\* Messages in the ring, oldest first; position 0 is the head.
Count == (queue_tail - queue_head) % MAX_IPC_QUEUE
At(k) == ipc_queue[(queue_head + k) % MAX_IPC_QUEUE].msg
Contents == [k \in 1 .. Count |-> At(k - 1)]

RingTypeOK ==
    /\ ipc_queue \in [Slots -> [msg : Messages \cup {NoMessage}, target : Processes \cup {0}]]
    /\ queue_head \in Slots /\ queue_tail \in Slots
    /\ rc \in {ECLIB_OK, ECLIB_IPC_TIMEOUT, ECLIB_IPC_BUFFER_OVERFLOW}
    /\ inflight \subseteq Messages

\* Every message ipc_send accepted is in the ring exactly once until somebody
\* receives it, whatever the main loop moves around in between.
NothingLostOrDuplicated ==
    /\ {At(k) : k \in 0 .. Count - 1} = inflight
    /\ \A j, k \in 0 .. Count - 1 : At(j) = At(k) => j = k

\* A send is refused only for an oversized payload or when all but one of
\* the slots hold a message, and the main loop's own send is never refused:
\* the receive before it has just made room.
RefusedOnlyWhenFull ==
    [][ /\ Relay => rc' = ECLIB_OK
        /\ \A t \in Processes, m \in Messages :
             Send(t, m) /\ rc' # ECLIB_OK => Count = MAX_IPC_QUEUE - 1 ]_ringVars

\* The ring with its main loop is a bounded queue whose oldest message may
\* go back to the end.
AbstractQueue == INSTANCE BoundedQueue WITH queue <- Contents, Capacity <- MAX_IPC_QUEUE - 1
ImplementsRelayQueue == AbstractQueue!RelaySpec
====
