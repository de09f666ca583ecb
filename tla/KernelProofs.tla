---- MODULE KernelProofs ----
(***************************************************************************)
(* Proofs about the kernel's ring of messages (IpcRing) and about its page *)
(* allocator and page tables (PageAllocator), for every number of slots,   *)
(* messages, processes, pages and tables.                                  *)
(***************************************************************************)
EXTENDS IpcRing, PageAllocator, Sequences, TLAPS

----------------------------------------------------------------------------
(***************************************************************************)
(* The ring                                                                *)
(*                                                                         *)
(* Positions in the ring are (queue_head + k) % MAX_IPC_QUEUE; the first   *)
(* lemmas turn that arithmetic into additions and comparisons, the next    *)
(* ones say what the two halves of every operation, taking from the head   *)
(* and putting at the tail, do to the messages seen from the head.         *)
(***************************************************************************)
USE QueueAssumption, MessagesAssumption

N == MAX_IPC_QUEUE
Wrap(a) == IF a < N THEN a ELSE a - N
Used(h, t) == IF t >= h THEN t - h ELSE t - h + N

LEMMA WrapMod == \A a \in 0 .. 2 * N - 1 : a % N = Wrap(a)
BY DEF N, Wrap

LEMMA UsedMod == \A h, t \in Slots : (t - h) % N = Used(h, t)
BY DEF N, Used, Slots

LEMMA UsedRange == \A h, t \in Slots : Used(h, t) \in 0 .. N - 1
BY DEF N, Used, Slots

LEMMA AddRange == \A h \in Slots, k \in 0 .. N - 1 : h + k \in 0 .. 2 * N - 1
BY DEF N, Slots

LEMMA WrapSlot == \A a \in 0 .. 2 * N - 1 : Wrap(a) \in Slots
BY DEF N, Wrap, Slots

\* Putting at tail t a slot that is not the last free one.
LEMMA PutPosition ==
  ASSUME NEW h \in Slots, NEW t \in Slots, Wrap(t + 1) # h
  PROVE  /\ Used(h, Wrap(t + 1)) = Used(h, t) + 1
         /\ Used(h, t) < N - 1
         /\ Wrap(h + Used(h, t)) = t
         /\ \A k \in 0 .. Used(h, t) - 1 : Wrap(h + k) # t
BY DEF N, Wrap, Used, Slots

\* Taking from head h of a ring that is not empty.
LEMMA TakePosition ==
  ASSUME NEW h \in Slots, NEW t \in Slots, h # t
  PROVE  /\ Used(Wrap(h + 1), t) = Used(h, t) - 1
         /\ Wrap(t + 1) # Wrap(h + 1)
         /\ \A k \in 0 .. Used(h, t) - 2 : Wrap(Wrap(h + 1) + k) = Wrap(h + (k + 1))
BY DEF N, Wrap, Used, Slots

----------------------------------------------------------------------------
\* The message k places after head h.
MsgAt(h, k) == ipc_queue[Wrap(h + k)].msg

LEMMA CountAt ==
  ASSUME RingTypeOK
  PROVE  /\ Count = Used(queue_head, queue_tail)
         /\ Count \in 0 .. N - 1
         /\ \A k \in 0 .. N - 1 : At(k) = MsgAt(queue_head, k)
<1>1. queue_head \in Slots /\ queue_tail \in Slots
  BY DEF RingTypeOK
<1>2. \A k \in 0 .. N - 1 : queue_head + k \in 0 .. 2 * N - 1
  BY <1>1, AddRange
<1> QED BY <1>1, <1>2, WrapMod, UsedMod, UsedRange DEF Count, At, MsgAt, N

LEMMA CountAtNext ==
  ASSUME RingTypeOK'
  PROVE  /\ Count' = Used(queue_head', queue_tail')
         /\ Count' \in 0 .. N - 1
         /\ \A k \in 0 .. N - 1 : At(k)' = ipc_queue'[Wrap(queue_head' + k)].msg
<1>1. queue_head' \in Slots /\ queue_tail' \in Slots
  BY DEF RingTypeOK
<1>2. \A k \in 0 .. N - 1 : queue_head' + k \in 0 .. 2 * N - 1
  BY <1>1, AddRange
<1>3. Count' = (queue_tail' - queue_head') % N
  BY DEF Count, N
<1>4. \A k \in 0 .. N - 1 : At(k)' = ipc_queue'[(queue_head' + k) % N].msg
  BY DEF At, N
<1>5. Count' = Used(queue_head', queue_tail') /\ Count' \in 0 .. N - 1
  BY <1>1, <1>3, UsedMod, UsedRange
<1> QED BY <1>2, <1>4, <1>5, WrapMod

\* The code's % on the two cursors.
LEMMA CursorStep ==
  ASSUME RingTypeOK
  PROVE  /\ (queue_tail + 1) % MAX_IPC_QUEUE = Wrap(queue_tail + 1)
         /\ (queue_head + 1) % MAX_IPC_QUEUE = Wrap(queue_head + 1)
         /\ Wrap(queue_tail + 1) \in Slots
         /\ Wrap(queue_head + 1) \in Slots
<1>1. queue_tail + 1 \in 0 .. 2 * N - 1 /\ queue_head + 1 \in 0 .. 2 * N - 1
  BY DEF RingTypeOK, Slots, N
<1> QED BY <1>1, WrapMod, WrapSlot DEF N

RingInv == RingTypeOK /\ NothingLostOrDuplicated

\* A ring that is not empty has a message at its head, and it is in flight.
LEMMA HeadInFlight ==
  ASSUME RingInv, ~Empty
  PROVE  /\ Count > 0
         /\ At(0) = ipc_queue[queue_head].msg
         /\ ipc_queue[queue_head].msg \in inflight
         /\ inflight \subseteq Messages
<1>1. queue_head \in Slots /\ queue_tail \in Slots /\ queue_head # queue_tail
  BY DEF RingInv, RingTypeOK, Empty
<1>2. Used(queue_head, queue_tail) > 0 /\ Wrap(queue_head + 0) = queue_head
  BY <1>1 DEF Used, Wrap, Slots, N
<1>3. Count > 0 /\ At(0) = ipc_queue[queue_head].msg
  BY <1>2, CountAt DEF RingInv, MsgAt, N
<1>4. 0 \in 0 .. Count - 1
  BY <1>3, CountAt DEF RingInv, N
<1> QED BY <1>3, <1>4 DEF RingInv, NothingLostOrDuplicated, RingTypeOK

LEMMA TypeInit == RingInit => RingTypeOK
BY DEF RingInit, RingTypeOK, Slots, ECLIB_OK

LEMMA TypeStep == RingInv /\ [RingNext]_ringVars => RingTypeOK'
<1> SUFFICES ASSUME RingInv, [RingNext]_ringVars PROVE RingTypeOK'
  OBVIOUS
<1> RingTypeOK
  BY DEF RingInv
<1> USE CursorStep DEF RingTypeOK, ECLIB_OK, ECLIB_IPC_TIMEOUT, ECLIB_IPC_BUFFER_OVERFLOW
<1>0. ASSUME NEW h, NEW t \in Processes \cup {0}, NEW m \in Messages, ipc_send(h, t, m),
             queue_head' \in Slots
      PROVE  RingTypeOK'
  <2>1. CASE Refuse(ECLIB_IPC_BUFFER_OVERFLOW)
    BY <1>0, <2>1 DEF Refuse
  <2>2. CASE Put(t, m)
    BY <1>0, <2>2 DEF Put
  <2> QED BY <1>0, <2>1, <2>2 DEF ipc_send
<1>1. ASSUME NEW t \in Processes, NEW m \in Messages, Send(t, m) PROVE RingTypeOK'
  BY <1>0, <1>1 DEF Send
<1>2. ASSUME NEW len \in {0, IPC_MAX_DATA_SIZE, IPC_MAX_DATA_SIZE + 1},
             NEW t \in Processes, NEW m \in Messages, SendMsg(len, t, m)
      PROVE  RingTypeOK'
  <2>1. CASE Refuse(ECLIB_IPC_BUFFER_OVERFLOW)
    BY <1>2, <2>1 DEF SendMsg, Refuse
  <2>2. CASE ipc_send(queue_head, t, m)
    BY <1>0, <1>2, <2>2 DEF SendMsg
  <2> QED BY <1>2, <2>1, <2>2 DEF SendMsg
<1>3. ASSUME Receive PROVE RingTypeOK'
  BY <1>3 DEF Receive, ipc_receive, Empty
<1>4. CASE Relay
  <2>1. queue_head # queue_tail /\ ipc_queue[queue_head].msg \in Messages
    BY <1>4, HeadInFlight DEF Relay, Empty
  <2>2. queue_head' = Wrap(queue_head + 1)
        /\ ipc_send(Wrap(queue_head + 1), ipc_queue[queue_head].target, ipc_queue[queue_head].msg)
    BY <1>4 DEF Relay
  <2>3. Wrap(queue_tail + 1) # Wrap(queue_head + 1)
    BY <2>1, TakePosition
  <2>4. Put(ipc_queue[queue_head].target, ipc_queue[queue_head].msg)
    BY <2>2, <2>3 DEF ipc_send
  <2>5. ipc_queue[queue_head].target \in Processes \cup {0}
    OBVIOUS
  <2>6. [msg |-> ipc_queue[queue_head].msg, target |-> ipc_queue[queue_head].target]
          \in [msg : Messages \cup {NoMessage}, target : Processes \cup {0}]
    BY <2>1, <2>5
  <2>7. ipc_queue' \in [Slots -> [msg : Messages \cup {NoMessage}, target : Processes \cup {0}]]
    BY <2>4, <2>6 DEF Put
  <2>8. queue_tail' \in Slots /\ inflight' \subseteq Messages /\ rc' = ECLIB_OK
    BY <2>1, <2>4 DEF Put
  <2> QED BY <2>2, <2>7, <2>8
<1>5. CASE UNCHANGED ringVars
  BY <1>5 DEF ringVars
<1> QED BY <1>1, <1>2, <1>3, <1>4, <1>5 DEF RingNext

----------------------------------------------------------------------------
\* Seen from the head, a step appends, removes or moves one message, or
\* leaves the ring alone.
Appends(m) ==
    /\ m \in Messages \ inflight /\ inflight' = inflight \cup {m}
    /\ Count < N - 1 /\ Count' = Count + 1
    /\ \A k \in 0 .. Count - 1 : At(k)' = At(k)
    /\ \A k \in {Count} : At(k)' = m

Removes ==
    /\ Count > 0 /\ inflight' = inflight \ {At(0)}
    /\ Count' = Count - 1
    /\ \A k \in 0 .. Count - 2 : At(k)' = At(k + 1)

Moves ==
    /\ Count > 0 /\ inflight' = inflight
    /\ Count' = Count
    /\ \A k \in 0 .. Count - 2 : At(k)' = At(k + 1)
    /\ \A k \in {Count - 1} : At(k)' = At(0)

Leaves ==
    /\ inflight' = inflight /\ Count' = Count
    /\ \A k \in 0 .. Count - 1 : At(k)' = At(k)

LEMMA PutEffect ==
  ASSUME RingTypeOK, RingTypeOK', NEW h \in Slots, queue_head' = h, NEW t, NEW m, Put(t, m),
         Wrap(queue_tail + 1) # h
  PROVE  /\ Used(h, queue_tail) \in 0 .. N - 2
         /\ Count' = Used(h, queue_tail) + 1
         /\ \A k \in 0 .. Used(h, queue_tail) - 1 : At(k)' = MsgAt(h, k)
         /\ \A k \in {Used(h, queue_tail)} : At(k)' = m
<1> DEFINE u == Used(h, queue_tail)
<1>1. queue_tail \in Slots /\ queue_tail' = Wrap(queue_tail + 1)
      /\ ipc_queue' = [ipc_queue EXCEPT ![queue_tail] = [msg |-> m, target |-> t]]
      /\ ipc_queue \in [Slots -> [msg : Messages \cup {NoMessage}, target : Processes \cup {0}]]
  BY CursorStep DEF Put, RingTypeOK
<1>2. u \in 0 .. N - 2 /\ Used(h, Wrap(queue_tail + 1)) = u + 1
      /\ Wrap(h + u) = queue_tail
      /\ \A k \in 0 .. u - 1 : Wrap(h + k) # queue_tail
  BY <1>1, PutPosition, UsedRange DEF N
<1>3. Count' = u + 1
  BY <1>1, <1>2, CountAtNext
<1> HIDE DEF u
<1>4. \A k \in 0 .. u : At(k)' = ipc_queue'[Wrap(h + k)].msg
  BY <1>2, CountAtNext DEF N
<1>5. \A k \in 0 .. u : Wrap(h + k) \in Slots
  BY <1>2, AddRange, WrapSlot DEF N
<1>6. \A k \in 0 .. u - 1 : At(k)' = MsgAt(h, k)
  BY <1>1, <1>2, <1>4, <1>5 DEF MsgAt, N
<1>7. \A k \in {u} : At(k)' = m
  BY <1>1, <1>2, <1>4, <1>5 DEF N
<1> QED BY <1>2, <1>3, <1>6, <1>7 DEF u

LEMMA TakeEffect ==
  ASSUME RingInv, ~Empty
  PROVE  /\ Used(Wrap(queue_head + 1), queue_tail) = Count - 1
         /\ Wrap(queue_tail + 1) # Wrap(queue_head + 1)
         /\ \A k \in 0 .. Count - 2 : MsgAt(Wrap(queue_head + 1), k) = At(k + 1)
<1>1. RingTypeOK /\ queue_head \in Slots /\ queue_tail \in Slots /\ queue_head # queue_tail
  BY DEF RingInv, RingTypeOK, Empty
<1>2. Count = Used(queue_head, queue_tail) /\ Count \in 0 .. N - 1
      /\ \A k \in 0 .. N - 1 : At(k) = MsgAt(queue_head, k)
  BY <1>1, CountAt
<1>3. \A k \in 0 .. Count - 2 : k + 1 \in 0 .. N - 1
  BY <1>2 DEF N
<1> QED BY <1>1, <1>2, <1>3, TakePosition DEF MsgAt

LEMMA RingStep ==
  ASSUME RingInv, [RingNext]_ringVars
  PROVE  (\E m \in Messages : Appends(m)) \/ Removes \/ Moves \/ Leaves
<1>0. RingTypeOK /\ RingTypeOK' /\ queue_head \in Slots /\ queue_tail \in Slots
  BY TypeStep DEF RingInv, RingTypeOK
<1>a. Count = Used(queue_head, queue_tail) /\ Count \in 0 .. N - 1
      /\ \A k \in 0 .. N - 1 : At(k) = MsgAt(queue_head, k)
  BY <1>0, CountAt
<1>b. ASSUME UNCHANGED <<ipc_queue, queue_head, queue_tail, inflight>> PROVE Leaves
  BY <1>b DEF Leaves, Count, At
<1>c. ASSUME NEW t, NEW m \in Messages \ inflight, Put(t, m), UNCHANGED queue_head,
             Wrap(queue_tail + 1) # queue_head
      PROVE  Appends(m)
  <2>1. /\ Count \in 0 .. N - 2
        /\ Count' = Count + 1
        /\ \A k \in 0 .. Count - 1 : At(k)' = MsgAt(queue_head, k)
        /\ \A k \in {Count} : At(k)' = m
    BY <1>0, <1>a, <1>c, PutEffect
  <2>2. inflight' = inflight \cup {m}
    BY <1>c DEF Put
  <2>3. \A k \in 0 .. Count - 1 : At(k)' = At(k)
    BY <1>a, <2>1 DEF N
  <2>4. Count < N - 1
    BY <2>1 DEF N
  <2> QED BY <1>c, <2>1, <2>2, <2>3, <2>4 DEF Appends
<1>d. ASSUME NEW t, NEW m \in Messages \ inflight, ipc_send(queue_head, t, m), UNCHANGED queue_head
      PROVE  Appends(m) \/ Leaves
  <2>1. CASE Wrap(queue_tail + 1) = queue_head
    BY <1>0, <1>b, <1>d, <2>1, CursorStep DEF ipc_send, Refuse
  <2>2. CASE Wrap(queue_tail + 1) # queue_head
    BY <1>0, <1>c, <1>d, <2>2, CursorStep DEF ipc_send
  <2> QED BY <2>1, <2>2
<1>1. ASSUME NEW t \in Processes, NEW m \in Messages, Send(t, m)
      PROVE  (\E n \in Messages : Appends(n)) \/ Leaves
  BY <1>1, <1>d DEF Send
<1>2. ASSUME NEW len, NEW t \in Processes, NEW m \in Messages, SendMsg(len, t, m)
      PROVE  (\E n \in Messages : Appends(n)) \/ Leaves
  BY <1>2, <1>b, <1>d DEF SendMsg, Refuse
<1>3. ASSUME Receive PROVE Removes \/ Leaves
  <2>1. CASE Empty
    BY <1>3, <1>b, <2>1 DEF Receive, ipc_receive
  <2>2. CASE ~Empty
    <3>1. queue_head' = Wrap(queue_head + 1) /\ UNCHANGED <<ipc_queue, queue_tail>>
          /\ inflight' = inflight \ {ipc_queue[queue_head].msg}
      BY <1>0, <1>3, <2>2, CursorStep DEF Receive, ipc_receive
    <3>2. Count > 0 /\ At(0) = ipc_queue[queue_head].msg
      BY <2>2, HeadInFlight
    <3>3. Count' = Count - 1
      BY <1>0, <2>2, <3>1, CountAtNext, TakeEffect
    <3>4. \A k \in 0 .. Count - 2 : At(k)' = MsgAt(Wrap(queue_head + 1), k)
      BY <1>0, <1>a, <3>1, CountAtNext DEF MsgAt, N
    <3> QED BY <2>2, <3>1, <3>2, <3>3, <3>4, TakeEffect DEF Removes
  <2> QED BY <2>1, <2>2
<1>4. CASE Relay
  <2> DEFINE h == Wrap(queue_head + 1)
             m == ipc_queue[queue_head].msg
             t == ipc_queue[queue_head].target
  <2>1. ~Empty /\ h \in Slots /\ queue_head' = h /\ Put(t, m) /\ Wrap(queue_tail + 1) # h
    BY <1>0, <1>4, CursorStep, TakeEffect DEF Relay, ipc_send
  <2>2. Count > 0 /\ At(0) = m /\ m \in inflight
    BY <2>1, HeadInFlight
  <2>3. Used(h, queue_tail) = Count - 1
        /\ \A k \in 0 .. Count - 2 : MsgAt(h, k) = At(k + 1)
    BY <2>1, TakeEffect
  <2> HIDE DEF h, m, t
  <2>4. /\ Count' = Used(h, queue_tail) + 1
        /\ \A k \in 0 .. Used(h, queue_tail) - 1 : At(k)' = MsgAt(h, k)
        /\ \A k \in {Used(h, queue_tail)} : At(k)' = m
    BY <1>0, <2>1, PutEffect
  <2>5. inflight' = inflight
    BY <2>1, <2>2 DEF Put
  <2>6. Count' = Count
    BY <1>a, <2>3, <2>4 DEF N
  <2>7. \A k \in {Count - 1} : At(k)' = m
    BY <2>3, <2>4
  <2>8. \A k \in 0 .. Count - 2 : At(k)' = At(k + 1)
    BY <1>a, <2>3, <2>4 DEF N
  <2> QED BY <2>2, <2>5, <2>6, <2>7, <2>8 DEF Moves
<1>5. CASE UNCHANGED ringVars
  BY <1>5, <1>b DEF ringVars
<1> QED BY <1>1, <1>2, <1>3, <1>4, <1>5 DEF RingNext

----------------------------------------------------------------------------
LEMMA RingInvInit == RingInit => RingInv
<1> SUFFICES ASSUME RingInit PROVE RingInv
  OBVIOUS
<1>1. RingTypeOK
  BY TypeInit
<1>2. Count = 0
  BY <1>1, CountAt DEF RingInit, Used
<1> QED BY <1>1, <1>2 DEF RingInv, NothingLostOrDuplicated, RingInit

LEMMA RingInvStep == RingInv /\ [RingNext]_ringVars => RingInv'
<1> SUFFICES ASSUME RingInv, [RingNext]_ringVars PROVE RingInv'
  OBVIOUS
<1>0. RingTypeOK' /\ Count \in Nat
  BY TypeStep, CountAt DEF RingInv, N
<1>1. {At(k) : k \in 0 .. Count - 1} = inflight
      /\ \A j, k \in 0 .. Count - 1 : At(j) = At(k) => j = k
  BY DEF RingInv, NothingLostOrDuplicated
<1>2. SUFFICES /\ {At(k)' : k \in 0 .. Count' - 1} = inflight'
               /\ \A j, k \in 0 .. Count' - 1 : At(j)' = At(k)' => j = k
  BY <1>0 DEF RingInv, NothingLostOrDuplicated
<1>3. ASSUME NEW m \in Messages, Appends(m)
      PROVE  /\ {At(k)' : k \in 0 .. Count' - 1} = inflight'
             /\ \A j, k \in 0 .. Count' - 1 : At(j)' = At(k)' => j = k
  BY <1>0, <1>1, <1>3 DEF Appends
<1>4. CASE Removes
  BY <1>0, <1>1, <1>4 DEF Removes
<1>5. CASE Moves
  BY <1>0, <1>1, <1>5 DEF Moves
<1>6. CASE Leaves
  BY <1>0, <1>1, <1>6 DEF Leaves
<1> QED BY <1>3, <1>4, <1>5, <1>6, RingStep

LEMMA SpecRingInv == RingSpec => []RingInv
BY RingInvInit, RingInvStep, PTL DEF RingSpec

\* Whatever processes send and receive, and however often the main loop moves
\* messages, an accepted message is in the ring exactly once until received.
THEOREM NoLossNoDuplication == RingSpec => []NothingLostOrDuplicated
<1>1. RingInv => NothingLostOrDuplicated
  BY DEF RingInv
<1> QED BY <1>1, SpecRingInv, PTL

\* The ring implements the bounded queue with requeueing.
THEOREM RingImplementsRelayQueue == RingSpec => ImplementsRelayQueue
<1>1. RingInit => AbstractQueue!Init
  <2> SUFFICES ASSUME RingInit PROVE Contents = << >>
    BY DEF AbstractQueue!Init
  <2>1. Count = 0
    BY TypeInit, CountAt DEF RingInit, Used
  <2> QED BY <2>1 DEF Contents
<1>2. RingInv /\ [RingNext]_ringVars =>
        [AbstractQueue!Send \/ AbstractQueue!Receive \/ AbstractQueue!Requeue]_Contents
  <2> SUFFICES ASSUME RingInv, [RingNext]_ringVars
               PROVE  \/ AbstractQueue!Send \/ AbstractQueue!Receive
                      \/ AbstractQueue!Requeue \/ Contents' = Contents
    OBVIOUS
  <2>0. Count \in Nat /\ Len(Contents) = Count /\ Contents' = [k \in 1 .. Count' |-> At(k - 1)']
        /\ \A k \in 1 .. Count : Contents[k] = At(k - 1)
    BY CountAt DEF RingInv, N, Contents
  <2>1. ASSUME NEW m \in Messages, Appends(m) PROVE AbstractQueue!Send
    <3>1. Contents' = Append(Contents, m)
      BY <2>0, <2>1 DEF Appends, Contents
    <3> QED BY <2>0, <2>1, <3>1 DEF AbstractQueue!Send, Appends, N
  <2>2. CASE Removes
    <3>1. Contents' = Tail(Contents) /\ Contents # << >>
      BY <2>0, <2>2 DEF Removes, Contents
    <3> QED BY <3>1 DEF AbstractQueue!Receive
  <2>3. CASE Moves
    <3>1. Contents # << >> /\ Head(Contents) = At(0)
      BY <2>0, <2>3 DEF Moves, Contents
    <3> DEFINE T == [k \in 1 .. Count - 1 |-> At(k)]
    <3>a. Tail(Contents) = T
      BY <2>0, <2>3 DEF Moves, Contents
    <3>b. Contents' = Append(T, At(0))
      BY <2>0, <2>3 DEF Moves
    <3>2. Contents' = Append(Tail(Contents), At(0))
      BY <3>a, <3>b
    <3> QED BY <3>1, <3>2 DEF AbstractQueue!Requeue
  <2>4. CASE Leaves
    BY <2>0, <2>4 DEF Leaves, Contents
  <2> QED BY <2>1, <2>2, <2>3, <2>4, RingStep
<1> QED BY <1>1, <1>2, SpecRingInv, PTL DEF RingSpec, ImplementsRelayQueue, AbstractQueue!RelaySpec

\* A refused send found all but one of the slots taken, and the main loop can
\* always put back what it took.
THEOREM SendRefusedOnlyWhenFull == RingSpec => RefusedOnlyWhenFull
<1>1. RingInv /\ [RingNext]_ringVars =>
        [ /\ Relay => rc' = ECLIB_OK
          /\ \A t \in Processes, m \in Messages :
               Send(t, m) /\ rc' # ECLIB_OK => Count = MAX_IPC_QUEUE - 1 ]_ringVars
  <2> SUFFICES ASSUME RingInv
               PROVE  /\ Relay => rc' = ECLIB_OK
                      /\ \A t \in Processes, m \in Messages :
                           Send(t, m) /\ rc' # ECLIB_OK => Count = MAX_IPC_QUEUE - 1
    OBVIOUS
  <2>0. RingTypeOK
    BY DEF RingInv
  <2>1. Relay => rc' = ECLIB_OK
    BY <2>0, CursorStep, TakeEffect DEF Relay, ipc_send, Put
  <2>2. ASSUME NEW t \in Processes, NEW m \in Messages, Send(t, m), rc' # ECLIB_OK
        PROVE  Count = MAX_IPC_QUEUE - 1
    <3>1. Wrap(queue_tail + 1) = queue_head
      BY <2>0, <2>2, CursorStep DEF Send, ipc_send, Put
    <3>2. Used(queue_head, queue_tail) = N - 1
      BY <2>0, <3>1 DEF RingTypeOK, Slots, Used, Wrap, N
    <3> QED BY <2>0, <3>2, CountAt DEF N
  <2> QED BY <2>1, <2>2
<1> QED BY <1>1, SpecRingInv, PTL DEF RingSpec, RefusedOnlyWhenFull

----------------------------------------------------------------------------
(***************************************************************************)
(* Pages                                                                   *)
(*                                                                         *)
(* The safety properties are not inductive as the runs state them; PageInv *)
(* adds why they hold:                                                     *)
(*   - HintSound: no free page lies below the hint;                        *)
(*   - TablesBuilt: which tables exist at each turn of init_page_tables,   *)
(*     and that paging is off until all of them do.                        *)
(***************************************************************************)
HintSound == \A p \in Pages : p < next_free_page => p \in used

TablesBuilt ==
    /\ call = "idle" => i = -1
    /\ page_tables_initialized = 0 => cr3 = NULL
    /\ cr3 # NULL => cr3 = page_directory
    /\ page_tables_initialized = 1 =>
         \A t \in Tables : page_tables[t] # NULL /\ pde[t] = page_tables[t]
    /\ NeedsInit =>
         \A t \in Tables : t < i => page_tables[t] # NULL /\ pde[t] = page_tables[t]

PageInv ==
    /\ TypeOK
    /\ HintSound
    /\ NoPageSharedOrLost
    /\ TablesBuilt
    /\ StraysOnlyByFlags

USE MaxPagesAssumption, MemoryStartAssumption, TablesAssumption DEF NULL

LEMMA InitPageInv == Init => PageInv
<1> SUFFICES ASSUME Init PROVE PageInv
  OBVIOUS
<1>1. TypeOK
  BY DEF Init, TypeOK, Pages, Tables, VirtualPages, Managed
<1>2. HintSound
  BY DEF Init, HintSound, Pages
<1>3. NoPageSharedOrLost
  BY DEF Init, NoPageSharedOrLost, Frame, Tables
<1>4. TablesBuilt
  BY DEF Init, TablesBuilt, Tables, NeedsInit
<1>5. StraysOnlyByFlags
  BY DEF Init, StraysOnlyByFlags
<1> QED BY <1>1, <1>2, <1>3, <1>4, <1>5 DEF PageInv

\* What an allocation does to the bitmap and the hint: the page was free, it
\* is now marked, and no free page is left below the new hint.
LEMMA AllocFacts ==
  ASSUME TypeOK, HintSound, NEW p \in Pages, mm_alloc_page(p)
  PROVE  /\ p \notin used
         /\ used' = used \cup {p}
         /\ used' \subseteq Pages
         /\ next_free_page' \in 0 .. MAX_PAGES
         /\ HintSound'
         /\ Frame(p) \in Managed
<1>1. p \in next_free_page .. MAX_PAGES - 1 /\ p \notin used
  BY DEF mm_alloc_page, FreeFrom
<1>2. used' = used \cup {p} /\ next_free_page' = p + 1
  BY DEF mm_alloc_page
<1>3. \A q \in Pages : q < p => q \in used
  <2> SUFFICES ASSUME NEW q \in Pages, q < p, q \notin used PROVE FALSE
    OBVIOUS
  <2>1. CASE q < next_free_page
    BY <2>1 DEF HintSound
  <2>2. CASE q >= next_free_page
    <3>1. q \in FreeFrom
      BY <2>2 DEF FreeFrom, TypeOK, Pages
    <3> QED BY <3>1 DEF mm_alloc_page, Pages
  <2> QED BY <2>1, <2>2 DEF TypeOK, Pages
<1>4. HintSound'
  BY <1>2, <1>3 DEF HintSound, Pages
<1> QED BY <1>1, <1>2, <1>4 DEF TypeOK, Pages, Frame, Managed

LEMMA FramesRange == Managed \cup {0} \subseteq 0 .. FRAMES - 1
BY FramesAssumption DEF Managed

LEMMA StepPageInv == PageInv /\ [Next]_vars => PageInv'
<1> SUFFICES ASSUME PageInv, [Next]_vars PROVE PageInv'
  OBVIOUS
<1>0. TypeOK /\ HintSound /\ NoPageSharedOrLost /\ TablesBuilt /\ StraysOnlyByFlags
  BY DEF PageInv
<1>1. CASE AllocPage
  <2> PICK p \in Pages : mm_alloc_page(p) /\ held' = held \cup {p}
    BY <1>1 DEF AllocPage
  <2>1. p \notin used /\ used' = used \cup {p} /\ used' \subseteq Pages
        /\ next_free_page' \in 0 .. MAX_PAGES /\ HintSound'
    BY <1>0, AllocFacts
  <2>2. UNCHANGED <<page_directory, page_tables, page_tables_initialized, pde,
                    pte, cr3, call, i, args, strayed>>
    BY <1>1 DEF AllocPage
  <2>3. TypeOK'
    BY <1>0, <2>1, <2>2 DEF TypeOK
  <2>4. NoPageSharedOrLost'
    <3>1. \A f \in {page_directory} \cup {page_tables[t] : t \in Tables} : f # Frame(p)
      BY <1>0, <2>1 DEF NoPageSharedOrLost, Frame, Pages
    <3> QED BY <1>0, <2>1, <2>2, <3>1 DEF NoPageSharedOrLost
  <2> QED BY <1>0, <2>1, <2>2, <2>3, <2>4 DEF PageInv, TablesBuilt, StraysOnlyByFlags, NeedsInit
<1>2. CASE FreePage
  <2> PICK f \in {Frame(p) : p \in held} \cup {NULL, MEMORY_START + MAX_PAGES} :
             mm_free_page(f) /\ held' = held \ {f - MEMORY_START}
    BY <1>2 DEF FreePage
  <2>2. UNCHANGED <<page_directory, page_tables, page_tables_initialized, pde,
                    pte, cr3, call, i, args, strayed>>
    BY <1>2 DEF FreePage
  <2>3. CASE f \in Managed
    <3> DEFINE q == f - MEMORY_START
    <3>1. q \in Pages /\ q \in held /\ f = Frame(q)
      BY <2>3, <1>0 DEF Frame, Managed, Pages, TypeOK
    <3>2. used' = used \ {q} /\ held' = held \ {q}
          /\ next_free_page' = IF q < next_free_page THEN q ELSE next_free_page
      BY <2>3 DEF mm_free_page
    <3> HIDE DEF q
    <3>3. TypeOK'
      BY <1>0, <2>2, <3>1, <3>2 DEF TypeOK, Pages
    <3>4. HintSound'
      BY <1>0, <3>1, <3>2 DEF HintSound, Pages, TypeOK
    <3>5. NoPageSharedOrLost'
      <4>1. \A g \in {page_directory} \cup {page_tables[t] : t \in Tables} : g # Frame(q)
        BY <1>0, <3>1 DEF NoPageSharedOrLost
      <4>2. \A g \in ({page_directory} \cup {page_tables[t] : t \in Tables}) \ {NULL} :
                g - MEMORY_START # q
        BY <4>1, <1>0, <3>1 DEF Frame, TypeOK, Pages, Managed
      <4> QED BY <1>0, <2>2, <3>2, <4>2 DEF NoPageSharedOrLost
    <3> QED BY <1>0, <2>2, <3>3, <3>4, <3>5 DEF PageInv, TablesBuilt, StraysOnlyByFlags, NeedsInit
  <2>4. CASE f \notin Managed
    <3>1. UNCHANGED <<used, next_free_page>>
      BY <2>4 DEF mm_free_page
    <3>2. held' = held
      BY <1>0, <2>4 DEF Managed, Pages, TypeOK, Frame
    <3> QED BY <1>0, <2>2, <3>1, <3>2 DEF PageInv, TypeOK, HintSound,
          NoPageSharedOrLost, TablesBuilt, StraysOnlyByFlags, NeedsInit
  <2> QED BY <2>3, <2>4
<1>3. CASE CheckMemory
  <2>1. next_free_page' = 0 /\ next_free_page' \in 0 .. MAX_PAGES
        /\ UNCHANGED <<used, held, page_directory, page_tables,
                       page_tables_initialized, pde, pte, cr3, call, i, args, strayed>>
    BY <1>3 DEF CheckMemory
  <2>2. TypeOK'
    BY <1>0, <2>1 DEF TypeOK
  <2>3. HintSound'
    BY <2>1 DEF HintSound, Pages
  <2>4. NoPageSharedOrLost' /\ TablesBuilt' /\ StraysOnlyByFlags'
    BY <1>0, <2>1 DEF NoPageSharedOrLost, TablesBuilt, StraysOnlyByFlags, NeedsInit
  <2> QED BY <2>2, <2>3, <2>4 DEF PageInv
<1>4. CASE CallMapPage
  <2>1. args' \in Nat \X Nat \X (FlagFrames \cup {0})
    BY <1>4 DEF CallMapPage, MapArgs
  <2>2. UNCHANGED <<used, next_free_page, held, page_directory, page_tables,
                    page_tables_initialized, pde, pte, cr3, i, strayed>>
        /\ call = "idle" /\ call' = "map_page"
    BY <1>4 DEF CallMapPage
  <2>3. TypeOK'
    BY <1>0, <2>1, <2>2 DEF TypeOK
  <2>4. TablesBuilt'
    BY <1>0, <2>2 DEF TablesBuilt, NeedsInit, Tables
  <2>5. HintSound' /\ NoPageSharedOrLost' /\ StraysOnlyByFlags'
    BY <1>0, <2>2 DEF HintSound, NoPageSharedOrLost, StraysOnlyByFlags
  <2> QED BY <2>3, <2>4, <2>5 DEF PageInv
<1>5. CASE InitDirectory
  <2>1. UNCHANGED <<held, page_tables, page_tables_initialized, pte, cr3, args,
                  strayed>>
        /\ page_tables_initialized = 0 /\ cr3 = NULL /\ call # "idle"
    BY <1>0, <1>5 DEF InitDirectory, NeedsInit, TablesBuilt
  <2>2. CASE OutOfMemory /\ page_directory' = NULL /\ call' = "idle" /\ UNCHANGED <<pde, i>>
    BY <1>0, <1>5, <2>1, <2>2 DEF OutOfMemory, InitDirectory, PageInv, TypeOK, HintSound,
        NoPageSharedOrLost, TablesBuilt, StraysOnlyByFlags, NeedsInit, Frame, Pages
  <2>3. CASE /\ \E p \in Pages : mm_alloc_page(p) /\ page_directory' = Frame(p)
             /\ pde' = [t \in Tables |-> NULL] /\ i' = 0 /\ UNCHANGED call
    <3> PICK p \in Pages : mm_alloc_page(p) /\ page_directory' = Frame(p)
      BY <2>3
    <3>1. p \notin used /\ used' = used \cup {p} /\ used' \subseteq Pages
          /\ next_free_page' \in 0 .. MAX_PAGES /\ HintSound' /\ Frame(p) \in Managed
      BY <1>0, AllocFacts
    <3>2. TypeOK'
      BY <1>0, <2>1, <2>3, <3>1 DEF TypeOK
    <3>3. NoPageSharedOrLost'
      BY <1>0, <2>1, <2>3, <3>1 DEF NoPageSharedOrLost, Frame, Pages, TypeOK
    <3>4. TablesBuilt'
      BY <1>0, <2>1, <2>3 DEF TablesBuilt, NeedsInit, Tables
    <3> QED BY <1>0, <2>1, <3>1, <3>2, <3>3, <3>4 DEF PageInv, StraysOnlyByFlags
  <2> QED BY <1>5, <2>2, <2>3 DEF InitDirectory
<1>6. CASE InitTable
  <2>1. UNCHANGED <<held, page_directory, cr3, args>> /\ i \in Tables
        /\ page_tables_initialized = 0 /\ cr3 = NULL /\ call # "idle"
    BY <1>0, <1>6 DEF InitTable, NeedsInit, TablesBuilt
  <2>2. CASE OutOfMemory /\ page_tables' = [page_tables EXCEPT ![i] = NULL]
             /\ call' = "idle" /\ i' = -1 /\ UNCHANGED <<page_tables_initialized, pde, pte, strayed>>
    <3>1. UNCHANGED <<used, next_free_page>>
      BY <2>2 DEF OutOfMemory
    <3>2. TypeOK'
      BY <1>0, <2>1, <2>2, <3>1 DEF TypeOK, Tables
    <3>3. NoPageSharedOrLost'
      BY <1>0, <2>1, <2>2, <3>1 DEF NoPageSharedOrLost, TypeOK, Frame, Pages
    <3> QED BY <1>0, <2>1, <2>2, <3>1, <3>2, <3>3 DEF PageInv, HintSound,
          TablesBuilt, StraysOnlyByFlags, NeedsInit
  <2>3. CASE /\ \E p \in Pages :
                   /\ mm_alloc_page(p)
                   /\ page_tables' = [page_tables EXCEPT ![i] = Frame(p)]
                   /\ pde' = [pde EXCEPT ![i] = Frame(p)]
             /\ pte' = [v \in VirtualPages |->
                          IF v \in TableRange(i) THEN IdentityEntry(v) ELSE pte[v]]
             /\ strayed' = strayed \ TableRange(i)
             /\ i' = i + 1
             /\ page_tables_initialized' = IF i = NTABLES - 1 THEN 1 ELSE 0
             /\ UNCHANGED call
    <3> PICK p \in Pages : /\ mm_alloc_page(p)
                           /\ page_tables' = [page_tables EXCEPT ![i] = Frame(p)]
                           /\ pde' = [pde EXCEPT ![i] = Frame(p)]
      BY <2>3
    <3>1. p \notin used /\ used' = used \cup {p} /\ used' \subseteq Pages
          /\ next_free_page' \in 0 .. MAX_PAGES /\ HintSound' /\ Frame(p) \in Managed
      BY <1>0, AllocFacts
    <3>2. pte' \in [VirtualPages -> Nat] /\ strayed' \subseteq VirtualPages
          /\ StraysOnlyByFlags'
      <4>1. \A v \in VirtualPages :
              pte'[v] = IF v \in TableRange(i) THEN IdentityEntry(v) ELSE pte[v]
        BY <2>3
      <4>2. \A v \in VirtualPages : IdentityEntry(v) \in Nat \cap (Managed \cup {NULL})
        BY DEF IdentityEntry, Managed
      <4>3. pte' \in [VirtualPages -> Nat]
        BY <1>0, <2>3, <4>2 DEF TypeOK
      <4>4. StraysOnlyByFlags'
        BY <1>0, <2>3, <4>1, <4>2 DEF StraysOnlyByFlags
      <4> QED BY <1>0, <2>3, <4>3, <4>4 DEF TypeOK
    <3>3. TypeOK'
      BY <1>0, <2>1, <2>3, <3>1, <3>2 DEF TypeOK, Tables
    <3>4. NoPageSharedOrLost'
      <4>1. \A t \in Tables : page_tables[t] # Frame(p)
        BY <1>0, <3>1 DEF NoPageSharedOrLost, Frame, Pages
      <4>2. page_directory # Frame(p)
        BY <1>0, <3>1 DEF NoPageSharedOrLost, Frame, Pages
      <4>3. p \notin held
        BY <1>0, <3>1 DEF NoPageSharedOrLost
      <4>4. \A t \in Tables : page_tables'[t] = IF t = i THEN Frame(p) ELSE page_tables[t]
        BY <1>0, <2>1 DEF TypeOK
      <4>5. {Frame(q) : q \in held} \cap
              ({page_directory} \cup {page_tables'[t] : t \in Tables}) = {}
        <5>1. \A q \in held : Frame(q) # page_directory
          BY <1>0 DEF NoPageSharedOrLost
        <5>2. ASSUME NEW q \in held, NEW t \in Tables PROVE Frame(q) # page_tables'[t]
          <6>1. Frame(q) # page_tables[t]
            BY <1>0 DEF NoPageSharedOrLost
          <6>2. q \in Pages /\ p \in Pages /\ q # p
            BY <1>0, <4>3 DEF TypeOK
          <6>3. Frame(q) # Frame(p)
            BY <6>2, MemoryStartAssumption DEF Frame, Pages
          <6> QED BY <4>4, <6>1, <6>3
        <5> QED BY <5>1, <5>2
      <4>6. \A t \in Tables : page_tables'[t] # NULL =>
              /\ page_tables'[t] # page_directory
              /\ \A u \in Tables \ {t} : page_tables'[u] # page_tables'[t]
        BY <1>0, <4>1, <4>2, <4>4 DEF NoPageSharedOrLost
      <4>7. \A f \in ({page_directory} \cup {page_tables'[t] : t \in Tables}) \ {NULL} :
              f - MEMORY_START \in used'
        BY <1>0, <3>1, <4>4 DEF NoPageSharedOrLost, Frame, Pages
      <4> QED BY <1>0, <2>1, <3>1, <4>5, <4>6, <4>7 DEF NoPageSharedOrLost
    <3>5. TablesBuilt'
      <4>1. \A t \in Tables : t < i + 1 => page_tables'[t] # NULL /\ pde'[t] = page_tables'[t]
        BY <1>0, <1>6, <2>1, <3>1 DEF TablesBuilt, TypeOK, Tables, Managed, NeedsInit, InitTable
      <4>2. i = NTABLES - 1 => \A t \in Tables : t < i + 1
        BY <2>1 DEF Tables
      <4> QED BY <2>1, <2>3, <4>1, <4>2 DEF TablesBuilt, NeedsInit, Tables
    <3> QED BY <1>0, <3>1, <3>2, <3>3, <3>4, <3>5 DEF PageInv
  <2> QED BY <1>6, <2>2, <2>3 DEF InitTable
<1>7. CASE EnablePaging
  <2>1. UNCHANGED <<used, next_free_page, held, page_directory, page_tables,
                    page_tables_initialized, pde, pte, args, strayed>>
        /\ page_tables_initialized = 1 /\ cr3' = page_directory
        /\ call' = "idle" /\ i' = -1
    BY <1>7 DEF EnablePaging
  <2>2. TypeOK'
    BY <1>0, <2>1 DEF TypeOK
  <2>3. TablesBuilt'
    BY <1>0, <2>1 DEF TablesBuilt, NeedsInit
  <2>4. HintSound' /\ NoPageSharedOrLost' /\ StraysOnlyByFlags'
    BY <1>0, <2>1 DEF HintSound, NoPageSharedOrLost, StraysOnlyByFlags
  <2> QED BY <2>2, <2>3, <2>4 DEF PageInv
<1>8. CASE MapPage
  <2>1. StraysOnlyByFlags' /\ pte' \in [VirtualPages -> Nat]
        /\ strayed' \subseteq VirtualPages
    <3> DEFINE v == args[1]
               f == args[2]
               flags == args[3]
    <3>1. CASE Mappable(v, f)
      <4>1. v \in VirtualPages /\ f \in Managed /\ flags \in FlagFrames \cup {0}
        BY <1>0, <3>1 DEF TypeOK, Mappable, VirtualPages
      <4>2. pte' = [pte EXCEPT ![v] = WithFlags(f, flags)]
            /\ strayed' = IF flags = 0 THEN strayed \ {v} ELSE strayed \cup {v}
        BY <1>8, <3>1 DEF MapPage
      <4> HIDE DEF v, f, flags
      <4>3. f \in 0 .. FRAMES - 1 /\ flags \in 0 .. FRAMES - 1
        BY <4>1, FramesAssumption, FramesRange
      <4>4. WithFlags(f, flags) \in 0 .. FRAMES - 1 /\ WithFlags(f, 0) = f
        BY <4>3, FlagsAssumption, Zenon
      <4> DEFINE entry == WithFlags(f, flags)
      <4>5. pte' = [pte EXCEPT ![v] = entry] /\ entry \in Nat
            /\ (flags = 0 => entry \in Managed)
        BY <4>1, <4>2, <4>4, FramesAssumption
      <4> HIDE DEF entry
      <4> QED BY <1>0, <4>1, <4>2, <4>5 DEF TypeOK, StraysOnlyByFlags
    <3>2. CASE ~Mappable(v, f)
      BY <1>0, <1>8, <3>2 DEF MapPage, TypeOK, StraysOnlyByFlags
    <3> QED BY <3>1, <3>2
  <2>2. UNCHANGED <<used, next_free_page, held, page_directory, page_tables,
                    page_tables_initialized, pde, cr3>>
        /\ call' = "idle" /\ i' = -1 /\ args' = <<0, 0, 0>>
    BY <1>8 DEF MapPage
  <2>3. TypeOK'
    BY <1>0, <2>1, <2>2 DEF TypeOK
  <2>4. TablesBuilt'
    BY <1>0, <2>2 DEF TablesBuilt, NeedsInit
  <2>5. HintSound' /\ NoPageSharedOrLost'
    BY <1>0, <2>2 DEF HintSound, NoPageSharedOrLost
  <2> QED BY <2>1, <2>3, <2>4, <2>5 DEF PageInv
<1>9. CASE UNCHANGED vars
  BY <1>0, <1>9 DEF vars, PageInv, TypeOK, HintSound, NoPageSharedOrLost,
        TablesBuilt, StraysOnlyByFlags, NeedsInit
<1> QED BY <1>1, <1>2, <1>3, <1>4, <1>5, <1>6, <1>7, <1>8, <1>9 DEF Next

LEMMA SpecPageInv == Spec => []PageInv
BY InitPageInv, StepPageInv, PTL DEF Spec

\* The allocator reports "out of memory" only when every page is taken.
THEOREM AllocatorComplete == Spec => []AllocFailsOnlyWhenFull
<1>1. PageInv => AllocFailsOnlyWhenFull
  <2> SUFFICES ASSUME TypeOK, HintSound, FreeFrom = {}, NEW p \in Pages PROVE p \in used
    BY DEF PageInv, AllocFailsOnlyWhenFull, TypeOK
  <2>1. CASE p < next_free_page
    BY <2>1 DEF HintSound
  <2>2. CASE p >= next_free_page
    <3>1. p \in next_free_page .. MAX_PAGES - 1
      BY <2>2 DEF Pages, TypeOK
    <3> QED BY <3>1 DEF FreeFrom
  <2> QED BY <2>1, <2>2 DEF Pages, TypeOK
<1> QED BY <1>1, SpecPageInv, PTL

\* No page is handed out twice, and no page in use is unmarked in the bitmap.
THEOREM NoPageTakenTwice == Spec => []NoPageSharedOrLost
<1>1. PageInv => NoPageSharedOrLost
  BY DEF PageInv
<1> QED BY <1>1, SpecPageInv, PTL

\* The CPU walks the tables that mm_map_page writes, and they map managed
\* memory only.
THEOREM PagingSound == Spec => []PagingSafe
<1>1. PageInv => PagingSafe
  BY DEF PageInv, TablesBuilt, TypeOK, PagingSafe, PagingWalksLiveTables
<1> QED BY <1>1, SpecPageInv, PTL
====
