---- MODULE InitService ----
(***************************************************************************)
(* The init process of the kernel image (src/kernel/init.c): the service   *)
(* registry, its dispatch loop, and the clients that talk to it through    *)
(* the kernel's message queue.                                             *)
(*                                                                         *)
(* The queue is the bounded sequence that KernelProofs shows the ring of   *)
(* ipc.c to implement; every process, init and the main loop included,     *)
(* takes what is at its head.  Clients are outside the repository: they    *)
(* are register_with_init and lookup_service of                            *)
(* docs/INIT-SERVICE-INTEGRATION.md.  As printed there they leave          *)
(* msg.source 0, and the kernel does not fill it in; a client that knows   *)
(* ipc.h may put its pid there.  Documented clients never do, the others   *)
(* do so in some requests.                                                 *)
(*                                                                         *)
(* Table entries are never freed, so the active ones are a prefix of       *)
(* service_table: a sequence.                                              *)
(***************************************************************************)
EXTENDS Naturals, Sequences

CONSTANTS
    MAX_SERVICES,   \* slots of service_table
    Capacity,       \* messages the kernel's queue can hold
    Clients,        \* pids of the other processes
    Documented,     \* clients whose code is that of the document
    ServiceIds,     \* service ids
    MaxRequests     \* bound of the model: requests clients ever make

INIT_PID == 1

ASSUME SizesAssumption == MAX_SERVICES \in Nat /\ Capacity \in Nat /\ MaxRequests \in Nat
ASSUME PidsAssumption == Clients \subseteq Nat \ {0, INIT_PID} /\ ServiceIds \subseteq Nat \ {0}

VARIABLES
    queue,          \* the kernel's message queue
    service_table,
    pc,             \* where init's loop is: "receive" or "dispatch"
    msg,            \* init's local message buffer
    client,         \* what each client is doing
    requests,       \* history: every request a client made
    found           \* history: the last answer a lookup_service call returned

initVars == <<queue, service_table, pc, msg, client, requests, found>>

Messages == [type : {"REGISTER", "LOOKUP", "REPLY", "NONE"},
             source : Nat, target : Nat, data : Nat, req : Nat]
NoMsg == [type |-> "NONE", source |-> 0, target |-> 0, data |-> 0, req |-> 0]
NotAsking == [pc |-> "idle", req |-> 0]

RegistryInit ==
    /\ queue = << >> /\ service_table = << >>
    /\ pc = "receive" /\ msg = NoMsg
    /\ client = [c \in Clients |-> NotAsking]
    /\ requests = << >> /\ found = [req |-> 0, pid |-> 0, own |-> FALSE]

\* ipc_send: nobody here looks at its result, a full queue drops the message.
Sent(q, m) == IF Len(q) < Capacity THEN Append(q, m) ELSE q

----------------------------------------------------------------------------
(***************************************************************************)
(* Registry                                                                *)
(***************************************************************************)
registry_register_overwrite(service_id, provider_pid, req) ==
    LET entry == [service_id |-> service_id, provider_pid |-> provider_pid, req |-> req]
        same == {n \in DOMAIN service_table : service_table[n].service_id = service_id}
    IN  service_table' = IF same # {} THEN [n \in DOMAIN service_table |->
                                              IF n \in same THEN entry ELSE service_table[n]]
                         ELSE Append(service_table, entry)

registry_register(service_id, provider_pid, req) ==
    service_table' =
        IF Len(service_table) < MAX_SERVICES
        THEN Append(service_table, [service_id |-> service_id,
                                    provider_pid |-> provider_pid, req |-> req])
        ELSE service_table

Matches(service_id) ==
    {n \in DOMAIN service_table : service_table[n].service_id = service_id}

registry_lookup(service_id) ==
    IF Matches(service_id) = {} THEN 0
    ELSE service_table[CHOOSE n \in Matches(service_id) :
                         \A k \in Matches(service_id) : n <= k].provider_pid

----------------------------------------------------------------------------
(***************************************************************************)
(* init_loop                                                               *)
(***************************************************************************)

\* SYS_IPC_RECEIVE; when it fails, init yields and goes round.
InitReceive ==
    /\ pc = "receive"
    /\ queue # << >>
    /\ msg' = Head(queue) /\ queue' = Tail(queue)
    /\ pc' = "dispatch"
    /\ UNCHANGED <<service_table, client, requests, found>>

InitYield ==
    /\ pc = "receive"
    /\ queue = << >>
    /\ UNCHANGED initVars

DispatchRegister ==
    /\ pc = "dispatch" /\ msg.type = "REGISTER"
    /\ registry_register(msg.data, msg.source, msg.req)
    /\ pc' = "receive"
    /\ UNCHANGED <<queue, msg, client, requests, found>>

Reply_data_kept(m, provider) ==
    [type |-> "REPLY", source |-> 0, target |-> m.source, data |-> m.data, req |-> m.req]

Reply(m, provider) ==
    [type |-> "REPLY", source |-> 0, target |-> m.source, data |-> provider, req |-> m.req]

DispatchLookup ==
    /\ pc = "dispatch" /\ msg.type = "LOOKUP"
    /\ queue' = Sent(queue, Reply(msg, registry_lookup(msg.data)))
    /\ pc' = "receive"
    /\ UNCHANGED <<service_table, msg, client, requests, found>>

DispatchUnknown ==
    /\ pc = "dispatch" /\ msg.type \notin {"REGISTER", "LOOKUP"}
    /\ pc' = "receive"
    /\ UNCHANGED <<queue, service_table, msg, client, requests, found>>

----------------------------------------------------------------------------
(***************************************************************************)
(* The rest of the system                                                  *)
(***************************************************************************)
\* One turn of kernel_main's loop puts the oldest message at the end.
Relay ==
    /\ queue # << >>
    /\ queue' = Append(Tail(queue), Head(queue))
    /\ UNCHANGED <<service_table, pc, msg, client, requests, found>>

\* What a client may have in msg.source.
Sources(c) == IF c \in Documented THEN {0} ELSE {0, c}

Request(type, source, s) ==
    [type |-> type, source |-> source, target |-> INIT_PID, data |-> s,
     req |-> Len(requests) + 1]

Ask(type, c, source, s) ==
    /\ client[c] = NotAsking /\ Len(requests) < MaxRequests
    /\ requests' = Append(requests, [type |-> type, from |-> c, source |-> source, service |-> s])
    /\ queue' = Sent(queue, Request(type, source, s))
    /\ UNCHANGED <<service_table, pc, msg, found>>

register_with_init(c, source, s) == Ask("REGISTER", c, source, s) /\ UNCHANGED client

lookup_service(c, source, s) ==
    /\ Ask("LOOKUP", c, source, s)
    /\ client' = [client EXCEPT ![c] = [pc |-> "reply", req |-> Len(requests) + 1]]

\* The second half of lookup_service: one SYS_IPC_RECEIVE, whose result is not
\* looked at; an empty queue leaves the zeroed buffer.
LookupReturns(c) ==
    /\ client[c].pc = "reply"
    /\ found' = [req |-> client[c].req,
                 pid |-> IF queue = << >> THEN 0 ELSE Head(queue).data,
                 own |-> queue # << >> /\ Head(queue).type = "REPLY"
                            /\ Head(queue).target = c]
    /\ queue' = IF queue = << >> THEN queue ELSE Tail(queue)
    /\ client' = [client EXCEPT ![c] = NotAsking]
    /\ UNCHANGED <<service_table, pc, msg, requests>>

InitNext ==
    \/ InitReceive \/ InitYield \/ DispatchRegister \/ DispatchLookup \/ DispatchUnknown
    \/ Relay
    \/ \E c \in Clients :
          \/ \E source \in Sources(c), s \in ServiceIds :
                register_with_init(c, source, s) \/ lookup_service(c, source, s)
          \/ LookupReturns(c)

InitSpec == RegistryInit /\ [][InitNext]_initVars

----------------------------------------------------------------------------
Pending == {queue[n] : n \in DOMAIN queue} \cup (IF pc = "dispatch" THEN {msg} ELSE {})

InitTypeOK ==
    /\ queue \in Seq(Messages) /\ Len(queue) <= Capacity
    /\ service_table \in Seq([service_id : Nat, provider_pid : Nat, req : Nat])
    /\ Len(service_table) <= MAX_SERVICES
    /\ pc \in {"receive", "dispatch"} /\ msg \in Messages
    /\ client \in [Clients -> [pc : {"idle", "reply"}, req : Nat]]
    /\ requests \in Seq([type : {"REGISTER", "LOOKUP"}, from : Clients, source : Nat,
                        service : ServiceIds])
    /\ found \in [req : Nat, pid : Nat, own : BOOLEAN]

\* init.c: "Maintain a simple service table (id -> source PID)".  Every entry
\* stands for one registration that was really made, under the PID its message
\* gave (0 for the documented register_with_init), and no registration occupies
\* two slots, however often the main loop moved it and whatever was left in
\* init's buffer by the message before.
RegistryTruthful ==
    /\ \A n \in DOMAIN service_table :
          LET entry == service_table[n]
              asked == requests[entry.req]
          IN  /\ asked.type = "REGISTER" /\ asked.service = entry.service_id
              /\ asked.source = entry.provider_pid
    /\ \A n, k \in DOMAIN service_table :
          service_table[n].req = service_table[k].req => n = k

\* A reply in the queue answers a lookup once, goes to the PID that the lookup
\* gave, so to nobody when it gave none, and names the provider the registry
\* still holds.
RepliesTruthful ==
    \A n \in DOMAIN queue : queue[n].type = "REPLY" =>
        LET asked == requests[queue[n].req] IN
        /\ asked.type = "LOOKUP" /\ asked.source = queue[n].target
        /\ queue[n].data \in {0, registry_lookup(asked.service)}
        /\ \A k \in DOMAIN queue : queue[k].req = queue[n].req => k = n

\* A service that was found once is found for ever at the same provider: a
\* second registration of the service never redirects its clients.
LookupStable ==
    [][\A s \in ServiceIds : registry_lookup(s) # 0 => registry_lookup(s)' = registry_lookup(s)]_initVars

\* lookup_service returns the data of whatever message it takes.  When that is a
\* reply to this client (own), it is 0 or a process that registered a service
\* with its PID, and the service asked for unless an earlier lookup of this
\* client is still unanswered.  Nothing is said of the documented clients here:
\* no reply is addressed to them.
OwnReplyNamesProvider ==
    found.own /\ found.pid # 0 =>
        \E n \in DOMAIN requests :
            /\ requests[n].type = "REGISTER" /\ requests[n].from = found.pid
            /\ requests[n].source = found.pid
            /\ \/ requests[n].service = requests[found.req].service
               \/ \E k \in DOMAIN requests :
                     /\ k < found.req /\ requests[k].type = "LOOKUP"
                     /\ requests[k].from = requests[found.req].from
                     /\ requests[k].service = requests[n].service

\* The registry and its replies say who registered what, however requests,
\* replies and relayed messages share the ring.
RegistryCorrect == InitTypeOK /\ RegistryTruthful /\ RepliesTruthful /\ OwnReplyNamesProvider
====
