---- MODULE MessageBus ----
(***************************************************************************)
(* The microkernel of the ESMCP mail server: kernel/MessageBus.java and    *)
(* the life of a service thread, kernel/Service.java.                      *)
(*                                                                         *)
(* A request is the message of one sendMessage or broadcastMessage call;   *)
(* message ids are UUIDs, so a request stands for its id.  Callers run in  *)
(* threads of their own, deliveries in threads of the executor, and each   *)
(* service has one thread that takes messages from its inbox.  Each access *)
(* to a concurrent map, queue or future is a step; a test of a running     *)
(* flag is part of the access it decides.                                  *)
(***************************************************************************)
EXTENDS Naturals, Sequences

CONSTANTS
    Requests,
    Services,
    to         \* addressee of each request: a name, registered or not

ASSUME AddressAssumption == to \in [Requests -> Services]

VARIABLES
    bus,            \* "new", "running", or "down" once shutdown has begun
    executor_open,  \* the executor accepts tasks
    services,       \* names in the services map
    service,        \* state of each Service object
    inbox,          \* messages each service has received and not taken
    thread,         \* what each service thread is doing
    deliveries,     \* <<request, service>> of the submitted tasks
    call,           \* where the caller of each request is
    pendingRequests,
    future,         \* the CompletableFuture of a call: "empty" or "done"
    handled         \* history: how often each service was given each request to handle

vars == <<bus, executor_open, services, service, inbox, thread, deliveries,
          call, pendingRequests, future, handled>>

busVars == <<bus, executor_open, services>>
callVars == <<call, pendingRequests, future>>
serviceVars == <<service, inbox, thread>>

\* A service thread is blocked in inbox.take, at the step of the loop that
\* follows it for some request, or has left the loop.
Taking == [at |-> "take"]
Exited == [at |-> "exited"]
At(step, r) == [at |-> step, req |-> r]

Init ==
    /\ bus = "new" /\ executor_open = TRUE /\ services = {}
    /\ service = [s \in Services |-> "new"]
    /\ inbox = [s \in Services |-> << >>]
    /\ thread = [s \in Services |-> Exited]
    /\ deliveries = {} /\ handled = [s \in Services |-> [r \in Requests |-> 0]]
    /\ call = [r \in Requests |-> "none"]
    /\ pendingRequests = {} /\ future = [r \in Requests |-> "empty"]

----------------------------------------------------------------------------
(***************************************************************************)
(* Starting and stopping                                                   *)
(***************************************************************************)
start ==
    /\ bus = "new"
    /\ bus' = "running"
    /\ UNCHANGED <<executor_open, services, serviceVars, deliveries, callVars, handled>>

\* A name is registered once, with a Service object of its own.
registerService(s) ==
    /\ service[s] = "new" /\ bus # "down"
    /\ services' = services \cup {s}
    /\ service' = [service EXCEPT ![s] = "running"]
    /\ thread' = [thread EXCEPT ![s] = Taking]
    /\ UNCHANGED <<bus, executor_open, inbox, deliveries, callVars, handled>>

\* Service.stop clears the running flag, then interrupts the thread, which
\* notices it in inbox.take only.
Stop(s) == service' = [service EXCEPT ![s] = "stopped"]

Interrupt(s) ==
    /\ service[s] = "stopped"
    /\ service' = [service EXCEPT ![s] = "interrupted"]
    /\ UNCHANGED <<busVars, inbox, thread, deliveries, callVars, handled>>

unregisterService(s) ==
    /\ s \in services /\ service[s] = "running"
    /\ services' = services \ {s}
    /\ Stop(s)
    /\ UNCHANGED <<bus, executor_open, inbox, thread, deliveries, callVars, handled>>

shutdown ==
    /\ bus = "running"
    /\ bus' = "down"
    /\ UNCHANGED <<executor_open, services, serviceVars, deliveries, callVars, handled>>

\* The rest of shutdown: stop every service in turn, then close the executor.
\* Deliveries already submitted still run: each has a thread and never blocks.
ShutdownService(s) ==
    /\ bus = "down" /\ s \in services /\ service[s] = "running"
    /\ Stop(s)
    /\ UNCHANGED <<busVars, inbox, thread, deliveries, callVars, handled>>

ShutdownExecutor ==
    /\ bus = "down" /\ executor_open
    /\ \A s \in services : service[s] = "interrupted"
    /\ executor_open' = FALSE
    /\ UNCHANGED <<bus, services, serviceVars, deliveries, callVars, handled>>

----------------------------------------------------------------------------
(***************************************************************************)
(* sendMessage                                                             *)
(***************************************************************************)
\* The bus is not running (an exception) or nobody has the name (an error).
Refuse(r) ==
    /\ call[r] = "none"
    /\ bus # "running" \/ to[r] \notin services
    /\ call' = [call EXCEPT ![r] = "refused"]
    /\ UNCHANGED <<busVars, serviceVars, deliveries, pendingRequests, future, handled>>

AddPending(r) ==
    /\ call[r] = "none"
    /\ bus = "running" /\ to[r] \in services
    /\ pendingRequests' = pendingRequests \cup {r}
    /\ call' = [call EXCEPT ![r] = "submit"]
    /\ UNCHANGED <<busVars, serviceVars, deliveries, future, handled>>

\* executor.submit throws when the executor was closed in between; the entry
\* in pendingRequests stays.
Submit(r) ==
    /\ call[r] = "submit"
    /\ \/ /\ executor_open
          /\ deliveries' = deliveries \cup {<<r, to[r]>>}
          /\ call' = [call EXCEPT ![r] = "waiting"]
       \/ /\ ~executor_open
          /\ call' = [call EXCEPT ![r] = "rejected"]
          /\ UNCHANGED deliveries
    /\ UNCHANGED <<busVars, serviceVars, pendingRequests, future, handled>>

\* future.get returns the response, or gives up after ten seconds.
Return(r) ==
    /\ call[r] = "waiting" /\ future[r] = "done"
    /\ call' = [call EXCEPT ![r] = "answered"]
    /\ pendingRequests' = pendingRequests \ {r}
    /\ UNCHANGED <<busVars, serviceVars, deliveries, future, handled>>

Timeout_entry_kept(r) ==
    /\ call[r] = "waiting" /\ future[r] = "empty"
    /\ call' = [call EXCEPT ![r] = "timeout"]
    /\ UNCHANGED <<busVars, serviceVars, deliveries, pendingRequests, future, handled>>

Timeout(r) ==
    /\ call[r] = "waiting" /\ future[r] = "empty"
    /\ call' = [call EXCEPT ![r] = "timeout"]
    /\ pendingRequests' = pendingRequests \ {r}
    /\ UNCHANGED <<busVars, serviceVars, deliveries, future, handled>>

\* broadcastMessage: a task per service, no pending entry.
broadcastMessage(r) ==
    /\ call[r] = "none" /\ executor_open
    /\ deliveries' = deliveries \cup ({r} \X services)
    /\ call' = [call EXCEPT ![r] = "broadcast"]
    /\ UNCHANGED <<busVars, serviceVars, pendingRequests, future, handled>>

\* An executor thread runs targetService.receive.
Deliver_twice(r, s) ==
    /\ <<r, s>> \in deliveries
    /\ inbox' = [inbox EXCEPT ![s] = Append(Append(@, r), r)]
    /\ deliveries' = deliveries \ {<<r, s>>}
    /\ UNCHANGED <<busVars, service, thread, callVars, handled>>

Deliver(r, s) ==
    /\ <<r, s>> \in deliveries
    /\ inbox' = [inbox EXCEPT ![s] = Append(@, r)]
    /\ deliveries' = deliveries \ {<<r, s>>}
    /\ UNCHANGED <<busVars, service, thread, callVars, handled>>

----------------------------------------------------------------------------
(***************************************************************************)
(* Service.run                                                             *)
(***************************************************************************)
\* The loop condition, at the end of a turn.
Again(s) == IF service[s] = "running" THEN Taking ELSE Exited

\* Take a message and handle it.  handleMessage may return a response, return
\* null or throw; only a response goes on to completeRequest.
Handle_dies(s) ==
    /\ thread[s] = Taking /\ service[s] # "interrupted" /\ inbox[s] # << >>
    /\ inbox' = [inbox EXCEPT ![s] = Tail(@)]
    /\ handled' = [handled EXCEPT ![s][Head(inbox[s])] = @ + 1]
    /\ \E next \in {At("remove", Head(inbox[s])), Exited} :
          thread' = [thread EXCEPT ![s] = next]
    /\ UNCHANGED <<busVars, service, deliveries, callVars>>

Handle(s) ==
    /\ thread[s] = Taking /\ service[s] # "interrupted" /\ inbox[s] # << >>
    /\ inbox' = [inbox EXCEPT ![s] = Tail(@)]
    /\ handled' = [handled EXCEPT ![s][Head(inbox[s])] = @ + 1]
    /\ \E next \in {At("remove", Head(inbox[s])), Again(s)} :
          thread' = [thread EXCEPT ![s] = next]
    /\ UNCHANGED <<busVars, service, deliveries, callVars>>

\* inbox.take throws InterruptedException.
Leave(s) ==
    /\ thread[s] = Taking /\ service[s] = "interrupted"
    /\ thread' = [thread EXCEPT ![s] = Exited]
    /\ UNCHANGED <<busVars, service, inbox, deliveries, callVars, handled>>

\* completeRequest removes the entry, then completes the future it found.
RemovePending(s) ==
    /\ thread[s].at = "remove"
    /\ LET r == thread[s].req IN
       /\ thread' = [thread EXCEPT ![s] = IF r \in pendingRequests THEN At("complete", r)
                                          ELSE Again(s)]
       /\ pendingRequests' = pendingRequests \ {r}
    /\ UNCHANGED <<busVars, service, inbox, deliveries, call, future, handled>>

CompleteFuture_of_another(s) ==
    /\ thread[s].at = "complete"
    /\ LET r == IF pendingRequests = {} THEN thread[s].req
                ELSE CHOOSE q \in pendingRequests : TRUE
       IN  future' = [future EXCEPT ![r] = "done"]
    /\ thread' = [thread EXCEPT ![s] = Again(s)]
    /\ UNCHANGED <<busVars, service, inbox, deliveries, call, pendingRequests, handled>>

CompleteFuture(s) ==
    /\ thread[s].at = "complete"
    /\ future' = [future EXCEPT ![thread[s].req] = "done"]
    /\ thread' = [thread EXCEPT ![s] = Again(s)]
    /\ UNCHANGED <<busVars, service, inbox, deliveries, call, pendingRequests, handled>>

Caller(r) == Refuse(r) \/ AddPending(r) \/ Submit(r) \/ Return(r) \/ Timeout(r)

ServiceThread(s) == Handle(s) \/ Leave(s) \/ RemovePending(s) \/ CompleteFuture(s)

Next ==
    \/ start \/ shutdown \/ ShutdownExecutor
    \/ \E s \in Services : \/ registerService(s) \/ unregisterService(s)
                           \/ Interrupt(s) \/ ShutdownService(s) \/ ServiceThread(s)
    \/ \E r \in Requests : Caller(r) \/ broadcastMessage(r)
    \/ \E r \in Requests, s \in Services : Deliver(r, s)

Spec == Init /\ [][Next]_vars

\* Threads that can run do run, and ten seconds pass.
FairSpec ==
    /\ Spec
    /\ \A s \in Services : WF_vars(ServiceThread(s)) /\ WF_vars(Interrupt(s))
    /\ \A r \in Requests : WF_vars(Submit(r)) /\ WF_vars(Return(r) \/ Timeout(r))
    /\ \A r \in Requests, s \in Services : WF_vars(Deliver(r, s))

----------------------------------------------------------------------------
Calls == {"none", "refused", "submit", "rejected", "waiting", "answered", "timeout", "broadcast"}

TypeOK ==
    /\ bus \in {"new", "running", "down"} /\ executor_open \in BOOLEAN
    /\ services \subseteq Services
    /\ service \in [Services -> {"new", "running", "stopped", "interrupted"}]
    /\ inbox \in [Services -> Seq(Requests)]
    /\ thread \in [Services -> {Taking, Exited} \cup [at : {"remove", "complete"}, req : Requests]]
    /\ deliveries \subseteq Requests \X Services
    /\ handled \in [Services -> [Requests -> Nat]]
    /\ call \in [Requests -> Calls]
    /\ pendingRequests \subseteq Requests
    /\ future \in [Requests -> {"empty", "done"}]

\* An entry of pendingRequests belongs to a call that is still in sendMessage:
\* neither a late answer nor a timeout leaves one behind.  The one leak is a
\* call that executor.submit rejects because shutdown came in between.
NoPendingLeak ==
    \A r \in pendingRequests :
        call[r] \in {"submit", "waiting"} \/ (call[r] = "rejected" /\ ~executor_open)

\* sendMessage is a request/reply call: at most one handling per request, an
\* answer only to the request that was handled, however deliveries, timeouts,
\* late completions and shutdown interleave.
Outcome(r) ==
    CASE call[r] \in {"none", "broadcast"} -> "none"
      [] call[r] = "refused" -> "refused"
      [] call[r] \in {"submit", "waiting"} -> "open"
      [] call[r] = "answered" -> "answered"
      [] call[r] \in {"timeout", "rejected"} -> "failed"

Rpc == INSTANCE RequestReply WITH
    outcome <- [r \in Requests |-> Outcome(r)],
    handled <- [r \in Requests |-> IF call[r] = "broadcast" THEN 0 ELSE handled[to[r]][r]]

ImplementsRequestReply == Rpc!Spec

\* Every sendMessage returns, whatever happens to the service it waits for.
CallsReturn == \A r \in Requests :
    call[r] \in {"submit", "waiting"} ~> call[r] \in {"answered", "timeout", "rejected"}

\* A message that was submitted is handled, unless its service is stopped: one
\* failing message never costs the service its thread or later messages.
NothingDropped == \A r \in Requests, s \in Services :
    <<r, s>> \in deliveries ~> handled[s][r] > 0 \/ service[s] # "running"

\* Neither a caller nor a message waits for ever.
NobodyWaitsForEver == CallsReturn /\ NothingDropped
====
