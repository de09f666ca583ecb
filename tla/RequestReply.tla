---- MODULE RequestReply ----
(***************************************************************************)
(* What MessageBus.sendMessage promises its callers: a request that is     *)
(* not refused is handled at most once, an answer comes only after it was  *)
(* handled, and a failed request may have been handled, may be handled     *)
(* later, or never.                                                        *)
(***************************************************************************)
CONSTANT Requests

VARIABLES
    outcome,  \* what the caller of each request knows
    handled   \* how often each request was handled

vars == <<outcome, handled>>

Init == outcome = [r \in Requests |-> "none"] /\ handled = [r \in Requests |-> 0]

Call(r) ==
    /\ outcome[r] = "none"
    /\ \E o \in {"open", "refused"} : outcome' = [outcome EXCEPT ![r] = o]
    /\ UNCHANGED handled

Handle(r) ==
    /\ outcome[r] \in {"open", "failed"} /\ handled[r] = 0
    /\ handled' = [handled EXCEPT ![r] = 1]
    /\ UNCHANGED outcome

Answer(r) ==
    /\ outcome[r] = "open" /\ handled[r] = 1
    /\ outcome' = [outcome EXCEPT ![r] = "answered"]
    /\ UNCHANGED handled

Fail(r) ==
    /\ outcome[r] = "open"
    /\ outcome' = [outcome EXCEPT ![r] = "failed"]
    /\ UNCHANGED handled

Next == \E r \in Requests : Call(r) \/ Handle(r) \/ Answer(r) \/ Fail(r)

Spec == Init /\ [][Next]_vars
====
