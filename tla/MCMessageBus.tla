---- MODULE MCMessageBus ----
(***************************************************************************)
(* An instance of MessageBus: two requests to one of two services.         *)
(***************************************************************************)
EXTENDS MessageBus

CONSTANT s1

Addressee == [r \in Requests |-> s1]
====
