---- MODULE MCKernel ----
(***************************************************************************)
(* The kernel's memory and its message ring, which share no state: part    *)
(* says which of them a behaviour is about; the other stays as it starts.  *)
(***************************************************************************)
EXTENDS PageAllocator, IpcRing

LOCAL INSTANCE Bitwise

BitOr(f, b) == f | b

VARIABLE part

kernelVars == <<part, vars, ringVars>>

KernelInit == part \in {"pages", "ring"} /\ Init /\ RingInit

PagesStep == part = "pages" /\ Next /\ UNCHANGED <<part, ringVars>>
RingStep(A) == part = "ring" /\ A /\ UNCHANGED <<part, vars>>

KernelSpec == KernelInit /\ [][PagesStep \/ RingStep(RingNext)]_kernelVars
====
